------------------------- MODULE ScenarioGenerator -------------------------
(***************************************************************************)
(* The seven channel generators (fraud_intel/generator): the only writers  *)
(* of channel_events.  A draw is one round of a generator's random stream: *)
(*   [id, kind, fires, time, customer, account,                            *)
(*    base, times,       the amount drawn and the multiplier drawn         *)
(*    coin, coin2,       the booleans drawn                                *)
(*    pick, ident]       the other party drawn and every other identifier  *)
(* Different rounds may draw the same pick or account.  Amounts are in     *)
(* units of 1,000 minor units ($10).                                       *)
(***************************************************************************)
EXTENDS RuleProvider

Kinds == {"NORMAL", "HARD_FALSE_POSITIVE", "FRAUD_SCENARIO"}
Fraud(draw)   == draw.kind = "FRAUD_SCENARIO"
HardFP(draw)  == draw.kind = "HARD_FALSE_POSITIVE"

\* draw_scenarios and, of the draws that fire, build_source_alert_context:
\* the alert is created at the event's own time.
EventOf(draw, channel, amount, device, payload) ==
    [id |-> draw.id, time |-> draw.time, channel |-> channel,
     customer |-> draw.customer, account |-> draw.account, amount |-> amount,
     device |-> device, ip |-> {}, payload |-> payload,
     alertedAt |-> IF draw.fires THEN draw.time ELSE 0,
     upstream |-> <<channel, draw.kind>>]

Multiplied(draw) == IF draw.kind = "NORMAL" THEN draw.base ELSE draw.base * draw.times

P2PEvent(draw) ==
    EventOf(draw, "p2p", Multiplied(draw), {},
        [recipient_handle      |-> Str(draw.pick),
         memo_present_flag     |-> Bool(~Fraud(draw)),
         recipient_is_new_flag |-> Bool(Fraud(draw) \/ HardFP(draw))])

WireEvent(draw) ==
    EventOf(draw, "wire", Multiplied(draw), {},
        [wire_type           |-> Str(IF Fraud(draw) \/ draw.coin THEN "international" ELSE "domestic"),
         beneficiary_account |-> Str(draw.pick)])

ACHEvent(draw) ==
    EventOf(draw, "ach", Multiplied(draw), {},
        [sec_code                 |-> Str(IF draw.coin THEN "WEB" ELSE "PPD"),
         receiving_routing_number |-> Str(draw.pick),
         company_id               |-> Str(draw.ident)])

ATMEvent(draw) ==
    EventOf(draw, "atm", Multiplied(draw), {},
        [atm_id            |-> Str(draw.pick),
         atm_geo_bucket    |-> Str(IF draw.coin THEN "international" ELSE "urban"),
         card_present_flag |-> Bool(TRUE)])

\* Every flag is a coin of its own in every kind, but a hard false positive
\* always crosses a border; the amounts share one range.
DebitCardEvent(draw) ==
    EventOf(draw, "debit_card", draw.base, {},
        [merchant_id       |-> Str(draw.ident),
         card_present_flag |-> Bool(draw.coin),
         cross_border_flag |-> Bool(HardFP(draw) \/ draw.coin2),
         card_token        |-> Str(draw.pick)])

MobileDepositEvent(draw) ==
    EventOf(draw, "mobile_deposit", draw.base, {},
        [duplicate_image_hash_flag   |-> Bool(Fraud(draw)),
         car_lar_mismatch_flag       |-> Bool(Fraud(draw) /\ draw.coin),
         signature_verification_flag |-> Bool(~Fraud(draw)),
         image_quality_score         |-> Num(IF Fraud(draw) THEN 45 ELSE 90),
         check_payee_token           |-> Str(draw.pick)])

\* The one channel whose events carry a device; no channel's carry an address.
OnlineBankingEvent(draw) ==
    EventOf(draw, "online_banking", Multiplied(draw), {draw.ident},
        [mfa_used_flag    |-> Bool(~Fraud(draw)),
         transaction_type |-> Str("transfer"),
         target_account   |-> Str(draw.pick)])

ChannelNames == {"p2p", "wire", "ach", "atm", "debit_card", "mobile_deposit", "online_banking"}

\* The ranges the generators draw from, [lowest, highest] (hundredths of the
\* card's range below the unit are rounded up to it).
BaseAmounts(channel) ==
    CASE channel = "p2p" -> 1..19            [] channel = "wire" -> 50..499
      [] channel = "ach" -> 5..49            [] channel = "atm" -> 2..19
      [] channel = "debit_card" -> 1..29     [] channel = "mobile_deposit" -> 1..29
      [] channel = "online_banking" -> 5..39
Multipliers(channel, kind) ==
    CASE kind = "NORMAL"            -> {1}
      [] channel = "p2p"            -> 2..7
      [] channel = "wire"           -> 3..19
      [] channel = "ach"            -> IF kind = "FRAUD_SCENARIO" THEN 5..14 ELSE 4..9
      [] channel = "atm"            -> 3..9
      [] channel = "online_banking" -> 3..11
      [] OTHER                      -> {1}

ValidDraw(draw, channel) ==
    /\ draw.kind \in Kinds /\ draw.time \in Nat \ {0}
    /\ draw.base \in BaseAmounts(channel)
    /\ draw.times \in Multipliers(channel, draw.kind)

Generated(channel, draws) ==
    CASE channel = "p2p"            -> {P2PEvent(d) : d \in draws}
      [] channel = "wire"           -> {WireEvent(d) : d \in draws}
      [] channel = "ach"            -> {ACHEvent(d) : d \in draws}
      [] channel = "atm"            -> {ATMEvent(d) : d \in draws}
      [] channel = "debit_card"     -> {DebitCardEvent(d) : d \in draws}
      [] channel = "mobile_deposit" -> {MobileDepositEvent(d) : d \in draws}
      [] channel = "online_banking" -> {OnlineBankingEvent(d) : d \in draws}
=============================================================================
