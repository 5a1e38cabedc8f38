-------------------------- MODULE ChannelFeatures --------------------------
(***************************************************************************)
(* The feature vectors and entities of the seven channels                  *)
(* (fraud_intel/features, fraud_intel/registry.py, fraud_intel/events).    *)
(*                                                                         *)
(* An event is [id, time, channel, customer, account, amount, device, ip,  *)
(* payload, alertedAt]: minutes for times, sets of at most one id for what *)
(* may be absent, a record of RuleProvider values for the payload, 0 for   *)
(* an event the source system raised no alert about.  A context is [event, *)
(* history, alerts].  Ratios are in hundredths; the z-score is kept as its *)
(* square with its sign, which orders the same.                            *)
(***************************************************************************)
EXTENDS RuleProvider, EntityGraph

CONSTANTS RoundAmount,          \* ROUND_DOLLAR_AMOUNT_MINOR_UNITS, in amount units
          HighAmount,           \* HIGH_VALUE_AMOUNT_MINOR_UNITS_THRESHOLD, in amount units
          NightStart, NightEnd, \* hours of the night window, which may pass midnight
          LocalOffset           \* minutes of the application's time zone over UTC

ASSUME FeatureAssumption == /\ {RoundAmount, HighAmount} \subseteq Nat \ {0}
                            /\ {NightStart, NightEnd} \subseteq 0..23
                            /\ LocalOffset \in Nat

Window10m == 10
Window1h  == 60
Day       == 1440

-----------------------------------------------------------------------------
(* History selection (features/history.py) and the context (features/core). *)

\* Those with fewer than limit others after them by a time column, then the id.
FirstNewest(S, limit, at) ==
    LET After(x) == {y \in S : x[at] < y[at] \/ (x[at] = y[at] /\ x.id < y.id)}
    IN  {x \in S : Cardinality(After(x)) < limit}

SelectEvents(pool, event, limit) ==
    FirstNewest({e \in pool : /\ e.customer = event.customer
                              /\ e.id # event.id
                              /\ e.time < event.time}, limit, "time")

\* An alert is resolved to its customer through the pool of events, or dropped.
SelectAlerts(alerts, pool, event, limit) ==
    FirstNewest({a \in alerts : /\ a.id # event.id
                                /\ \E e \in pool : e.id = a.id /\ e.customer = event.customer
                                /\ a.alertedAt < event.time}, limit, "alertedAt")

\* FeatureComputationContext's validator.
ValidContext(ctx) ==
    /\ \A e \in ctx.history : e.id # ctx.event.id /\ e.time < ctx.event.time
    /\ \A a \in ctx.alerts : a.alertedAt < ctx.event.time

OfCustomer(ctx) == {e \in ctx.history : e.customer = ctx.event.customer}
OfAccount(ctx)  == {e \in ctx.history : e.account = ctx.event.account}
OfChannel(S, ctx) == {e \in S : e.channel = ctx.event.channel}

Within(S, ctx, window) == {e \in S : ctx.event.time - e.time <= window}

-----------------------------------------------------------------------------
(* compute_shared_features.                                                 *)

Amounts(S) == MapThenSumSet(LAMBDA e : e.amount, S)

\* The amount over the mean of S; 1.0 where there is no history.
RatioToMean(event, S) ==
    IF S = {} THEN 100 ELSE (100 * event.amount * Cardinality(S)) \div Amounts(S)

SignedSquaredZScore(event, S) ==
    LET n == Cardinality(S)
        spread == n * MapThenSumSet(LAMBDA e : e.amount * e.amount, S) - Amounts(S) * Amounts(S)
        shift  == n * event.amount - Amounts(S)
    IN  IF n < 2 \/ spread = 0 THEN 0
        ELSE (IF shift < 0 THEN -1 ELSE 1) * ((100 * shift * shift) \div spread)

IsNew(ids, seen) == ids # {} /\ ids \cap seen = {}

NightHour(hour) ==
    IF NightStart > NightEnd THEN hour >= NightStart \/ hour < NightEnd
    ELSE NightStart <= hour /\ hour < NightEnd

TenureDays(ctx, S) == IF S = {} THEN 0 ELSE (ctx.event.time - Min({e.time : e \in S})) \div Day

\* No caller passes a counterparty: its risk is always the neutral 0.2.
SharedFeatures(ctx) ==
    LET mine == OfCustomer(ctx)
        now  == ctx.event
    IN  [amount_vs_entity_average |-> Num(RatioToMean(now, mine)),
         amount_zscore            |-> Num(SignedSquaredZScore(now, mine)),
         is_new_device            |-> Bool(IsNew(now.device, UNION {e.device : e \in mine})),
         is_new_ip                |-> Bool(IsNew(now.ip, UNION {e.ip : e \in mine})),
         night_transaction_flag   |-> Bool(NightHour(((now.time + LocalOffset) \div 60) % 24)),
         events_last_10m          |-> Num(Cardinality(Within(mine, ctx, Window10m))),
         events_last_1h           |-> Num(Cardinality(Within(mine, ctx, Window1h))),
         events_last_24h          |-> Num(Cardinality(Within(mine, ctx, Day))),
         prior_alert_count        |-> Num(Cardinality(ctx.alerts)),
         customer_observed_tenure_days |-> Num(TenureDays(ctx, mine)),
         account_observed_tenure_days  |-> Num(TenureDays(ctx, OfAccount(ctx))),
         counterparty_risk_score  |-> Num(20)]

-----------------------------------------------------------------------------
(* The channels' own features.                                              *)

Own(ctx) == OfChannel(OfCustomer(ctx), ctx)

\* No event of S has the current event's value of this payload field.
FirstTime(ctx, S, field) == \A e \in S : e.payload[field] # ctx.event.payload[field]

P2PFeatures(ctx) ==
    [recipient_is_new_flag          |-> ctx.event.payload.recipient_is_new_flag,
     no_memo_flag                   |-> Bool(ctx.event.payload.memo_present_flag = Bool(FALSE)),
     rapid_sequential_transfer_flag |-> Bool(Cardinality(Within(Own(ctx), ctx, Window10m)) >= 2),
     round_dollar_amount_flag       |-> Bool(ctx.event.amount % RoundAmount = 0)]

WireFeatures(ctx) ==
    [is_international_flag          |-> Bool(ctx.event.payload.wire_type = Str("international")),
     first_time_beneficiary_flag    |-> Bool(FirstTime(ctx, Own(ctx), "beneficiary_account")),
     amount_vs_historical_max_ratio |->
        Num(IF Own(ctx) = {} THEN 100
            ELSE (100 * ctx.event.amount) \div Max({e.amount : e \in Own(ctx)}))]

ACHFeatures(ctx) ==
    LET sameDay == {e \in Own(ctx) : e.time \div Day = ctx.event.time \div Day}
    IN  [first_time_receiving_routing_number_flag |->
            Bool(FirstTime(ctx, Own(ctx), "receiving_routing_number")),
         same_day_mixed_sec_code_flag |->
            Bool(\E e \in sameDay : e.payload.sec_code # ctx.event.payload.sec_code),
         first_time_company_id_flag |-> Bool(FirstTime(ctx, Own(ctx), "company_id"))]

ATMFeatures(ctx) ==
    LET buckets == {e.payload.atm_geo_bucket : e \in Within(Own(ctx), ctx, Window1h) \cup {ctx.event}}
    IN  [is_international_geo_flag |-> Bool(ctx.event.payload.atm_geo_bucket = Str("international")),
         geo_velocity_distinct_buckets_1h |-> Num(Cardinality(buckets)),
         cash_out_ratio_vs_average |-> Num(RatioToMean(ctx.event, Own(ctx)))]

DebitCardFeatures(ctx) ==
    LET merchants == {e.payload.merchant_id : e \in Within(Own(ctx), ctx, Window1h) \cup {ctx.event}}
    IN  [card_not_present_flag |-> Bool(ctx.event.payload.card_present_flag = Bool(FALSE)),
         cross_border_new_device_combo_flag |->
            Bool(/\ ctx.event.payload.cross_border_flag = Bool(TRUE)
                 /\ SharedFeatures(ctx).is_new_device = Bool(TRUE)),
         distinct_merchant_count_1h |-> Num(Cardinality(merchants))]

\* By account, where every other channel goes by customer.
MobileDepositFeatures(ctx) ==
    [duplicate_image_hash_flag |-> ctx.event.payload.duplicate_image_hash_flag,
     car_lar_mismatch_flag     |-> ctx.event.payload.car_lar_mismatch_flag,
     low_image_quality_flag    |-> Bool(ctx.event.payload.image_quality_score.v < 60),
     rapid_resubmission_flag   |-> Bool(Within(OfChannel(OfAccount(ctx), ctx), ctx, Window10m) # {})]

OnlineBankingFeatures(ctx) ==
    LET changes == {e \in Within(Own(ctx), ctx, Day) : e.payload.transaction_type = Str("profile_change")}
    IN  [new_device_high_value_combo_flag |->
            Bool(/\ SharedFeatures(ctx).is_new_device = Bool(TRUE)
                 /\ ctx.event.amount > HighAmount),
         mfa_bypass_flag  |-> Bool(ctx.event.payload.mfa_used_flag = Bool(FALSE)),
         session_velocity |-> Num(Cardinality(Within(Own(ctx), ctx, Window1h))),
         profile_change_then_transfer_flag |->
            Bool(ctx.event.payload.transaction_type = Str("transfer") /\ changes # {})]

Features(ctx) ==
    SharedFeatures(ctx) @@
    CASE ctx.event.channel = "p2p"            -> P2PFeatures(ctx)
      [] ctx.event.channel = "wire"           -> WireFeatures(ctx)
      [] ctx.event.channel = "ach"            -> ACHFeatures(ctx)
      [] ctx.event.channel = "atm"            -> ATMFeatures(ctx)
      [] ctx.event.channel = "debit_card"     -> DebitCardFeatures(ctx)
      [] ctx.event.channel = "mobile_deposit" -> MobileDepositFeatures(ctx)
      [] ctx.event.channel = "online_banking" -> OnlineBankingFeatures(ctx)

\* What each generator gives its events, by their channel.
DirectionOf(channel) == IF channel = "mobile_deposit" THEN "credit" ELSE "debit"

\* The event's own fields that conditions may name.
IntrinsicFields(event) ==
    [amount_minor_units |-> Num(event.amount),
     channel            |-> Str(event.channel),
     direction          |-> Str(DirectionOf(event.channel)),
     device_id_present  |-> Bool(event.device # {}),
     ip_address_present |-> Bool(event.ip # {})]

-----------------------------------------------------------------------------
(* extract_entities: an extractor knows the other party of its own channel. *)

Party(type, value) == IF value.kind = "none" THEN {} ELSE {<<type, value.v>>}

Common(e) == {<<"customer", e.customer>>, <<"account", e.account>>}
               \cup {<<"device", d>> : d \in e.device} \cup {<<"ip_address", i>> : i \in e.ip}

P2PEntities(e) ==
    Common(e) \cup (IF e.channel = "p2p" THEN Party("recipient", e.payload.recipient_handle) ELSE {})
WireEntities(e) ==
    Common(e) \cup (IF e.channel = "wire" THEN Party("beneficiary", e.payload.beneficiary_account) ELSE {})
ACHEntities(e) == Common(e)
ATMEntities(e) ==
    Common(e) \cup (IF e.channel = "atm" THEN Party("atm", e.payload.atm_id) ELSE {})
DebitCardEntities(e) ==
    Common(e) \cup (IF e.channel = "debit_card" THEN Party("card", e.payload.card_token) ELSE {})
MobileDepositEntities(e) ==
    Common(e) \cup (IF e.channel = "mobile_deposit" THEN Party("check_payee", e.payload.check_payee_token) ELSE {})
OnlineBankingEntities(e) ==
    Common(e) \cup (IF e.channel = "online_banking" THEN Party("recipient", e.payload.target_account) ELSE {})

Extract(channel, e) ==
    CASE channel = "p2p"            -> P2PEntities(e)
      [] channel = "wire"           -> WireEntities(e)
      [] channel = "ach"            -> ACHEntities(e)
      [] channel = "atm"            -> ATMEntities(e)
      [] channel = "debit_card"     -> DebitCardEntities(e)
      [] channel = "mobile_deposit" -> MobileDepositEntities(e)
      [] channel = "online_banking" -> OnlineBankingEntities(e)
=============================================================================
