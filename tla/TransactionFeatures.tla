------------------------ MODULE TransactionFeatures ------------------------
(***************************************************************************)
(* One transaction's features, risk and decision: common/features.py,      *)
(* common/feature_store.py (what it reads), processing/risk_lookups.py and *)
(* decisioning/engine.py.                                                  *)
(*                                                                         *)
(* A transaction is [id, customer, at, amount, merchant, country, device]; *)
(* an event is [id, customer, kind, at].  Quotients are exact, as          *)
(* <<numerator, denominator>>; probabilities are hundredths.               *)
(***************************************************************************)
EXTENDS Integers, FiniteSets, Sequences, SequencesExt

CONSTANTS Window10m, Window1h, Window24h,  \* settings.yaml velocity_windows
          WindowFailed1h,                  \* failed_attempts_1h_minutes, of its own
          Lookback,                        \* _LOOKBACK, five minutes above Window24h
          NightStart, NightEnd,            \* fraud_rules.yaml night_window
          HourOf(_)                        \* the hour of a timestamp in APP_TIMEZONE

ASSUME WindowAssumption == /\ {Window10m, Window1h, Window24h, WindowFailed1h, Lookback} \subseteq Nat
                           /\ 0 < Window10m /\ Window10m <= Window1h
                           /\ Window1h <= Window24h /\ Window24h <= Lookback

-----------------------------------------------------------------------------
(* features.py.                                                             *)

DefaultProfile == [avg |-> 0, stddev |-> 0, devices |-> {}, countries |-> {}]

\* fetch_customer_profile, and the batch's profile_lookup.get.
ProfileOf(profiles, customer) ==
    IF customer \in DOMAIN profiles THEN profiles[customer] ELSE DefaultProfile

IsNightHour(hour) ==
    IF NightStart > NightEnd THEN hour >= NightStart \/ hour < NightEnd
                             ELSE NightStart <= hour /\ hour < NightEnd

\* A lookup is [merchant, country, default], two partial functions of shares.
RiskOf(scores, key, default) == IF key \in DOMAIN scores THEN scores[key] ELSE default

NoLookups == [merchant |-> <<>>, country |-> <<>>, default |-> <<1, 5>>]

\* recent gives each place an event: one that has two places counts twice.
CountWithin(recent, kind, at, window) ==
    Cardinality({i \in DOMAIN recent : recent[i].kind = kind /\ at - recent[i].at <= window})

ComputeFeatures(tx, profile, recent, lookups) ==
    [ratio        |-> IF profile.avg > 0 THEN <<tx.amount, profile.avg>> ELSE <<1, 1>>,
     zscore       |-> IF profile.stddev > 0 THEN <<tx.amount - profile.avg, profile.stddev>> ELSE <<0, 1>>,
     newDevice    |-> tx.device \notin profile.devices,
     newCountry   |-> tx.country \notin profile.countries,
     night        |-> IsNightHour(HourOf(tx.at)),
     last10m      |-> CountWithin(recent, "success", tx.at, Window10m),
     last1h       |-> CountWithin(recent, "success", tx.at, Window1h),
     last24h      |-> CountWithin(recent, "success", tx.at, Window24h),
     failed1h     |-> CountWithin(recent, "failed", tx.at, WindowFailed1h),
     merchantRisk |-> RiskOf(lookups.merchant, tx.merchant, lookups.default),
     countryRisk  |-> RiskOf(lookups.country, tx.country, lookups.default)]

-----------------------------------------------------------------------------
(* feature_store.py: the online table recent_events.                        *)

RecentEvents(events, customer, at) ==
    LET within == {i \in DOMAIN events : /\ events[i].customer = customer
                                        /\ at - Lookback <= events[i].at /\ events[i].at < at}
    IN  [i \in within |-> events[i]]

-----------------------------------------------------------------------------
(* decisioning/engine.py.                                                   *)

Classify(probability) ==
    CASE probability <= 40                      -> [risk |-> "LOW",    decision |-> "APPROVE"]
      [] probability > 40 /\ probability <= 75  -> [risk |-> "MEDIUM", decision |-> "MONITOR"]
      [] probability > 75 /\ probability <= 90  -> [risk |-> "HIGH",   decision |-> "REVIEW"]
      [] OTHER                                  -> [risk |-> "HIGH",   decision |-> "BLOCK"]

Codes(f) ==
    {code \in {"NEW_DEVICE", "NEW_COUNTRY", "HIGH_AMOUNT_VS_AVERAGE", "MULTIPLE_RECENT_ATTEMPTS",
               "NIGHT_TRANSACTION", "HIGH_VELOCITY"} :
        \/ code = "NEW_DEVICE" /\ f.newDevice
        \/ code = "NEW_COUNTRY" /\ f.newCountry
        \/ code = "HIGH_AMOUNT_VS_AVERAGE" /\ f.ratio[1] >= 5 * f.ratio[2]
        \/ code = "MULTIPLE_RECENT_ATTEMPTS" /\ f.failed1h >= 2
        \/ code = "NIGHT_TRANSACTION" /\ f.night
        \/ code = "HIGH_VELOCITY" /\ f.last10m >= 3}

-----------------------------------------------------------------------------
(* processing/risk_lookups.py: rates of fraud, smoothed toward the overall  *)
(* one with strength 5 and kept between 0.02 and 0.95.                      *)

Clamped(q) == IF q[1] * 100 < 2 * q[2] THEN <<2, 100>>
              ELSE IF q[1] * 100 > 95 * q[2] THEN <<95, 100>> ELSE q

\* (frauds + 5 F/N) / (all + 5).
RateOf(group, rows) ==
    LET frauds == Cardinality({r \in rows : r.fraud})
        n      == Cardinality(rows)
    IN  Clamped(<<Cardinality({r \in group : r.fraud}) * n + 5 * frauds,
                  n * (Cardinality(group) + 5)>>)

ComputeRiskLookups(rows) ==
    [merchant |-> [m \in {r.merchant : r \in rows} |-> RateOf({r \in rows : r.merchant = m}, rows)],
     country  |-> [c \in {r.country : r \in rows}  |-> RateOf({r \in rows : r.country = c}, rows)],
     default  |-> IF rows = {} THEN <<3, 100>>
                  ELSE <<Cardinality({r \in rows : r.fraud}), Cardinality(rows)>>]
=============================================================================
