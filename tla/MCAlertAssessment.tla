------------------------- MODULE MCAlertAssessment -------------------------
EXTENDS AlertAssessment

Draw(id, kind, fires, time, customer, account, base, times, coin, pick, ident) ==
    [id |-> id, kind |-> kind, fires |-> fires, time |-> time, customer |-> customer, account |-> account,
     base |-> base, times |-> times, coin |-> coin, coin2 |-> ~coin, pick |-> pick, ident |-> ident]

\* Customer 1 has accounts 11 and 12 (two seeds), customer 2 account 21 and, by
\* chance, 11 as well; device 7 is drawn for both.
SmallDraws ==
    [online_banking |-> {Draw(1, "NORMAL", FALSE, 1000, 2, 21, 5, 1, FALSE, 1, 7),
                         Draw(3, "NORMAL", FALSE, 990, 1, 12, 5, 1, FALSE, 2, 7),
                         Draw(2, "FRAUD_SCENARIO", TRUE, 1030, 1, 12, 5, 4, FALSE, 1, 7)},
     p2p            |-> {Draw(4, "HARD_FALSE_POSITIVE", TRUE, 1050, 1, 12, 10, 6, FALSE, 1, 1)},
     wire           |-> {Draw(5, "NORMAL", TRUE, 1020, 1, 11, 50, 1, TRUE, 2, 1)},
     ach            |-> {Draw(6, "FRAUD_SCENARIO", TRUE, 1005, 2, 11, 8, 5, TRUE, 3, 1)},
     atm            |-> {Draw(7, "FRAUD_SCENARIO", TRUE, 1055, 1, 12, 4, 3, TRUE, 1, 1)},
     debit_card     |-> {Draw(8, "HARD_FALSE_POSITIVE", TRUE, 2500, 1, 12, 9, 1, FALSE, 1, 1)},
     mobile_deposit |-> {Draw(9, "FRAUD_SCENARIO", TRUE, 1032, 2, 21, 7, 1, TRUE, 1, 1)}]

On(field, op, value) == [field |-> field, op |-> op, value |-> value]
Mandatory(id, when)    == [id |-> id, category |-> "MANDATORY_REVIEW", when |-> when,
                           contribution |-> -1, reason |-> id]
Contributing(id, when, contribution) ==
                          [id |-> id, category |-> "SCORE_CONTRIBUTING", when |-> when,
                           contribution |-> contribution, reason |-> id]
Informational(id, when) == [id |-> id, category |-> "INFORMATIONAL", when |-> when,
                            contribution |-> -1, reason |-> id]
RuleSet(channel, rules) == [channel |-> channel, rules |-> rules]
IsTrue(field)  == On(field, "is_true", NoValue)
IsFalse(field) == On(field, "is_false", NoValue)

\* config/fraud_intel/rules_<channel>.yaml; the debit card's is a copy of
\* another channel's, the slip evaluate() looks for.
RuleFiles ==
    [online_banking |-> RuleSet("online_banking",
        <<Mandatory(1, <<IsTrue("profile_change_then_transfer_flag"), IsTrue("mfa_bypass_flag")>>),
          Contributing(2, <<IsTrue("new_device_high_value_combo_flag")>>, 15),
          Informational(3, <<On("session_velocity", "gte", Num(3))>>)>>),
     p2p |-> RuleSet("p2p",
        <<Mandatory(1, <<IsTrue("recipient_is_new_flag"), On("amount_minor_units", "gt", Num(200)),
                         On("events_last_1h", "gte", Num(3))>>),
          Contributing(2, <<IsTrue("recipient_is_new_flag"), IsFalse("memo_present_flag")>>, 10),
          Informational(3, <<IsTrue("night_transaction_flag")>>)>>),
     wire |-> RuleSet("wire",
        <<Mandatory(1, <<On("wire_type", "eq", Str("international")), IsTrue("is_new_device"),
                         On("amount_minor_units", "gt", Num(1000))>>),
          Contributing(2, <<On("amount_vs_entity_average", "gt", Num(500))>>, 20),
          Informational(3, <<IsTrue("night_transaction_flag")>>)>>),
     ach |-> RuleSet("ach",
        <<Mandatory(1, <<IsTrue("is_new_device"), On("amount_minor_units", "gt", Num(500)),
                         On("events_last_1h", "gte", Num(3))>>),
          Contributing(2, <<IsTrue("is_new_device"), On("amount_minor_units", "gt", Num(500))>>, 15),
          Informational(3, <<IsTrue("night_transaction_flag")>>)>>),
     atm |-> RuleSet("atm",
        <<Mandatory(1, <<On("atm_geo_bucket", "eq", Str("international")),
                         On("events_last_1h", "gte", Num(3))>>),
          Contributing(2, <<On("amount_vs_entity_average", "gt", Num(400))>>, 15),
          Informational(3, <<IsTrue("night_transaction_flag")>>)>>),
     debit_card |-> RuleSet("atm", <<>>),
     mobile_deposit |-> RuleSet("mobile_deposit",
        <<Mandatory(1, <<IsTrue("duplicate_image_hash_flag"), IsTrue("car_lar_mismatch_flag")>>),
          Contributing(2, <<On("image_quality_score", "lt", Num(60))>>, 10),
          Informational(3, <<IsFalse("signature_verification_flag")>>)>>)]

SmallGraphPolicy == [deviceWeight |-> 30, fanInWeight |-> 30, fanOutWeight |-> 20, pathWeight |-> 20,
                     deviceCap |-> 5, fanInCap |-> 10, fanOutCap |-> 10,
                     maxHistory |-> 2, maxNodes |-> 7, maxEdges |-> 20]
LocalPriorityPolicy == [ruleWeight |-> 35, gbmWeight |-> 40, anomalyWeight |-> 15, graphWeight |-> 10,
                        ruleCap |-> 100, high |-> 75, medium |-> 40]

TwoAnswers == {[gbm |-> 95, anomaly |-> 80, contributions |-> <<40, -60>>],
               [gbm |-> 5, anomaly |-> 10, contributions |-> <<>>]}

\* Scoring looks at nothing but the listed job, and the reads before the evidence
\* at no assessment: what the environment does then might as well wait.
Scoring == job.pc \in {"listed", "scored", "raised"}
EnvironmentWaits ==
    /\ Scoring => job' # job
    /\ assessed' # assessed => job.pc \in {"idle", "alerts"}

\* A listed job is scored alike whatever the tables hold by then, and leaves
\* them as they were, which they may be without it.
ListedView == IF Scoring THEN <<job>> ELSE vars
=============================================================================
