---------------------------- MODULE MCAdminJobs ----------------------------
(* Instances of AdminJobs: two jobs of other types in two queues, and the     *)
(* daily job. An int has four bits: 3 days fit into a Duration and 5 do not;   *)
(* the largest one, 7, is what strconv.Atoi makes of a number that is larger. *)
EXTENDS AdminJobs, TLC

CONSTANTS j1, j2, d1, t1, t2, tp, q1

MCQueueOf == j1 :> Blank @@ j2 :> q1 @@ d1 :> Blank
MCTypeOf == j1 :> t1 @@ j2 :> t2 @@ d1 :> tp
MCDays == {0, 1, 5, 7}
AgeAndSize == [entries |-> Off, age |-> 1, size |-> 1]
EntriesAndMore == [entries |-> 1, age |-> 1, size |-> 4]
MCCrons == {Registered, AgeAndSize, EntriesAndMore}
MCFilters == {[queue |-> None, type |-> t2], [queue |-> Default, type |-> None],
              [queue |-> q1, type |-> t1]}
MCSettingsOf == {"viewer", "retries"} :> {Registered}
            @@ {"cron", "admin"} :> {EntriesAndMore}
            @@ {"cron", "errors"} :> {AgeAndSize, EntriesAndMore}
            @@ {"cron", "crashes"} :> {AgeAndSize}
=============================================================================
