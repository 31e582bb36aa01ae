--------------------------- MODULE MCCronService ---------------------------
(* Instances of CronService for TLC.                                       *)
EXTENDS CronService

MCJobIds == {"once", "often", "later"}

MCSchedule ==
    [id \in MCJobIds |->
        CASE id = "once"  -> [kind |-> "at", when |-> 2]
          [] id = "often" -> [kind |-> "every", when |-> 1]
          [] id = "later" -> [kind |-> "every", when |-> 2]]

MCPreset == {"once", "often"}
=============================================================================
