-------------------------- MODULE MCServiceMutation -------------------------
(***************************************************************************)
(* Instances of ServiceMutation for TLC: a service of two units, one of    *)
(* them used, that expires on day 1.                                       *)
(***************************************************************************)
EXTENDS ServiceMutation

CONSTANTS renewal, volume, time, bot, bot2, job, viewer

MCOperation == [o \in Orders |-> CASE o = renewal -> "RENEWAL"
                                   [] o = volume  -> "EXTRA_VOLUME"
                                   [] OTHER       -> "EXTRA_TIME"]
MCVolume == [o \in Orders |-> CASE o = renewal -> 1 [] o = volume -> 2 [] OTHER -> 0]
MCDays   == [o \in Orders |-> CASE o = volume -> 0 [] OTHER -> 1]
=============================================================================
