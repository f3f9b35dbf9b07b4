-------------------------- MODULE MCAdminOperation --------------------------
(***************************************************************************)
(* Instances of AdminOperation for TLC.                                    *)
(***************************************************************************)
EXTENDS AdminOperation

CONSTANTS first, second, bot, owner

MCAmount == [c \in Confirms |-> IF c = first THEN 1 ELSE 2]
MCOffered == [c \in Confirms |-> IF c = first THEN {"ADD_VOLUME"}
                                              ELSE {"ADD_TIME", "REGENERATE_LINK"}]
=============================================================================
