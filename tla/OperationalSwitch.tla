-------------------------- MODULE OperationalSwitch --------------------------
(***************************************************************************)
(* What scoring may rely on about channel_model_bundles: every channel has *)
(* at most one OPERATIONAL bundle, a switch replaces it in one step by a   *)
(* bundle of the channel that was never operational before, a replaced     *)
(* bundle never returns, and no channel goes back to having none.          *)
(***************************************************************************)
CONSTANTS Channels, Bundles, None,
          ChannelOf          \* [Bundles -> Channels]

VARIABLES current,           \* [Channels -> Bundles \cup {None}]
          retired            \* SUBSET Bundles

vars == <<current, retired>>

Init == /\ current = [c \in Channels |-> None]
        /\ retired = {}

Switch(c, b) == /\ ChannelOf[b] = c
                /\ b \notin retired \cup {current[c]}
                /\ retired' = retired \cup ({current[c]} \ {None})
                /\ current' = [current EXCEPT ![c] = b]

Next == \E c \in Channels, b \in Bundles : Switch(c, b)

Spec == Init /\ [][Next]_vars
=============================================================================
