----------------------------- MODULE MCChatTurn -----------------------------
(* ChatTurn on a small instance: a turn that calls a tool and then one     *)
(* that streams, so that each shape of a turn meets what the other leaves. *)
EXTENDS ChatTurn

MCFragments == <<0, 2>>
MCToolRounds == <<1, 0>>
=============================================================================
