------------------------------ MODULE MCInbox -------------------------------
(* Instances of Inbox for TLC: one or two conversations, interchangeable    *)
(* workers.                                                                 *)
EXTENDS Inbox, TLC

OneConversation == [r \in Msgs |-> CHOOSE c \in Conversations : TRUE]

Symmetry == Permutations(Workers)

=============================================================================
