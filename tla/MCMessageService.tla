-------------------------- MODULE MCMessageService --------------------------
(***************************************************************************)
(* An instance of MessageService with channels of one entry each.  Alice's *)
(* application may leave as many objectives unread as fit, Bob's objectives *)
(* are not completed.                                                      *)
(***************************************************************************)
EXTENDS MessageService, TLC

MCMaxUnread == "alice" :> 3 @@ "bob" :> 0
=============================================================================
