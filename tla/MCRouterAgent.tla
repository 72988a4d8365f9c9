---------------------------- MODULE MCRouterAgent ----------------------------
(***************************************************************************)
(* A small instance of RouterAgent for TLC: a search, a read-only tool and *)
(* one tool that asks for confirmation.                                    *)
(***************************************************************************)
EXTENDS RouterAgent
=============================================================================
