----------------------------- MODULE Rendezvous -----------------------------
(***************************************************************************)
(* What the exchange between main and the POST task promises: a document   *)
(* at home may change; once offered it is lent, and does not change before *)
(* the borrower is done.  The borrower answers, or its answer is lost; an  *)
(* answer alone brings the document home, short of a crash and a restart.  *)
(***************************************************************************)
CONSTANT Docs

VARIABLES
    phase,   \* where the document is
    doc,     \* what it says
    down     \* the system has crashed

vars == <<phase, doc, down>>

Phases == {"home", "offered", "lent", "answered", "lost"}

TypeOK == phase \in Phases /\ doc \in Docs /\ down \in BOOLEAN

Init == phase = "home" /\ doc \in Docs /\ down = FALSE

\* The owner rewrites the document, only at home.
Edit ==
    /\ phase = "home"
    /\ doc' \in Docs
    /\ UNCHANGED phase

Offer == phase = "home" /\ phase' = "offered" /\ UNCHANGED doc

Borrow == phase = "offered" /\ phase' = "lent" /\ UNCHANGED doc

Finish == phase = "lent" /\ phase' \in {"answered", "lost"} /\ UNCHANGED doc

Resume == phase = "answered" /\ phase' = "home" /\ UNCHANGED doc

Crash == ~down /\ down' = TRUE /\ UNCHANGED <<phase, doc>>

Restart == down /\ down' = FALSE /\ phase' = "home" /\ UNCHANGED doc

Next ==
    \/ ~down /\ UNCHANGED down /\ (Edit \/ Offer \/ Borrow \/ Finish \/ Resume)
    \/ Crash
    \/ Restart

Spec == Init /\ [][Next]_vars
=============================================================================
