---------------------------- MODULE FairExchange ----------------------------
(***************************************************************************)
(* What a paid retrieval promises its two parties, without statuses,       *)
(* queues, locks or messages: bytes go one way and money the other, the    *)
(* client pays only for what it holds, the provider credits only what was  *)
(* paid, and the client calls the exchange completed only when it holds    *)
(* everything, never to pay again once it has ended.  Bytes under way then *)
(* still arrive, and what was paid may still be credited.                  *)
(***************************************************************************)
EXTENDS Naturals

CONSTANTS Price, Size

VARIABLES sent, held,      \* bytes that left the provider, and arrived
          paid, credited,  \* the client's largest voucher, and what was booked of it
          end              \* how the exchange ended for the client

xvars == <<sent, held, paid, credited, end>>

Send == sent' \in (sent + 1)..Size /\ UNCHANGED <<held, paid, credited, end>>

Arrive == /\ held' \in (held + 1)..sent
          /\ UNCHANGED <<sent, paid, credited, end>>

Pay == /\ end = "open"
       /\ paid' \in (paid + 1)..(Price * held)
       /\ UNCHANGED <<sent, held, credited, end>>

Credit == /\ credited' \in (credited + 1)..paid
          /\ UNCHANGED <<sent, held, paid, end>>

Finish == /\ end = "open" /\ held = Size
          /\ end' = "completed"
          /\ UNCHANGED <<sent, held, paid, credited>>

GiveUp == /\ end = "open" /\ end' = "aborted"
          /\ UNCHANGED <<sent, held, paid, credited>>

Init == sent = 0 /\ held = 0 /\ paid = 0 /\ credited = 0 /\ end = "open"
Next == Send \/ Arrive \/ Pay \/ Credit \/ Finish \/ GiveUp
Spec == Init /\ [][Next]_xvars
=============================================================================
