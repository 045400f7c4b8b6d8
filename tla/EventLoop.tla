------------------------------ MODULE EventLoop ------------------------------
(***************************************************************************)
(* What the bot's event loop promises, whatever its rules: the events Slack *)
(* delivers are handled one at a time in delivery order; handling a       *)
(* delivery posts at most one reply, never to a bot's message, and a      *)
(* posted reply may come back as one bot event; a crash loses the event    *)
(* being handled and nothing else, and the bot serves again after          *)
(* start-up. Under fairness every delivered event is eventually handled    *)
(* or lost. Slack delivers at least once: an event still waiting may be    *)
(* delivered again with its attempt count raised.                          *)
(*                                                                         *)
(* An event is a record with at least the fields post, type, bot and       *)
(* attempt.                                                                *)
(***************************************************************************)
EXTENDS Naturals, Sequences

VARIABLES
  inbox,     \* the events delivered and not yet handled, oldest first
  answered,  \* <<post, type, attempt>> of every delivery that got a reply
  ready      \* the bot has started and serves events

vars == << inbox, answered, ready >>

Key(e) == << e.post, e.type, e.attempt >>

Init ==
  /\ inbox = << >>
  /\ answered = {}
  /\ ready = FALSE

(* A redelivery of an event that is still waiting.                         *)
Redelivery(e) ==
  \E j \in DOMAIN inbox : e = [inbox[j] EXCEPT !.attempt = @ + 1]

(* Slack delivers events from people, or delivers waiting events again.    *)
Deliver ==
  /\ Len(inbox') > Len(inbox)
  /\ SubSeq(inbox', 1, Len(inbox)) = inbox
  /\ \A i \in Len(inbox) + 1 .. Len(inbox') :
        (~inbox'[i].bot /\ inbox'[i].attempt = 0) \/ Redelivery(inbox'[i])
  /\ UNCHANGED << answered, ready >>

(* Start-up ends.                                                          *)
Start ==
  /\ ~ready
  /\ ready' = TRUE
  /\ UNCHANGED << inbox, answered >>

(* The oldest event is handled without a reply.                            *)
Ignore ==
  /\ ready
  /\ inbox # << >>
  /\ inbox' = Tail(inbox)
  /\ UNCHANGED << answered, ready >>

(* The oldest event, from a person, gets its one reply; the reply may come *)
(* back as a bot event for the same post.                                  *)
Answer ==
  /\ ready
  /\ inbox # << >>
  /\ ~Head(inbox).bot
  /\ Key(Head(inbox)) \notin answered
  /\ answered' = answered \cup {Key(Head(inbox))}
  /\ \/ inbox' = Tail(inbox)
     \/ /\ Len(inbox') = Len(inbox)
        /\ SubSeq(inbox', 1, Len(inbox) - 1) = Tail(inbox)
        /\ inbox'[Len(inbox')].bot
        /\ inbox'[Len(inbox')].post = Head(inbox).post
  /\ UNCHANGED ready

(* The process dies while handling the oldest event, which is lost.        *)
Lose ==
  /\ ready
  /\ inbox # << >>
  /\ inbox' = Tail(inbox)
  /\ ready' = FALSE
  /\ UNCHANGED answered

Next == Deliver \/ Start \/ Ignore \/ Answer \/ Lose

Spec ==
  /\ Init /\ [][Next]_vars
  /\ WF_vars(Start)
  /\ WF_vars(Ignore \/ Answer \/ Lose)
=============================================================================
