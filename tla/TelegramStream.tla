--------------------------- MODULE TelegramStream ---------------------------
(***************************************************************************)
(* What the receiving side of the driver promises its user: each delivery  *)
(* is one telegram the sensor sent, and no telegram is delivered twice,    *)
(* but for the telegrams of which the network has duplicated a part: they  *)
(* may come several times, and mixed up with each other.  Telegrams may be *)
(* lost and may overtake each other.                                       *)
(***************************************************************************)
EXTENDS Naturals, Sequences

CONSTANT Telegram

VARIABLES
  sent,       \* the telegrams the sensor has sent
  damaged,    \* those of which the network has duplicated a part
  delivered   \* what was handed to the user, in order: each the telegrams it
              \* is made of, and whether it is a whole one

Init ==
  /\ sent = {}
  /\ damaged = {}
  /\ delivered = <<>>

Send(t) ==
  /\ t \notin sent
  /\ sent' = sent \cup {t}
  /\ UNCHANGED <<damaged, delivered>>

Damage(t) ==
  /\ t \in sent
  /\ damaged' = damaged \cup {t}
  /\ UNCHANGED <<sent, delivered>>

Delivery(telegrams, whole) == [telegrams |-> telegrams, whole |-> whole]

Deliver(t) ==
  /\ t \in sent
  /\ t \notin damaged => \A i \in DOMAIN delivered : t \notin delivered[i].telegrams
  /\ delivered' = Append(delivered, Delivery({t}, TRUE))
  /\ UNCHANGED <<sent, damaged>>

DeliverMixture(telegrams) ==
  /\ telegrams # {} /\ telegrams \subseteq damaged
  /\ delivered' = Append(delivered, Delivery(telegrams, FALSE))
  /\ UNCHANGED <<sent, damaged>>

Next ==
  \/ \E t \in Telegram : Send(t) \/ Damage(t) \/ Deliver(t)
  \/ \E telegrams \in SUBSET Telegram : DeliverMixture(telegrams)

Spec == Init /\ [][Next]_<<sent, damaged, delivered>>
=============================================================================
