----------------------- MODULE MCNotificationDelivery -----------------------
(***************************************************************************)
(* NotificationDelivery for two callers and every kind of order.           *)
(***************************************************************************)
EXTENDS NotificationDelivery

CONSTANTS c1, c2, log

MCCallers == {c1, c2}
MCChannels == {log}

MCOrders == {o \in [via : {"webhook action", "notify action", "test request"},
                    type : {"webhook", "email", "other"}, recipients : {0, 1},
                    sound : BOOLEAN] :
               /\ o.via = "webhook action" => o.type = "webhook" /\ o.recipients = 1
               /\ o.type # "email" => o.sound}

(* Bound: the second caller delivers one email of an action, which takes   *)
(* its time and does not touch the other but for the counters; the rest of *)
(* the manager, which sending does not look at, moves before they begin.   *)
OneEmail ==
  /\ ~At(c2, "idle") => /\ Order(c2) = [via |-> "notify action", type |-> "email",
                                       recipients |-> 1, sound |-> TRUE]
                         /\ c2 \notin ended
  /\ \/ manager.channels = {} /\ manager.running /\ stats.active = 0
     \/ \A c \in Callers : At(c, "idle")
=============================================================================
