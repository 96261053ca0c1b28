--------------------------- MODULE FlightRecorder ---------------------------
(***************************************************************************)
(* What the flight logger promises to loop(), with no flash in sight.      *)
(*                                                                         *)
(* Up to the launch the recorder remembers the last BufLen packets. The    *)
(* launch starts a new log with them, and from then on every packet ends   *)
(* up at the end of the log, BufLen at a time, as long as there is room.   *)
(* The landing closes the log. Logger implements this (LoggerRefinement),  *)
(* and FlightComputer uses it.                                             *)
(***************************************************************************)
EXTENDS Integers, Sequences

CONSTANTS
  BufLen,    \* packets it remembers
  Packets,   \* the packets it may be offered
  Zero,      \* what it remembers before it is offered any
  Rooms      \* lengths a log may have

VARIABLES
  status,    \* "off", "ready", "saving", "flight" or "landed"
  ring,      \* the packets in RAM, the oldest first
  log,       \* the packets of the current flight that are safe
  room       \* how many there may be

recorderVars == <<status, ring, log, room>>

Init == status = "off" /\ ring = <<>> /\ log = <<>> /\ room = 0

Start ==
  /\ status = "off" /\ status' = "ready"
  /\ ring' = [k \in 1 .. BufLen |-> Zero]
  /\ log' = <<>> /\ room' \in Rooms

Remember(p) ==
  /\ status = "ready"
  /\ ring' = Append(Tail(ring), p)
  /\ UNCHANGED <<status, log, room>>

(* The old log of the section goes, the remembered packets are to be saved.*)
Launch ==
  /\ status = "ready" /\ status' = "saving"
  /\ log' = <<>>
  /\ UNCHANGED <<ring, room>>

Record(p) ==
  /\ status = "flight" /\ Len(log) < room
  /\ ring' = Append(ring, p)
  /\ status' = IF Len(ring') = BufLen THEN "saving" ELSE "flight"
  /\ UNCHANGED <<log, room>>

Ignore(p) ==
  /\ status \in {"flight", "landed"}
  /\ status = "flight" => Len(log) >= room
  /\ UNCHANGED recorderVars

Offer(p) == Remember(p) \/ Record(p) \/ Ignore(p)

(* One packet of RAM is made safe.                                         *)
Save ==
  /\ status = "saving"
  /\ log' = Append(log, Head(ring)) /\ ring' = Tail(ring)
  /\ status' = IF ring' = <<>> THEN "flight" ELSE "saving"
  /\ UNCHANGED room

Land ==
  /\ status = "flight" /\ status' = "landed"
  /\ UNCHANGED <<ring, log, room>>

PowerOff ==
  /\ status # "off" /\ status' = "off"
  /\ ring' = <<>> /\ log' = <<>> /\ room' = 0

Next ==
  \/ Start \/ Launch \/ Save \/ Land \/ PowerOff
  \/ \E p \in Packets : Offer(p)

Spec == Init /\ [][Next]_recorderVars /\ WF_recorderVars(Save)
=============================================================================
