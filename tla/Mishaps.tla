------------------------------- MODULE Mishaps -------------------------------
(***************************************************************************)
(* What pairing can promise about ports when callers overlap, commands     *)
(* fail and Pane is killed.  The registry is only as right as the tunnels  *)
(* behind it, and three things let a tunnel outlive its booking: they are  *)
(* kept here as a history variable beside DeviceManager, phone by phone,   *)
(* so that the promises below hold of everything else.                     *)
(***************************************************************************)
EXTENDS DeviceManager

VARIABLE mishap  \* what happened to each phone that its booking may not fit

mishapVars == <<vars, mishap>>

\* "overlap": two callers were at work on the phone together.
\* "restart": Pane was killed, its registry lost.
\* "stray":   a call left its tunnel behind and gave the port back.
Mishap == {"overlap", "restart", "stray"}

MishapTypeOK == TypeOK /\ mishap \in [Serials -> SUBSET Mishap]

Crossed(s) ==
  \E t, u \in Tasks : t # u /\ task[t].serial = s /\ task[u].serial = s

\* A set-up that took a fresh port fails after its tunnel is open.
HalfWired(t) ==
  SetupFails(t) /\ task[t].fresh /\ (task[t].at = "proxy" \/ tunnel' # tunnel)

LeftWired(t) == RemoveReverse(t) /\ tunnel'[task[t].serial] # NoPort

Strays(s) == \E t \in Tasks : task[t].serial = s /\ (HalfWired(t) \/ LeftWired(t))

\* A set-up went through, or the tunnel is gone.
Settles(s) ==
  tunnel'[s] = NoPort \/ \E t \in Tasks : task[t].serial = s /\ SetHttpProxy(t)

Befalls(s) ==
     (IF Crossed(s)' THEN {"overlap"} ELSE {})
  \cup (IF Strays(s) THEN {"stray"} ELSE {})

Record ==
  mishap' = IF restarts' # restarts THEN [s \in Serials |-> {"restart"}]
            ELSE [s \in Serials |->
                    (mishap[s] \ (IF Settles(s) THEN {"stray"} ELSE {})) \cup Befalls(s)]

MishapInit == Init /\ mishap = [s \in Serials |-> {}]

MishapSpec == MishapInit /\ [][Next /\ Record]_mishapVars

-----------------------------------------------------------------------------
(***************************************************************************)
(* A wrong stamp has one of the three causes, and the phone it hits is the *)
(* one it happened to: any other phone reverses onto the port it has       *)
(* booked, which is labelled as that phone or not at all, whatever fails,  *)
(* whoever is at work on the phones beside it.  A stray tunnel is made     *)
(* good by the next set-up or teardown of the phone that goes through.     *)
(***************************************************************************)
WrongStampHasACause ==
  \A s \in Serials :
    mishap[s] = {} /\ tunnel[s] # NoPort =>
      /\ tunnel[s] = serial_to_port[s]
      /\ DeviceForPort(tunnel[s]) \in {s, NoDevice}

AtRest(s) == \A t \in Tasks : task[t].serial # s

(***************************************************************************)
(* A phone that was removed and that nobody is wiring is off Pane, even if *)
(* a sweep had it on an old list and wired it again after its removal: the *)
(* sweep brings the row back with it, so no phone is left on Pane that the *)
(* list does not show.                                                     *)
(***************************************************************************)
RemovedIsClean ==
  \A s \in Serials :
    row[s] = "removed" /\ AtRest(s) =>
      /\ s \notin Flaky => ~http_proxy[s]
      /\ mishap[s] \subseteq {"overlap"} => tunnel[s] = NoPort
      /\ mishap[s] = {} => Fresh(s)

(***************************************************************************)
(* "A pairing that failed set up no `adb reverse`, so nothing on the       *)
(* device can send traffic to that port": what the rollback of a failed    *)
(* set-up says of a phone whose port it gave back.                         *)
(***************************************************************************)
FailedPairingIsUnwired ==
  \A s \in Serials : row[s] = "error" /\ Fresh(s) => tunnel[s] = NoPort

=============================================================================
