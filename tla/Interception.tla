----------------------------- MODULE Interception -----------------------------
(* To decrypt or to tunnel: the CONNECT half of proxy_loop.rs with the peek   *)
(* at the ClientHello, the verdict drawn from a failed handshake and the set  *)
(* of hosts learned from it (passthrough.rs), beside the certificate          *)
(* authority the leaves are signed with (pane-ca) and its rotation, whose     *)
(* statements interleave with everything and may be cut short by a crash.     *)
(*                                                                            *)
(* Certificates are numbered in the order they are generated, which is the    *)
(* order of valid_from.  The acceptor of an engine run signs with the         *)
(* certificate it was started with, and a connection keeps the acceptor it    *)
(* came in by.                                                                *)
EXTENDS Naturals, FiniteSets

CONSTANTS
    Clients,            \* TLS clients on the phones
    Stack,              \* Clients -> the fingerprint of its TLS stack
    Pinned,             \* clients that accept no certificate of ours
    OnlyH2,             \* clients that offer h2 and nothing else
    Hosts, Norm(_),     \* hosts as clients spell them, and in lower case
    Seeded,             \* spellings that match a bundled app_pin pattern
    Conns,              \* bound: connections at a time
    Rotators,           \* bound: callers of ca_rotate
    MaxCa               \* bound: certificates ever generated

ASSUME PinnedAssumption == Pinned \subseteq Clients /\ OnlyH2 \subseteq Clients /\ Seeded \subseteq Hosts
ASSUME MaxCaAssumption  == MaxCa \in Nat \ {0}

VARIABLES
    alive,        \* whether the process runs
    mem,       \* CaStore.inner: the certificate in memory
    db,        \* 1..MaxCa -> "absent", "current" or "revoked" in ca_certificate
    keys,      \* certificates whose private key is in the keyring
    rot,       \* Rotators -> where the rotation stands
    boot,      \* where open_or_init stands, in a process that does not serve yet
    legacy,    \* the certificate a Pane <= 0.1.7 made (Ed25519), if the data are that old
    engineCa,    \* the certificate the running engine signs with, 0 when stopped
    learned,   \* NoMitmSet: fingerprint and host, and the certificate refused
    trusts,    \* Clients -> certificates in the store it trusts
    conn,      \* Conns -> where the connection stands
    row,       \* Conns -> state of its capture row, and why
    refused,   \* history: fingerprint and host of every alert about our certificate
    restart    \* history: what the next start should find, and what became of it on the way

iVars == <<alive, mem, db, keys, rot, boot, legacy, engineCa, learned, trusts, conn, row, refused, restart>>
caVars == <<mem, db, keys, rot, boot, legacy, restart>>
useVars == <<engineCa, learned, trusts, conn, row, refused>>
connVars == <<conn, row>>

Cas     == 1..MaxCa
NoConn  == [pc |-> "none", client |-> "none", host |-> "none", fp |-> "none", ca |-> 0]
NoRot   == [pc |-> "idle", id |-> 0, old |-> 0]
Unknown == "unknown"

Current == {c \in Cas : db[c] = "current"}
Newest  == CHOOSE c \in Current : \A d \in Current : d <= c
Taken   == {c \in Cas : db[c] # "absent"} \cup keys \cup {rot[r].id : r \in Rotators} \cup {boot.id}
NextCa  == CHOOSE c \in Cas \ Taken : \A d \in Cas \ Taken : c <= d

Fingerprints == {Stack[c] : c \in Clients} \cup {Unknown}
Verdicts     == [fp : Fingerprints, host : {Norm(h) : h \in Hosts}, ca : Cas]
Rotations    == [pc : {"old", "revoke", "insert", "swap", "reset"}, id : Cas, old : 0..MaxCa]
Boots        == [pc : {"revoke", "insert"}, id : Cas, old : 0..MaxCa]
Lapses       == {"cut", "failed", "overlap"}   \* by a crash, by an insert that failed, by another rotation
Connections  == [pc : {"peek", "decide", "handshake", "tunnel", "done"},
                 client : Clients, host : Hosts, fp : Fingerprints, ca : Cas]

InterceptionTypeOK ==
    /\ alive \in BOOLEAN /\ mem \in (IF alive THEN Cas ELSE {0}) /\ engineCa \in 0..MaxCa
    /\ db \in [Cas -> {"absent", "current", "revoked"}] /\ keys \subseteq Cas
    /\ rot \in [Rotators -> Rotations \cup {NoRot}]
    /\ learned \subseteq Verdicts
    /\ trusts \in [Clients -> SUBSET Cas]
    /\ conn \in [Conns -> Connections \cup {NoConn}]
    /\ row \in [Conns -> {"none", "in_flight", "error", "tunneled", "inner"}]
    /\ \A k \in Conns : row[k] = "none" <=> conn[k] = NoConn
    /\ ~alive => /\ engineCa = 0 /\ learned = {}
                 /\ \A r \in Rotators : rot[r] = NoRot
                 /\ \A k \in Conns : conn[k] = NoConn
    /\ boot \in Boots \cup {NoRot} /\ (alive => boot = NoRot)
    /\ legacy \subseteq Cas
    /\ restart \in [found : SUBSET Cas, lapses : SUBSET Lapses]

----------------------------------------------------------------------------
(* The certificate authority. *)

\* mutant: the key is kept once the certificate is in use
RotateKeyLate(r) ==
    /\ alive /\ rot[r].pc = "idle" /\ Cardinality(Cas \ Taken) > 1
    /\ rot' = [rot EXCEPT ![r] = [pc |-> "old", id |-> NextCa, old |-> 0]]
    /\ UNCHANGED <<alive, mem, db, keys, boot, legacy, restart, useVars>>

(* CaStore::rotate, statement by statement, then the reset of ca_rotate.      *)
RotateKey(r) ==
    /\ alive /\ rot[r].pc = "idle" /\ Cardinality(Cas \ Taken) > 1
    /\ keys' = keys \cup {NextCa}
    /\ rot' = [rot EXCEPT ![r] = [pc |-> "old", id |-> NextCa, old |-> 0]]
    /\ restart' = [restart EXCEPT !.lapses = @ \cup {l \in {"overlap"} : \E x \in Rotators : rot[x].pc # "idle"}]
    /\ UNCHANGED <<alive, mem, db, boot, legacy, useVars>>

RotateOld(r) ==
    /\ alive /\ rot[r].pc = "old"
    /\ rot' = [rot EXCEPT ![r] = [pc |-> "revoke", id |-> rot[r].id, old |-> mem]]
    /\ UNCHANGED <<alive, mem, db, keys, boot, legacy, restart, useVars>>

RotateRevoke(r) ==
    /\ alive /\ rot[r].pc = "revoke"
    /\ db' = [db EXCEPT ![rot[r].old] = "revoked"]
    /\ rot' = [rot EXCEPT ![r].pc = "insert"]
    /\ UNCHANGED <<alive, mem, keys, boot, legacy, restart, useVars>>

RotateInsert(r) ==
    /\ alive /\ rot[r].pc = "insert"
    /\ db' = [db EXCEPT ![rot[r].id] = "current"]
    /\ rot' = [rot EXCEPT ![r].pc = "swap"]
    /\ restart' = [restart EXCEPT !.lapses = @ \ {"failed"}]
    /\ UNCHANGED <<alive, mem, keys, boot, legacy, useVars>>

(* revoke_ca or insert_ca returns an error, and `?` ends the rotation there:  *)
(* what was revoked stays revoked, and the memory keeps it.                   *)
RotateFails(r) ==
    /\ alive /\ rot[r].pc \in {"revoke", "insert"}
    /\ rot' = [rot EXCEPT ![r] = NoRot]
    /\ restart' = [restart EXCEPT !.lapses = @ \cup {l \in {"failed"} : rot[r].pc = "insert"}]
    /\ UNCHANGED <<alive, mem, db, keys, boot, legacy, useVars>>

\* mutant: the memory keeps the old certificate
RotateSwapNothing(r) ==
    /\ alive /\ rot[r].pc = "swap"
    /\ rot' = [rot EXCEPT ![r].pc = "reset"]
    /\ UNCHANGED <<alive, mem, db, keys, boot, legacy, restart, useVars>>

RotateSwap(r) ==
    /\ alive /\ rot[r].pc = "swap"
    /\ mem' = rot[r].id
    /\ rot' = [rot EXCEPT ![r].pc = "reset"]
    /\ UNCHANGED <<alive, db, keys, boot, legacy, restart, useVars>>

RotateReset(r) ==
    /\ alive /\ rot[r].pc = "reset"
    /\ learned' = {}
    /\ rot' = [rot EXCEPT ![r] = NoRot]
    /\ UNCHANGED <<alive, mem, db, keys, boot, legacy, restart, engineCa, trusts, connVars, refused>>

Rotate(r) ==
    \/ RotateKey(r) \/ RotateOld(r) \/ RotateRevoke(r) \/ RotateInsert(r) \/ RotateFails(r)
    \/ RotateSwap(r) \/ RotateReset(r)

(* All that is in memory is lost with the process.                           *)
ProcessDies ==
    /\ alive
    /\ restart' = [found  |-> {mem} \cup {rot[r].id : r \in {x \in Rotators : rot[x].pc = "swap"}},
                   lapses |-> restart.lapses \cup {l \in {"cut"} : \E r \in Rotators : rot[r].pc = "insert"}]
    /\ alive' = FALSE /\ mem' = 0 /\ engineCa' = 0 /\ learned' = {}
    /\ rot' = [r \in Rotators |-> NoRot]
    /\ conn' = [k \in Conns |-> NoConn] /\ row' = [k \in Conns |-> "none"]
    /\ UNCHANGED <<db, keys, boot, legacy, trusts, refused>>

Serves(ca) ==
    /\ mem' = ca /\ alive' = TRUE /\ boot' = NoRot
    /\ restart' = [restart EXCEPT !.lapses = @ \ {"cut", "failed"}]

(* open_or_init: the newest certificate that is not revoked.                  *)
OpenCurrent ==
    /\ ~alive /\ boot = NoRot
    /\ Current # {} /\ Newest \in keys /\ Newest \notin legacy
    /\ Serves(Newest)
    /\ UNCHANGED <<db, keys, rot, legacy, useVars>>

\* mutant: a start makes up a certificate whatever the database holds
OpenAnew ==
    /\ ~alive /\ boot = NoRot /\ Cas \ Taken # {}
    /\ keys' = keys \cup {NextCa}
    /\ boot' = [pc |-> "insert", id |-> NextCa, old |-> 0]
    /\ UNCHANGED <<alive, mem, db, rot, legacy, restart, useVars>>

(* None is left: a fresh one, its key first.                                  *)
OpenFresh ==
    /\ ~alive /\ boot = NoRot
    /\ Current = {} /\ Cas \ Taken # {}
    /\ keys' = keys \cup {NextCa}
    /\ boot' = [pc |-> "insert", id |-> NextCa, old |-> 0]
    /\ UNCHANGED <<alive, mem, db, rot, legacy, restart, useVars>>

(* An Ed25519 certificate, which Android refuses to install: rotate_existing. *)
OpenLegacy ==
    /\ ~alive /\ boot = NoRot
    /\ Current # {} /\ Newest \in legacy /\ Cas \ Taken # {}
    /\ keys' = keys \cup {NextCa}
    /\ boot' = [pc |-> "revoke", id |-> NextCa, old |-> Newest]
    /\ UNCHANGED <<alive, mem, db, rot, legacy, restart, useVars>>

BootRevoke ==
    /\ boot.pc = "revoke"
    /\ db' = [db EXCEPT ![boot.old] = "revoked"]
    /\ boot' = [boot EXCEPT !.pc = "insert"]
    /\ UNCHANGED <<alive, mem, keys, rot, legacy, restart, useVars>>

BootInsert ==
    /\ boot.pc = "insert"
    /\ db' = [db EXCEPT ![boot.id] = "current"]
    /\ Serves(boot.id)
    /\ UNCHANGED <<keys, rot, legacy, useVars>>

(* A statement of the start fails, or the process is killed in it.            *)
BootEnds ==
    /\ boot # NoRot /\ Cas \ Taken # {}
    /\ boot' = NoRot
    /\ restart' = [restart EXCEPT !.lapses = @ \cup {l \in {"cut"} : boot.pc = "insert"}]
    /\ UNCHANGED <<alive, mem, db, keys, rot, legacy, useVars>>

Open == OpenCurrent \/ OpenFresh \/ OpenLegacy \/ BootRevoke \/ BootInsert \/ BootEnds

(* The user installs the certificate the app exports, the phone keeps others. *)
Install(c) ==
    /\ alive /\ c \notin Pinned /\ mem \notin trusts[c]
    /\ trusts' = [trusts EXCEPT ![c] = @ \cup {mem}]
    /\ UNCHANGED <<alive, caVars, engineCa, learned, connVars, refused>>

----------------------------------------------------------------------------
(* The engine and the set of hosts. *)

StartProxy ==
    /\ alive /\ engineCa = 0
    /\ learned' = {} /\ engineCa' = mem
    /\ UNCHANGED <<alive, caVars, trusts, connVars, refused>>

StopProxy ==
    /\ engineCa # 0
    /\ engineCa' = 0
    /\ UNCHANGED <<alive, caVars, learned, trusts, connVars, refused>>

(* A phone is paired or re-synced, or the user clears the set.                *)
Reset ==
    /\ alive /\ learned # {}
    /\ learned' = {}
    /\ UNCHANGED <<alive, caVars, engineCa, trusts, connVars, refused>>

Forget(h) ==
    /\ alive
    /\ \E l \in learned : l.host = Norm(h)
    /\ learned' = {l \in learned : l.host # Norm(h)}
    /\ UNCHANGED <<alive, caVars, engineCa, trusts, connVars, refused>>

\* mutant: what is looked up is the spelling of the client
HitsAsSpelt(fp, h) == \E l \in learned : l.fp = fp /\ l.host = h

\* mutant: a host is tunnelled for everybody once one client refused it
HitsAnyClient(fp, h) == \E l \in learned : l.host = Norm(h)

(* why_tunnel. *)
Hits(fp, h) == \E l \in learned : l.fp = fp /\ l.host = Norm(h)

(* learn_rejected: the entry is replaced, keyed by client and host.           *)
Learn(fp, h, ca) == {l \in learned : ~(l.fp = fp /\ l.host = Norm(h))} \cup {[fp |-> fp, host |-> Norm(h), ca |-> ca]}

----------------------------------------------------------------------------
(* A connection. *)

Sets(k, r, s) == conn' = [conn EXCEPT ![k] = r] /\ row' = [row EXCEPT ![k] = s]
Quiet == UNCHANGED <<alive, caVars, engineCa, learned, trusts, refused>>

(* CONNECT: the row is opened and the client told to go on, unless it had     *)
(* more to say already.                                                       *)
ClientConnects(k, c, h) ==
    /\ engineCa # 0 /\ conn[k].pc = "none"
    /\ \E pipelined \in BOOLEAN :
         Sets(k, [pc |-> IF pipelined THEN "done" ELSE "peek", client |-> c, host |-> h, fp |-> Unknown, ca |-> engineCa],
              IF pipelined THEN "error" ELSE "in_flight")
    /\ Quiet

(* A seeded host is tunnelled without a look at the client.                   *)
SeededTunnel(k) ==
    /\ conn[k].pc = "peek" /\ conn[k].host \in Seeded
    /\ Sets(k, [conn[k] EXCEPT !.pc = "tunnel"], "in_flight")
    /\ Quiet

(* The ClientHello is read, or it does not come whole within five seconds.    *)
\* mutant: what the client offers is not looked at
PeekFingerprintOnly(k) ==
    /\ conn[k].pc = "peek" /\ conn[k].host \notin Seeded
    /\ \E readable \in BOOLEAN :
          Sets(k, [conn[k] EXCEPT !.fp = IF readable THEN Stack[conn[k].client] ELSE Unknown, !.pc = "decide"], "in_flight")
    /\ Quiet

Peek(k) ==
    /\ conn[k].pc = "peek" /\ conn[k].host \notin Seeded
    /\ LET c == conn[k].client
       IN \/ Sets(k, [conn[k] EXCEPT !.fp = Stack[c], !.pc = IF c \in OnlyH2 THEN "tunnel" ELSE "decide"], "in_flight")
          \/ Sets(k, [conn[k] EXCEPT !.pc = "decide"], "in_flight")
    /\ Quiet

Decide(k) ==
    /\ conn[k].pc = "decide"
    /\ Sets(k, [conn[k] EXCEPT !.pc = IF Hits(conn[k].fp, conn[k].host) THEN "tunnel" ELSE "handshake"], "in_flight")
    /\ Quiet

Accepts(c, ca) == c \notin OnlyH2 /\ c \notin Pinned /\ ca \in trusts[c]

(* The handshake is accepted and the request inside is read (Exchange).       *)
HandshakeDone(k) ==
    /\ conn[k].pc = "handshake" /\ Accepts(conn[k].client, conn[k].ca)
    /\ Sets(k, [conn[k] EXCEPT !.pc = "done"], "inner")
    /\ Quiet

(* The client refuses the certificate with an alert that names it: learned.   *)
HandshakeRefused(k) ==
    LET c == conn[k] IN
    /\ c.pc = "handshake" /\ c.client \notin OnlyH2 /\ ~Accepts(c.client, c.ca)
    /\ learned' = Learn(c.fp, c.host, c.ca)
    /\ refused' = refused \cup {<<c.fp, Norm(c.host)>>}
    /\ Sets(k, [c EXCEPT !.pc = "done"], "error")
    /\ UNCHANGED <<alive, caVars, engineCa, trusts>>

\* mutant: any failed handshake is taken for a verdict
HandshakeDiedLearns(k) ==
    LET c == conn[k] IN
    /\ c.pc = "handshake"
    /\ learned' = Learn(c.fp, c.host, c.ca)
    /\ Sets(k, [c EXCEPT !.pc = "done"], "error")
    /\ UNCHANGED <<alive, caVars, engineCa, trusts, refused>>

(* The socket died, or client and server have no protocol in common.          *)
HandshakeDied(k) ==
    /\ conn[k].pc = "handshake"
    /\ Sets(k, [conn[k] EXCEPT !.pc = "done"], "error")
    /\ Quiet

(* tunnel: the server answers and bytes are spliced until a side hangs up.       *)
Tunnel(k) ==
    /\ conn[k].pc = "tunnel"
    /\ \E s \in {"tunneled", "error"} : Sets(k, [conn[k] EXCEPT !.pc = "done"], s)
    /\ Quiet

(* The slot is free for the next one. *)
Close(k) ==
    /\ conn[k].pc = "done"
    /\ Sets(k, NoConn, "none")
    /\ Quiet

----------------------------------------------------------------------------
(* The data are of this version, or of one that made Ed25519 certificates and *)
(* was quit.                                                                  *)
InterceptionInit ==
    /\ alive \in BOOLEAN /\ mem = (IF alive THEN 1 ELSE 0)
    /\ legacy = (IF alive THEN {} ELSE {1})
    /\ db = [c \in Cas |-> IF c = 1 THEN "current" ELSE "absent"]
    /\ keys = {1}
    /\ rot = [r \in Rotators |-> NoRot] /\ boot = NoRot
    /\ engineCa = 0 /\ learned = {}
    /\ trusts = [c \in Clients |-> {}]
    /\ conn = [k \in Conns |-> NoConn] /\ row = [k \in Conns |-> "none"]
    /\ refused = {} /\ restart = [found |-> {1}, lapses |-> {}]

Handle(k) ==
    \/ \E c \in Clients, h \in Hosts : ClientConnects(k, c, h)
    \/ SeededTunnel(k) \/ Peek(k) \/ Decide(k)
    \/ HandshakeDone(k) \/ HandshakeRefused(k) \/ HandshakeDied(k)
    \/ Tunnel(k) \/ Close(k)

Resets == StartProxy \/ Reset \/ (\E h \in Hosts : Forget(h)) \/ (\E r \in Rotators : RotateReset(r)) \/ ProcessDies

InterceptionNext ==
    \/ \E k \in Conns : Handle(k)
    \/ \E r \in Rotators : Rotate(r)
    \/ ProcessDies \/ Open
    \/ \E c \in Clients : Install(c)
    \/ StartProxy \/ StopProxy \/ Reset \/ \E h \in Hosts : Forget(h)

InterceptionSpec == InterceptionInit /\ [][InterceptionNext]_iVars

----------------------------------------------------------------------------
(* Properties. *)

(* Whatever certificate a start would pick has its key in the keyring: no     *)
(* crash in the middle of a rotation leaves "keyring missing for CA".         *)
CurrentHasKey == Current \cup (IF alive THEN {mem} ELSE {}) \subseteq keys

(* A start goes on with the certificate the phones have, or with the one a    *)
(* rotation cut short was about to hand out.  It makes up another one only if *)
(* a revocation was not followed by its insert, be it that a crash fell       *)
(* between the two or that the insert failed (rotate returns the error, and   *)
(* the process goes on with what it revoked), if rotations overlapped, or if  *)
(* what it finds is an Ed25519 certificate, which it replaces.                *)
RestartKeepsTheCa ==
    [][~alive /\ alive' =>
         \/ mem' \in restart.found
         \/ restart.lapses # {}
         \/ legacy \cap restart.found # {}]_iVars

(* Only an alert about our certificate teaches, and only about the client     *)
(* that sent it: no cable pulled, no other client on the same host            *)
(* (header of passthrough.rs).                                                *)
OnlyAlertsTeach == \A l \in learned : <<l.fp, l.host>> \in refused

(* A tunnel has a reason: the host is seeded, the client speaks h2 only, or a *)
(* client of its stack refused our certificate for this host.                 *)
TunnelHasAReason ==
    \A k \in Conns : conn[k].pc = "tunnel" =>
        \/ conn[k].host \in Seeded
        \/ conn[k].client \in OnlyH2
        \/ <<conn[k].fp, Norm(conn[k].host)>> \in refused

(* A client whose hello was read and that can only be answered in h2 never    *)
(* gets a handshake: it is bound to fail (comment at the peek).               *)
NoDoomedHandshake ==
    \A k \in Conns : conn[k].pc = "handshake" /\ conn[k].fp # Unknown => conn[k].client \notin OnlyH2

(* One sacrificial connection: clients lose connections to our certificate    *)
(* for ever only if the set is reset for ever, however they spell the host.   *)
SacrificeEnds ==
    []<><<\E k \in Conns : HandshakeRefused(k)>>_iVars => []<><<Resets>>_iVars

(* What ca_rotate promises: no verdict about another certificate than the     *)
(* current one is held against a host (comment at ca_rotate).                 *)
VerdictsAreAboutTheCurrentCa ==
    (\A r \in Rotators : rot[r].pc = "idle") => \A l \in learned : l.ca = mem

(* No host is tunneled, and none is left to a handshake, without a reason.    *)
TunnelsAreEarned == OnlyAlertsTeach /\ TunnelHasAReason /\ NoDoomedHandshake
=============================================================================
