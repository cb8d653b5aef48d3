-------------------------------- MODULE UserNet --------------------------------
(***************************************************************************)
(* A TCP connection through the user-mode network (src/net/usernet.cpp):   *)
(* towards the guest it speaks TCP over the frames of the network card,    *)
(* towards the world it is a socket of the host's.                         *)
(*                                                                         *)
(* It acknowledges what the guest sends before the host has taken it, and  *)
(* keeps it in to_host.  What it sends the guest it reads from the host    *)
(* only as far as the guest's window allows, and does not keep: a frame    *)
(* for the guest that finds RxRoom waiting costs the oldest, for good.     *)
(*                                                                         *)
(* The network thread handles frames, then writes and reads sockets that   *)
(* are ready, then forgets connections that are over; here its steps come  *)
(* in any order.  The guest's TCP and the host's are external.  The guest  *)
(* sends nothing again while anything is on its way, and does not probe a  *)
(* closed window.  Byte k of a stream is k.  Sequence numbers wrap.        *)
(***************************************************************************)
EXTENDS Integers, Sequences

CONSTANTS
  Window,       \* WINDOW
  OpenBy,       \* by how much a window opens before the guest is told (8192)
  Mss,
  Seqs,         \* 2^32
  Isn, Iss,     \* the guest's first sequence number, and ours
  GuestBytes, HostBytes,   \* what each side has to send
  Room,         \* the guest's receive buffer
  InRoom,       \* how many frames from the guest may wait (4096)
  RxRoom        \* RX_LIMIT

ASSUME NetAssumption ==
  /\ {Window, OpenBy, Mss, Room, InRoom, RxRoom} \subseteq Nat \ {0}
  /\ {GuestBytes, HostBytes} \subseteq Nat
  /\ Seqs \in Nat /\ 2 * Window + 2 < Seqs /\ {Isn, Iss} \subseteq 0..(Seqs - 1)

VARIABLES
  conn,    \* the connection in `tcp`, or NoConn
  in,      \* frames from the guest
  out,     \* frames for the guest, until the next input point
  rx,      \* rx_pending, and the buffers the guest has not looked at
  lossy,   \* a frame has been dropped
  host,    \* the host's end: [wrote, sent, shut, early, failed]
  guest    \* the guest's end: [state, una, nxt, wnd, got, read, finSent, finGot]

vars == <<conn, in, out, rx, lossy, host, guest>>

NoConn == [state |-> "none"]
Idle(state, read) ==
  [state |-> state, una |-> 0, nxt |-> 0, wnd |-> 0, got |-> <<>>, read |-> read,
   finSent |-> FALSE, finGot |-> FALSE]

Init ==
  /\ conn = NoConn /\ in = <<>> /\ out = <<>> /\ rx = <<>> /\ lossy = FALSE
  /\ host = [wrote |-> <<>>, sent |-> 0, shut |-> FALSE, early |-> FALSE, failed |-> FALSE]
  /\ guest = Idle("closed", 0)

Least(a, b) == IF a < b THEN a ELSE b
Seg(flags, seq, ack, wnd, data) == [flags |-> flags, seq |-> seq % Seqs, ack |-> ack % Seqs, wnd |-> wnd, data |-> data]

-------------------------------------------------------------------------------
(* The network's side.  n is [c |-> the connection, out |-> frames for the *)
(* guest, wrote |-> bytes the host has taken].                             *)
SeqAfter(a, b) == (a - b) % Seqs \in 1..((Seqs \div 2) - 1)
InFlight(c) == (c.nxt - c.una) % Seqs
WindowOf(c) == IF Len(c.toHost) >= Window THEN 0 ELSE Window - Len(c.toHost)

Emit(n, flags, data) ==
  [n EXCEPT !.out = Append(@, Seg(flags, n.c.nxt, n.c.rcv, WindowOf(n.c), data)),
            !.c.lastWnd = WindowOf(n.c)]
ResetFrame == Seg({"rst"}, 0, 0, 0, <<>>)

(* A mutant of WriteHost: the guest is not told that its window opened.    *)
WriteHostQuietly(n, k) ==
  LET left == SubSeq(n.c.toHost, k + 1, Len(n.c.toHost))
  IN  [n EXCEPT !.c.toHost = left, !.wrote = @ \o SubSeq(n.c.toHost, 1, k),
                !.c.hostShut = @ \/ (n.c.guestFin /\ left = <<>>)]

(* write_host, the host taking k bytes now.                                *)
WriteHost(n, k) ==
  LET left == SubSeq(n.c.toHost, k + 1, Len(n.c.toHost))
      m == [n EXCEPT !.c.toHost = left, !.wrote = @ \o SubSeq(n.c.toHost, 1, k),
                     !.c.hostShut = @ \/ (n.c.guestFin /\ left = <<>>)]
  IN  IF m.c.state = "Established" /\ WindowOf(m.c) >= m.c.lastWnd + OpenBy
         /\ WindowOf(m.c) > WindowOf(n.c)
      THEN Emit(m, {"ack"}, <<>>) ELSE m

(* write_host, send() failing.                                             *)
WriteFails(n) == [n EXCEPT !.c.dead = TRUE]

(* handle_tcp, of a connection that is not Connecting: the acknowledgement *)
Acked(c, s) ==
  IF "ack" \notin s.flags THEN c
  ELSE [c EXCEPT !.state = IF @ = "SynReceived" /\ s.ack = c.nxt THEN "Established" ELSE @,
                 !.una = IF SeqAfter(s.ack, @) /\ ~SeqAfter(s.ack, c.nxt) THEN s.ack ELSE @,
                 !.guestWnd = s.wnd]

(* the bytes                                                               *)
Taken(c, s) ==
  LET take == Least(Len(s.data), WindowOf(c))
  IN  IF s.data # <<>> /\ s.seq = c.rcv /\ ~c.guestFin
      THEN [c EXCEPT !.toHost = @ \o SubSeq(s.data, 1, take), !.rcv = (@ + take) % Seqs]
      ELSE c

(* A mutant of Ended: a FIN is taken wherever it stands.                   *)
EndedAnywhere(c, s) ==
  IF "fin" \in s.flags /\ ~c.guestFin
  THEN [c EXCEPT !.rcv = (@ + 1) % Seqs, !.guestFin = TRUE] ELSE c

(* and the end of the stream.                                              *)
Ended(c, s) ==
  IF "fin" \in s.flags /\ (s.seq + Len(s.data)) % Seqs = c.rcv /\ ~c.guestFin
  THEN [c EXCEPT !.rcv = (@ + 1) % Seqs, !.guestFin = TRUE] ELSE c

Opened(s) ==
  [state |-> "Connecting", una |-> Iss, nxt |-> Iss, rcv |-> (s.seq + 1) % Seqs,
   guestWnd |-> s.wnd, lastWnd |-> 0, toHost |-> <<>>,
   guestFin |-> FALSE, hostShut |-> FALSE, finSent |-> FALSE, dead |-> FALSE]

Now == [c |-> conn, out |-> out, wrote |-> host.wrote]
Becomes(n) == conn' = n.c /\ out' = n.out /\ host' = [host EXCEPT !.wrote = n.wrote]

(* The host takes some of what waits, none, or has failed.                 *)
Written(n) ==
  IF host.failed /\ n.c.toHost # <<>> THEN {WriteFails(n)}
  ELSE {WriteHost(n, k) : k \in 0..Len(n.c.toHost)}

HandleTcp ==
  /\ in # <<>> /\ in' = Tail(in)
  /\ LET s == in[1]
         c == Ended(Taken(Acked(conn, s), s), s)
     IN  CASE conn = NoConn /\ "rst" \in s.flags -> Becomes(Now)
           [] conn = NoConn /\ s.flags = {"syn"} ->
                \/ Becomes([Now EXCEPT !.c = Opened(s)])
                \/ host.failed /\ Becomes([Now EXCEPT !.out = Append(@, ResetFrame)])
           [] conn = NoConn /\ {"rst", "syn"} \cap s.flags = {} ->
                Becomes([Now EXCEPT !.out = Append(@, ResetFrame)])
           [] conn # NoConn /\ "rst" \in s.flags -> Becomes([Now EXCEPT !.c.dead = TRUE])
           [] conn # NoConn /\ "rst" \notin s.flags /\ (conn.state = "Connecting" \/ "syn" \in s.flags) ->
                Becomes(Now)
           [] OTHER ->
                IF Acked(conn, s).state # "Established" THEN Becomes([Now EXCEPT !.c = Acked(@, s)])
                ELSE \E n \in Written([Now EXCEPT !.c = c]) :
                       Becomes(IF s.data # <<>> \/ "fin" \in s.flags THEN Emit(n, {"ack"}, <<>>) ELSE n)
  /\ UNCHANGED <<rx, lossy, guest>>

(* The host accepted the connection, or refused it.                        *)
Connected ==
  /\ conn.state = "Connecting" /\ ~conn.dead
  /\ IF host.failed
     THEN Becomes([Now EXCEPT !.out = Append(@, ResetFrame), !.c.dead = TRUE])
     ELSE Becomes([Emit(Now, {"syn", "ack"}, <<>>) EXCEPT !.c.nxt = (Iss + 1) % Seqs, !.c.state = "SynReceived"])
  /\ UNCHANGED <<in, rx, lossy, guest>>

(* A mutant of WantsRead: asked whatever is in flight.                     *)
WantsReadAlways(c) == c.state = "Established" /\ ~c.finSent

WantsRead(c) ==
  c.state = "Established" /\ ~c.finSent /\ InFlight(c) < Least(c.guestWnd, Window)

(* The socket is writable.  When it fails it may also be read from yet,    *)
(* which tells the guest.                                                  *)
Writable ==
  /\ conn # NoConn /\ conn.state # "Connecting" /\ ~conn.dead /\ conn.toHost # <<>>
  /\ \E n \in Written(Now) :
       \/ n # Now /\ Becomes(n)
       \/ n.c.dead /\ WantsRead(conn) /\ Becomes(Emit(n, {"rst", "ack"}, <<>>))
  /\ UNCHANGED <<in, rx, lossy, guest>>

(* A mutant of ReadLimit: what is in flight already is not counted.        *)
ReadLimitWhole(c) == Least(c.guestWnd, Window)

ReadLimit(c) == Least(c.guestWnd, Window) - InFlight(c)

(* read_host of k bytes, in segments of at most Mss.                       *)
Segments(n, first, k) ==
  LET at(i) == (i - 1) * Mss
  IN  [n EXCEPT !.out = @ \o [i \in 1..((k + Mss - 1) \div Mss) |->
                               Seg({"ack", "psh"}, n.c.nxt + at(i), n.c.rcv, WindowOf(n.c),
                                   [j \in 1..Least(Mss, k - at(i)) |-> first + at(i) + j])],
                !.c.nxt = (@ + k) % Seqs, !.c.lastWnd = WindowOf(n.c)]

Readable ==
  /\ conn # NoConn /\ ~conn.dead /\ WantsRead(conn)
  /\ IF host.failed
     THEN Becomes([Emit(Now, {"rst", "ack"}, <<>>) EXCEPT !.c.dead = TRUE])
     ELSE \/ \E k \in 1..Least(ReadLimit(conn), HostBytes - host.sent) :
               LET n == Segments(Now, host.sent, k)
               IN  conn' = n.c /\ out' = n.out /\ host' = [host EXCEPT !.sent = @ + k]
          \/ /\ host.shut
             /\ Becomes([Emit(Now, {"fin", "ack"}, <<>>) EXCEPT !.c.nxt = (@ + 1) % Seqs, !.c.finSent = TRUE])
  /\ UNCHANGED <<in, rx, lossy, guest>>

(* A mutant of Over: the host's own end is not waited for.                 *)
OverEarly(c) == c.dead \/ (c.guestFin /\ c.una = c.nxt)

Over(c) == c.dead \/ (c.guestFin /\ c.finSent /\ c.una = c.nxt)

Sweep ==
  /\ conn # NoConn /\ Over(conn)
  /\ conn' = NoConn
  /\ UNCHANGED <<in, out, rx, lossy, host, guest>>

(* service_network: to_guest, and VirtioNet::receive of each.              *)
InputPoint ==
  /\ out # <<>> /\ out' = <<>>
  /\ LET all == rx \o out
     IN  /\ rx' = SubSeq(all, 1 + Len(all) - Least(Len(all), RxRoom), Len(all))
         /\ lossy' = (lossy \/ Len(all) > RxRoom)
  /\ UNCHANGED <<conn, in, host, guest>>

-------------------------------------------------------------------------------
(* The host: it closes its sending side when it has sent all, whether or   *)
(* not it has all of the guest's; and it may fail.                         *)
HostCloses ==
  /\ host.sent = HostBytes /\ ~host.shut
  /\ host' = [host EXCEPT !.shut = TRUE, !.early = Len(host.wrote) < GuestBytes]
  /\ UNCHANGED <<conn, in, out, rx, lossy, guest>>

HostFails ==
  /\ ~host.failed
  /\ host' = [host EXCEPT !.failed = TRUE]
  /\ UNCHANGED <<conn, in, out, rx, lossy, guest>>

-------------------------------------------------------------------------------
(* The guest.  una and nxt count bytes; the SYN stands before the first.   *)
(* from_guest drops what comes when InRoom wait.                           *)
Advertised(g) == Room - (Len(g.got) - g.read)
Ack(g) == (Iss + 1 + Len(g.got) + IF g.finGot THEN 1 ELSE 0) % Seqs
Send(g, flags, at, data) ==
  /\ guest' = g
  /\ in' = IF Len(in) < InRoom THEN Append(in, Seg(flags, Isn + 1 + at, Ack(g), Advertised(g), data)) ELSE in
  /\ lossy' = (lossy \/ Len(in) >= InRoom)

Quiet == in = <<>> /\ out = <<>> /\ rx = <<>>

GuestOpens ==
  /\ guest.state = "closed" \/ (guest.state = "synSent" /\ Quiet)
  /\ Send([guest EXCEPT !.state = "synSent"], {"syn"}, -1, <<>>)
  /\ UNCHANGED <<conn, out, rx, host>>

(* The next byte, and perhaps with it the end.                             *)
GuestSends ==
  /\ guest.state = "open" /\ ~guest.finSent
  /\ guest.nxt < GuestBytes /\ guest.nxt - guest.una < guest.wnd
  /\ \E fin \in BOOLEAN :
       /\ fin => guest.nxt + 1 = GuestBytes
       /\ Send([guest EXCEPT !.nxt = @ + 1, !.finSent = fin],
               IF fin THEN {"ack", "fin"} ELSE {"ack"}, guest.nxt, <<guest.nxt + 1>>)
  /\ UNCHANGED <<conn, out, rx, host>>

GuestEnds ==
  /\ guest.state = "open" /\ ~guest.finSent /\ guest.nxt = GuestBytes
  /\ Send([guest EXCEPT !.finSent = TRUE], {"ack", "fin"}, guest.nxt, <<>>)
  /\ UNCHANGED <<conn, out, rx, host>>

GuestSendsAgain ==
  /\ guest.state = "open" /\ Quiet
  /\ guest.una < guest.nxt + IF guest.finSent THEN 1 ELSE 0
  /\ IF guest.una < guest.nxt
     THEN Send(guest, {"ack"}, guest.una, <<guest.una + 1>>)
     ELSE Send(guest, {"ack", "fin"}, guest.nxt, <<>>)
  /\ UNCHANGED <<conn, out, rx, host>>

(* The first frame that waits: it acknowledges what it takes.              *)
GuestTakes ==
  /\ rx # <<>> /\ rx' = Tail(rx)
  /\ LET s == rx[1]
         next == s.seq = Ack(guest)
         acked == (s.ack - Isn - 1 - guest.una) % Seqs
         heard == [guest EXCEPT !.state = IF @ = "synSent" /\ "syn" \in s.flags THEN "open" ELSE @,
                                !.una = IF @ + acked <= guest.nxt + 1 THEN @ + acked ELSE @,
                                !.wnd = s.wnd]
         g == [heard EXCEPT !.got = IF next /\ ~guest.finGot /\ Len(@) - guest.read + Len(s.data) <= Room
                                    THEN @ \o s.data ELSE @,
                            !.finGot = @ \/ (next /\ "fin" \in s.flags)]
     IN  CASE guest.state \notin {"synSent", "open"} -> UNCHANGED <<guest, in, lossy>>
           [] guest.state \in {"synSent", "open"} /\ "rst" \in s.flags ->
                guest' = Idle("reset", guest.read) /\ UNCHANGED <<in, lossy>>
           [] OTHER -> IF s.data # <<>> \/ {"syn", "fin"} \cap s.flags # {}
                       THEN Send(g, {"ack"}, guest.nxt + IF guest.finSent THEN 1 ELSE 0, <<>>)
                       ELSE guest' = g /\ UNCHANGED <<in, lossy>>
  /\ UNCHANGED <<conn, out, host>>

(* Its program reads a byte; if the window was closed, the network hears.  *)
GuestReads ==
  /\ guest.read < Len(guest.got)
  /\ LET g == [guest EXCEPT !.read = @ + 1]
     IN  IF guest.state = "open" /\ Advertised(guest) = 0
         THEN Send(g, {"ack"}, guest.nxt + IF guest.finSent THEN 1 ELSE 0, <<>>)
         ELSE guest' = g /\ UNCHANGED <<in, lossy>>
  /\ UNCHANGED <<conn, out, rx, host>>

(* It gives up.                                                            *)
GuestResets ==
  /\ guest.state \in {"synSent", "open"}
  /\ Send(Idle("aborted", guest.read), {"rst"}, guest.nxt, <<>>)
  /\ UNCHANGED <<conn, out, rx, host>>

-------------------------------------------------------------------------------
Network == HandleTcp \/ Connected \/ Writable \/ Readable \/ Sweep \/ InputPoint
Guest == GuestOpens \/ GuestSends \/ GuestEnds \/ GuestSendsAgain \/ GuestTakes \/ GuestReads \/ GuestResets
Next == Network \/ Guest \/ HostCloses \/ HostFails

(* Each thread goes on while it has something to do: the network thread    *)
(* with its queue and with its sockets, the CPU thread at its input        *)
(* points.  The host takes what it is given and closes in the end; the     *)
(* guest's TCP and its program do their part, but need not send again.     *)
Fairness ==
  /\ WF_vars(HandleTcp)
  /\ WF_vars(Connected \/ Writable \/ Readable \/ Sweep)
  /\ WF_vars(InputPoint)
  /\ WF_vars(HostCloses)
  /\ WF_vars(GuestOpens \/ GuestSends \/ GuestEnds \/ GuestTakes \/ GuestReads)
Spec == Init /\ [][Next]_vars /\ Fairness

-------------------------------------------------------------------------------
UpTo(n) == [i \in 1..n |-> i]

TypeOK ==
  /\ conn.state \in {"none", "Connecting", "SynReceived", "Established"}
  /\ Len(in) <= InRoom /\ Len(rx) <= RxRoom
  /\ conn # NoConn => /\ Len(conn.toHost) <= Window /\ InFlight(conn) <= Window
                      /\ {conn.una, conn.nxt, conn.rcv} \subseteq 0..(Seqs - 1)
  /\ guest.state \in {"closed", "synSent", "open", "reset", "aborted"}

(* Both streams arrive in order, nothing twice and nothing between left    *)
(* out, and end after the last byte, whatever is lost; and the guest is    *)
(* told of no byte that is not written to the host or kept for it          *)
(* (handle_tcp, write_host).                                               *)
StreamsInOrder ==
  LET taken == host.wrote \o IF conn = NoConn THEN <<>> ELSE conn.toHost
  IN  /\ guest.got = UpTo(IF guest.finGot THEN HostBytes ELSE Len(guest.got))
      /\ taken = UpTo(Len(taken))
      /\ conn # NoConn /\ conn.guestFin => Len(taken) = GuestBytes
      /\ conn # NoConn /\ ~conn.guestFin => guest.una <= Len(taken)

(* No more is sent to the guest than it has said it has room for: it keeps *)
(* nothing to send again, and what finds no room would be lost             *)
(* (read_host).                                                            *)
NeverOverrun == host.sent <= guest.read + Room

(* A connection that is over, and was not reset, has written all that it   *)
(* acknowledged, but when the host closed its side before it had all: the  *)
(* test of the end does not look at to_host (loop).                        *)
OverWhenWritten ==
  [][conn # NoConn /\ conn' = NoConn /\ ~conn.dead /\ ~host.early => conn.toHost = <<>>]_vars

(* With no frame lost, and neither side giving up, both sides get all of  *)
(* the other's bytes and its end, and the connection is forgotten: no      *)
(* closed window stays closed, no byte is left in to_host.                 *)
Finished ==
  /\ conn = NoConn
  /\ host.wrote = UpTo(GuestBytes) \/ host.early
  /\ guest.read = HostBytes /\ guest.finGot
Served == <>(Finished \/ lossy \/ host.failed \/ guest.state = "aborted")
=================================================================================
