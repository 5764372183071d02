------------------------------ MODULE Monitor ------------------------------
(***************************************************************************)
(* The web monitor: the receiver's statistics go by UDP to a listener      *)
(* thread, which merges them into a dictionary under a lock; an HTTP       *)
(* handler (one request at a time) serves the dictionary; a page polls it  *)
(* every second and says whether data is coming in.                        *)
(*                                                                         *)
(* A report is its number, and a dictionary of statistics the reports its  *)
(* fields came from: two fields are enough to see a mixed one.  The last   *)
(* field stands for the sequence numbers (the page's details), the others  *)
(* for its cards; a dictionary that no report was merged into has none.    *)
(***************************************************************************)
EXTENDS Integers, Sequences, SequencesExt

CONSTANTS
  StaleAfter,   (* seconds without an answer until the page says so        *)
  MaxStats,     (* bound: reports sent                                     *)
  MaxFetches,   (* bound: fetches under way at once                        *)
  MaxStops      (* bound: times the monitor is stopped                     *)

ASSUME MonitorAssumption ==
  /\ {StaleAfter, MaxFetches} \subseteq Nat \ {0}
  /\ {MaxStats, MaxStops} \subseteq Nat

VARIABLES
  sent,           (* reports the receiver has sent                         *)
  socket,         (* datagrams not yet received                            *)
  up, stops,      (* whether the monitor runs; how often it was stopped    *)
  stats, merged,  (* listener: the report in hand (0: none), fields done   *)
  latest_stats,
  serving, body,  (* handler: whether it has the lock, the answer so far   *)
  held,           (* whether it waits for the request of an idle client    *)
  requests,       (* fetches not yet served                                *)
  replies,        (* answers under way, on connections of their own        *)
  shown, status, staleTimer

monitor == <<socket, stats, merged, latest_stats, serving, body>>
page    == <<shown, status, staleTimer>>
vars    == <<sent, monitor, up, stops, held, requests, replies, page>>

Fields == 2
Zeros  == [f \in 1 .. Fields |-> 0]
Failed == <<>>

Init ==
  /\ socket = <<>> /\ stats = 0 /\ merged = 0 /\ latest_stats = Zeros
  /\ serving = FALSE /\ body = <<>> /\ held = FALSE
  /\ sent = 0 /\ up = TRUE /\ stops = 0
  /\ requests = 1 /\ replies = <<>>
  /\ shown = Zeros /\ status = "waiting" /\ staleTimer = 0

-----------------------------------------------------------------------------
(* Every two seconds while packets come in; loopback may lose it. *)
sendStats ==
  /\ sent < MaxStats /\ sent' = sent + 1
  /\ \/ up /\ socket' = Append(socket, sent')
     \/ UNCHANGED socket
  /\ UNCHANGED <<stats, merged, latest_stats, serving, body, up, stops, held,
                 requests, replies, page>>

(* udp_listener(): recvfrom(), then update() with the lock held. *)
HasLock == merged > 0

Receive ==
  /\ up /\ stats = 0 /\ socket # <<>>
  /\ stats' = Head(socket) /\ socket' = Tail(socket)
  /\ UNCHANGED <<merged, latest_stats, serving, body>>

MergeField ==
  /\ stats # 0 /\ ~serving
  /\ latest_stats' = [latest_stats EXCEPT ![merged + 1] = stats]
  /\ IF merged + 1 = Fields
     THEN merged' = 0 /\ stats' = 0
     ELSE merged' = merged + 1 /\ UNCHANGED stats
  /\ UNCHANGED <<socket, serving, body>>

udp_listener ==
  (Receive \/ MergeField) /\ UNCHANGED <<sent, up, stops, held, requests, replies, page>>

(* Fault: the dictionary is served without the lock. *)
ServeUnlocked ==
  /\ up /\ ~serving /\ ~held /\ requests > 0
  /\ serving' = TRUE /\ requests' = requests - 1
  /\ UNCHANGED <<body, replies>>

(* do_GET(): dumps() with the lock held, then the answer is sent. *)
Serve ==
  /\ up /\ ~serving /\ ~held /\ ~HasLock /\ requests > 0
  /\ serving' = TRUE /\ requests' = requests - 1
  /\ UNCHANGED <<body, replies>>

DumpField ==
  /\ serving
  /\ LET more == Append(body, latest_stats[Len(body) + 1])
     IN IF Len(more) = Fields
        THEN serving' = FALSE /\ body' = <<>> /\ replies' = Append(replies, more)
        ELSE body' = more /\ UNCHANGED <<serving, replies>>
  /\ UNCHANGED requests

do_GET ==
  /\ Serve \/ DumpField
  /\ UNCHANGED <<socket, stats, merged, latest_stats, sent, up, stops, held, page>>

(* One connection at a time, and no timeout: a client that connects and    *)
(* asks for nothing has the handler wait until it goes.                    *)
Hold ==
  /\ up /\ ~serving /\ ~held /\ held' = TRUE
  /\ UNCHANGED <<sent, monitor, up, stops, requests, replies, page>>

Release ==
  /\ held /\ held' = FALSE
  /\ UNCHANGED <<sent, monitor, up, stops, requests, replies, page>>

(* Ctrl+C: what was being served fails, and a new process knows nothing. *)
Stop ==
  /\ up /\ stops < MaxStops /\ stops' = stops + 1 /\ up' = FALSE
  /\ socket' = <<>> /\ stats' = 0 /\ merged' = 0 /\ latest_stats' = Zeros
  /\ serving' = FALSE /\ body' = <<>> /\ held' = FALSE
  /\ replies' = IF serving THEN Append(replies, Failed) ELSE replies
  /\ UNCHANGED <<sent, requests, page>>

StartAgain ==
  /\ ~up /\ up' = TRUE
  /\ UNCHANGED <<sent, monitor, stops, held, requests, replies, page>>

Refused ==
  /\ ~up /\ requests > 0 /\ requests' = requests - 1
  /\ replies' = Append(replies, Failed)
  /\ UNCHANGED <<sent, monitor, up, stops, held, page>>

-----------------------------------------------------------------------------
(* The page. *)

(* An answer, whatever is in it, starts the timer anew.  Its cards are     *)
(* shown, its details only if it has some.                                 *)
Loaded(reply) ==
  /\ reply # Failed
  /\ shown' = IF reply[Fields] > 0 THEN reply
              ELSE [reply EXCEPT ![Fields] = shown[Fields]]
  /\ status' = "live" /\ staleTimer' = StaleAfter

(* Fault: an error ends the timer and leaves the status. *)
FetchFailedQuietly(reply) ==
  /\ reply = Failed
  /\ staleTimer' = 0
  /\ UNCHANGED <<status, shown>>

FetchFailed(reply) ==
  /\ reply = Failed
  /\ status' = "failed"
  /\ UNCHANGED <<shown, staleTimer>>

Answer ==
  \E i \in DOMAIN replies :
    /\ replies' = RemoveAt(replies, i)
    /\ Loaded(replies[i]) \/ FetchFailed(replies[i])
    /\ UNCHANGED <<sent, monitor, up, stops, held, requests>>

(* A second: setInterval() fetches, and the timer runs. *)
Second ==
  /\ requests' = IF requests + Len(replies) < MaxFetches THEN requests + 1 ELSE requests
  /\ staleTimer' = IF staleTimer > 0 THEN staleTimer - 1 ELSE 0
  /\ status' = IF staleTimer = 1 THEN "stale" ELSE status
  /\ UNCHANGED <<sent, monitor, up, stops, held, replies, shown>>

Next ==
  \/ sendStats \/ udp_listener \/ do_GET
  \/ Hold \/ Release \/ Stop \/ StartAgain \/ Refused
  \/ Answer \/ Second

Spec == Init /\ [][Next]_vars

(* The monitor's threads and the page run; fetches end somehow, unless an  *)
(* idle client has the handler: nothing makes that one go.                 *)
FairSpec ==
  /\ Spec
  /\ WF_vars(udp_listener) /\ WF_vars(do_GET)
  /\ WF_vars(Refused) /\ WF_vars(Answer) /\ WF_vars(Second)

-----------------------------------------------------------------------------
(* The reports sent so far as dictionaries, and the one before all of them. *)
Snapshots == {[f \in 1 .. Fields |-> n] : n \in 0 .. sent}

(* What a page can show: a report, or the details of one beside the cards  *)
(* of a monitor that has heard of none.                                    *)
Pages == Snapshots \cup {[Zeros EXCEPT ![Fields] = n] : n \in 0 .. sent}

(* What is served is one report of the receiver (or none), never fields of *)
(* two, with a listener that merges while the page is served and a monitor *)
(* that is stopped in between; and the page mixes in one way only: after a *)
(* new start its cards are zero and its details those of an old report.    *)
SnapshotWhole == Range(replies) \subseteq Snapshots \cup {Failed} /\ shown \in Pages

(* Answers may come in any order and connections may fail; still, with a   *)
(* monitor that stays up and no client that holds it, the page ends up     *)
(* with the last statistics (the details only if there are any), and with  *)
(* one that stays down, or is held for good, it does not go on saying      *)
(* "live".                                                                 *)
PageFollows ==
  /\ <>[](up /\ ~held) =>
       <>[](/\ \A card \in 1 .. Fields - 1 : shown[card] = latest_stats[card]
            /\ latest_stats[Fields] > 0 => shown = latest_stats)
  /\ <>[](~up \/ held) => <>[](status # "live")

(* web_monitor.py:208 says that the page is marked as offline when there   *)
(* is no new data for 3 s: after the last report it does not stay live.    *)
SilenceShown == sent = MaxStats ~> status # "live"
-----------------------------------------------------------------------------
(* Merging and dumping take several steps each, and still the dictionary   *)
(* is one register with the newest report: while the listener merges, the  *)
(* last field is of the report before.                                     *)
Register == INSTANCE LatestReport WITH latest <- latest_stats[Fields]

ImplementsRegister == Register!RegisterSpec

-----------------------------------------------------------------------------
(* The inductive invariant behind SnapshotWhole. *)

MonitorTypes ==
  /\ sent \in Nat /\ stats \in 0 .. sent /\ merged \in 0 .. Fields - 1
  /\ socket \in Seq(0 .. sent)
  /\ latest_stats \in [1 .. Fields -> 0 .. sent]
  /\ serving \in BOOLEAN /\ body \in Seq(0 .. sent)
  /\ replies \in Seq(Snapshots \cup {Failed}) /\ shown \in Pages

(* The listener has the lock only with a report in hand and while nothing  *)
(* is served.                                                              *)
Exclusive == HasLock => stats # 0 /\ ~serving

(* The fields done are of the report in hand, the others all of one report. *)
Merging ==
  \E old \in 0 .. sent :
    \A f \in 1 .. Fields : latest_stats[f] = IF f <= merged THEN stats ELSE old

(* What has been dumped is what the dictionary still holds. *)
Dumping ==
  IF serving
  THEN Len(body) < Fields /\ \A f \in 1 .. Len(body) : body[f] = latest_stats[f]
  ELSE body = <<>>

MonitorInv == MonitorTypes /\ Exclusive /\ Merging /\ Dumping

(* What ImplementsRegister needs besides: what waits is newer than what is *)
(* in hand, and that is newer than what it replaces.                       *)
Ascending ==
  /\ stats # 0 => stats > latest_stats[Fields]
  /\ \A i \in 1 .. Len(socket) :
       /\ socket[i] > stats /\ socket[i] > latest_stats[Fields]
       /\ \A j \in 1 .. i - 1 : socket[i] > socket[j]
=============================================================================
