------------------------- MODULE NotificationService -------------------------
(***************************************************************************)
(* notification-service.js: web clients over WebSockets, the history kept  *)
(* for new ones, and broadcasts.  Every handler runs to its end on the     *)
(* event loop; a socket delivers in order what was sent while it was open. *)
(***************************************************************************)
EXTENDS Integers, Sequences, SequencesExt

CONSTANTS
  Clients,     \* connections, numbered in their order: the order of the Map's forEach
  Channels,    \* the channels notify* send on, all of them subscribed by default
  MaxHistory,  \* 50 in the code
  MaxSent      \* bound: notifications ever sent

VARIABLES
  clients,     \* id -> [socket, array, channels] of the connections not yet closed
  history,     \* newest first
  received,    \* id -> the notifications sent to it, in order
  narrowed,    \* clients that ever subscribed to less than everything
  behind       \* clients that were ever connected behind one without an array

vars == <<clients, history, received, narrowed, behind>>

\* A notification is numbered by its order; the worker's has no channel.
None == "none"

ChannelsAssumption ==
  /\ Clients \subseteq Nat /\ None \notin Channels
  /\ MaxHistory \in Nat \ {0} /\ MaxSent \in Nat

Notifications == [id : 1 .. MaxSent, channel : Channels \cup {None}]

Newest == IF history = <<>> THEN 0 ELSE Head(history).id
Cut(h) == IF Len(h) > MaxHistory THEN SubSeq(h, 1, MaxHistory) ELSE h

\* Variant: the history is cut before the notification is added.
TrimmedFirst(n) == <<n>> \o Cut(history)
AddToHistory(n) == Cut(<<n>> \o history)

SendHistory(c) == received' = [received EXCEPT ![c] = Reverse(history)]

\* The clients a broadcast comes to after an open one whose channels are no array.
Behind(cs) ==
  {c \in DOMAIN cs : \E d \in DOMAIN cs : d < c /\ cs[d].socket = "open" /\ ~cs[d].array}

\* The connection handler: registered last, sent the history, then given all
\* channels, with no other callback in between.
Connect(c) ==
  /\ \A d \in DOMAIN clients : d < c
  /\ received[c] = <<>>
  /\ clients' = [d \in DOMAIN clients \cup {c} |->
       IF d = c THEN [socket |-> "open", array |-> TRUE, channels |-> Channels]
       ELSE clients[d]]
  /\ SendHistory(c)
  /\ behind' = behind \cup Behind(clients')
  /\ UNCHANGED <<history, narrowed>>

\* A client's `subscribe` message replaces its channels by those of an array, or
\* of a string, which has no join but an includes.
Subscribe(c, channels) ==
  /\ c \in DOMAIN clients /\ clients[c].socket = "open"
  /\ clients' = [clients EXCEPT ![c].array = TRUE, ![c].channels = channels]
  /\ narrowed' = IF channels = Channels THEN narrowed ELSE narrowed \cup {c}
  /\ UNCHANGED <<history, received, behind>>

\* Anything else, such as {} or 5, is stored before its join throws and is caught.
SubscribeMalformed(c) ==
  /\ c \in DOMAIN clients /\ clients[c].socket = "open"
  /\ clients' = [clients EXCEPT ![c].array = FALSE, ![c].channels = {}]
  /\ narrowed' = narrowed \cup {c}
  /\ behind' = behind \cup Behind(clients')
  /\ UNCHANGED <<history, received>>

\* The socket leaves OPEN some time before its close event.
Closing(c) ==
  /\ c \in DOMAIN clients /\ clients[c].socket = "open"
  /\ clients' = [clients EXCEPT ![c].socket = "closing"]
  /\ UNCHANGED <<history, received, narrowed, behind>>

Closed(c) ==
  /\ c \in DOMAIN clients /\ clients[c].socket = "closing"
  /\ clients' = [d \in DOMAIN clients \ {c} |-> clients[d]]
  /\ UNCHANGED <<history, received, narrowed, behind>>

\* `includes` is missing at an open client without an array, so the forEach throws
\* there, unless the notification has no channel and it is not called.
Throws(d, n) == clients[d].socket = "open" /\ ~clients[d].array /\ n.channel # None

\* Variant: the channel of a notification without one is looked up too.
OnlyChannels(c, n) == c \in DOMAIN clients /\ clients[c].socket = "open"
                        /\ n.channel \in clients[c].channels
Reached(c, n) ==
  /\ c \in DOMAIN clients /\ clients[c].socket = "open"
  /\ n.channel = None \/ n.channel \in clients[c].channels
  /\ ~\E d \in DOMAIN clients : d < c /\ Throws(d, n)

\* The history is written before the clients are walked, and keeps what a throw
\* withholds from the rest of them.
Broadcast(n) ==
  /\ history' = AddToHistory(n)
  /\ received' = [c \in Clients |->
       IF Reached(c, n) THEN Append(received[c], n) ELSE received[c]]
  /\ UNCHANGED <<clients, narrowed, behind>>

\* notifyBatch, notifyCertification, notifyProduct, notifyTokenization,
\* notifySystem, and a broadcast without a channel.
Notify(channel) ==
  Newest < MaxSent /\ Broadcast([id |-> Newest + 1, channel |-> channel])

Init ==
  /\ clients = [c \in {} |-> 0] /\ history = <<>>
  /\ narrowed = {} /\ behind = {}
  /\ received = [c \in Clients |-> <<>>]

Next ==
  \/ \E c \in Clients :
       \/ Connect(c) \/ SubscribeMalformed(c) \/ Closing(c) \/ Closed(c)
       \/ \E channels \in SUBSET Channels : Subscribe(c, channels)
  \/ \E channel \in Channels \cup {None} : Notify(channel)

Spec == Init /\ [][Next]_vars

-----------------------------------------------------------------------------
\* Type invariant.
TypeOK ==
  /\ DOMAIN clients \subseteq Clients /\ narrowed \subseteq Clients /\ behind \subseteq Clients
  /\ \A c \in DOMAIN clients :
       clients[c] \in [socket : {"open", "closing"}, array : BOOLEAN,
                       channels : SUBSET Channels]
  /\ history \in Seq(Notifications) /\ Len(history) <= MaxHistory
  /\ received \in [Clients -> Seq(Notifications)]

\* Over the history sent on connecting and the broadcasts after it, client c has
\* received, in order and once, every notification from the oldest of that history
\* to the newest: none falls between the two, and the newest MaxHistory are there.
UpToDate(c) ==
  LET r == received[c]
  IN  /\ \A i \in 1 .. Len(r) : r[i].id = Newest - Len(r) + i
      /\ Len(r) >= (IF Newest < MaxHistory THEN Newest ELSE MaxHistory)

\* An open client that never narrowed its channels misses nothing, whatever the
\* others connect, subscribe to and close, as long as it was never behind one that
\* stored something else than an array.
ClientsMissNothing ==
  \A c \in DOMAIN clients \ (narrowed \cup behind) :
    clients[c].socket = "open" => UpToDate(c)

\* What the comment over broadcast says (notification-service.js:99): it sends a
\* notification to all connected clients, those subscribed to its channel.  An
\* earlier client's malformed subscription makes it stop before the later ones.
BroadcastReachesAll ==
  \A c \in DOMAIN clients \ narrowed : clients[c].socket = "open" => UpToDate(c)
=============================================================================
