---------------------------- MODULE RequestProofs ----------------------------
(***************************************************************************)
(* Proofs about requests: over HTTP/2, where several share connections     *)
(* (H2Requests), and one exchange over HTTP/1 (Http1).                     *)
(*                                                                         *)
(* H2Requests, for every number of requests, of connections and of calls   *)
(* of sendRequest.  A request is heard of (Heard) because each of the four *)
(* places where it can wait is emptied only by a step that answers it or   *)
(* moves it on.  That needs Sound: a connection that is being made has its *)
(* socket, so that a block which finds it so does not wait for nothing; an *)
(* open stream is in the map that GOAWAY goes through; and no request      *)
(* holds a connection that was never made.                                 *)
(*                                                                         *)
(* Http1, for every body and however the sockets cut the bytes.  EndsOnce  *)
(* follows from OnceInv: after an error the client has no connection, or   *)
(* its parser reads no more.  RequestIntact and ResponseIntact follow from *)
(* IntactInv.  Its core is Flow, for each direction: the parser stands     *)
(* after some k bytes of the message (Stands says in which state, with     *)
(* what saved and what said), and the bytes on their way and then those in *)
(* the send buffer are the next ones, up to all that the sender has given. *)
(***************************************************************************)
EXTENDS Http1, H2Requests, SequenceTheorems, NaturalsInduction, WellFoundedInduction, TLAPS

-----------------------------------------------------------------------------
(* HTTP/2: the inductive invariant of H2Requests. *)

Answers == {"error", "closed", "complete"}
Connection == [state : {"new", "connecting", "open", "closed"}, live : BOOLEAN,
               listeners : SUBSET Requests,
               open : SUBSET AllStreams, streams : SUBSET AllStreams]

Typed ==
  /\ connMap \in Conns \cup {None}
  /\ conns \in [Conns -> Connection]
  /\ conn \in [Requests -> Conns \cup {None}]
  /\ try \in [Requests -> 0..MaxTries]
  /\ answer \in [Requests -> SUBSET Answers]
  /\ completed \in SUBSET Requests /\ lost \in SUBSET Requests
  /\ handing \in SUBSET Requests /\ posted \in SUBSET Requests

\* One connection by itself.
SoundConn(rec) ==
  /\ rec.state = "connecting" => rec.live
  /\ rec.live => rec.state # "new"
  /\ rec.state = "open" => rec.listeners = {}
  /\ rec.open \subseteq rec.streams

\* The map, the requests and the connections they hold.
SoundRefs ==
  /\ connMap # None => conns[connMap].live
  /\ \A r \in Requests : conn[r] # None => conns[conn[r]].state # "new"
  /\ handing \cap posted = {}
  /\ \A r \in handing \cup posted : try[r] > 0
  /\ \A c \in Conns : \A r \in conns[c].listeners : try[r] > 0

Sound == SoundRefs /\ \A c \in Conns : SoundConn(conns[c])

Inv == Typed /\ Sound /\ Heard

LEMMA InitInv == Init => Inv
<1> SUFFICES ASSUME Init PROVE Inv
  OBVIOUS
<1>1. New \in Connection
  BY DEF New, Connection
<1>2. Typed
  BY <1>1, ReqBounds DEF Init, Typed
<1>3. Sound
  BY DEF Init, Sound, SoundRefs, SoundConn, New
<1>4. Heard
  BY DEF Init, Heard, Pending
<1> QED BY <1>2, <1>3, <1>4 DEF Inv

-----------------------------------------------------------------------------
(* What the operators of the model do. *)

\* A step changes one connection.
LEMMA SetConnFacts ==
  ASSUME conns \in [Conns -> Connection], NEW c \in Conns, NEW rec \in Connection,
         SetConn(c, rec)
  PROVE  /\ conns' \in [Conns -> Connection] /\ conns'[c] = rec
         /\ \A d \in Conns : d # c => conns'[d] = conns[d]
BY DEF SetConn

\* Telling requests something leaves the others' answers as they were.
LEMMA TellFacts ==
  ASSUME answer \in [Requests -> SUBSET Answers], NEW rs, NEW what \in Answers, Tell(rs, what)
  PROVE  /\ answer' \in [Requests -> SUBSET Answers]
         /\ \A r \in Requests \cap rs : answer'[r] # {}
         /\ \A r \in Requests \ rs : answer'[r] = answer[r]
BY DEF Tell

\* Where a request waits.
Waits(r) ==
  \/ r \in handing \cup posted
  \/ /\ conn[r] # None /\ conns[conn[r]].live
     /\ \/ conns[conn[r]].state = "connecting" /\ r \in conns[conn[r]].listeners
        \/ conns[conn[r]].state = "open" /\ Stream(r) \in conns[conn[r]].open

LEMMA HeardIsWaiting ==
  ASSUME Typed
  PROVE  Heard <=> \A r \in Requests : Pending(r) => Waits(r)
<1>1. \A c \in Conns : c # None
  BY DEF Conns, None
<1>2. \A r \in Requests : conn[r] \in Conns \cup {None}
  BY DEF Typed
<1> QED BY <1>1, <1>2 DEF Heard, Waits

LEMMA WaitingIsHeard ==
  ASSUME Typed', \A r \in Requests : Pending(r)' => Waits(r)'
  PROVE  Heard'
<1>1. \A r \in Requests : conn'[r] \in Conns \cup {None}
  BY DEF Typed
<1> QED BY <1>1 DEF Heard, Waits

-----------------------------------------------------------------------------
(* The steps of the application. *)

LEMMA SendRequestInv ==
  ASSUME Inv, NEW r \in Requests, NEW c \in Conns, NEW fails \in BOOLEAN, SendRequest(r, c, fails)
  PROVE  Inv'
<1> DEFINE made == [New EXCEPT !.state = "connecting", !.live = TRUE]
<1>1. /\ made \in Connection /\ made.state = "connecting" /\ made.live
      /\ made.listeners = {} /\ made.open = {} /\ made.streams = {}
  BY DEF New, Connection
<1> HIDE DEF made
<1>2. Typed
  BY DEF Inv
<1>3. \/ connMap # None /\ c = connMap /\ ~fails /\ UNCHANGED <<connMap, conns>>
      \/ /\ connMap = None /\ conns[c].state = "new" /\ SetConn(c, made)
         /\ connMap' = IF fails THEN None ELSE c
  BY DEF SendRequest, GetConnection, made
<1>4. /\ conns' \in [Conns -> Connection] /\ connMap' \in Conns \cup {None}
      /\ \A d \in Conns : d # c => conns'[d] = conns[d]
      /\ conns'[c] = conns[c] \/ (conns[c].state = "new" /\ conns'[c] = made)
  <2>1. connMap' \in Conns \cup {None}
    BY <1>2, <1>3 DEF Typed
  <2>2. CASE UNCHANGED <<connMap, conns>>
    BY <1>2, <2>1, <2>2 DEF Typed
  <2>3. CASE conns[c].state = "new" /\ SetConn(c, made)
    BY <1>1, <1>2, <2>1, <2>3, SetConnFacts DEF Typed
  <2> QED BY <1>3, <2>2, <2>3
<1>5. /\ r \notin handing \cup posted /\ try[r] < MaxTries
      /\ try' = [try EXCEPT ![r] = @ + 1]
      /\ completed' = completed \ {r} /\ lost' = lost \ {r} /\ posted' = posted
      /\ conn' = [conn EXCEPT ![r] = IF fails THEN None ELSE c]
      /\ handing' = (IF fails THEN handing ELSE handing \cup {r})
      /\ answer' = [answer EXCEPT ![r] = IF fails THEN {"error"} ELSE {}]
  BY DEF SendRequest
<1>6. Typed'
  <2>1. try' \in [Requests -> 0..MaxTries]
    BY <1>2, <1>5, ReqBounds DEF Typed
  <2>2. answer' \in [Requests -> SUBSET Answers] /\ conn' \in [Requests -> Conns \cup {None}]
    BY <1>2, <1>5 DEF Typed, Answers
  <2> QED BY <1>2, <1>4, <1>5, <2>1, <2>2 DEF Typed
<1>7. \A q \in Requests : try'[q] \in Nat /\ (q = r \/ try[q] > 0 => try'[q] > 0)
  BY <1>2, <1>5 DEF Typed
<1>8. \A d \in Conns : SoundConn(conns'[d])
  <2>1. SoundConn(made)
    BY <1>1 DEF SoundConn
  <2> QED BY <1>4, <2>1 DEF Inv, Sound
<1>9. SoundRefs'
  <2>0. conns[c].state = "new" /\ SetConn(c, made) => conns'[c] = made
    BY <1>1, <1>2, SetConnFacts DEF Typed
  <2>a. connMap # None => conns[connMap].live
    BY DEF Inv, Sound, SoundRefs
  <2>1. connMap' # None => conns'[connMap'].live
    BY <1>1, <1>3, <2>0, <2>a
  <2>2. conns'[c].state # "new"
    <3>1. SoundConn(conns[c])
      BY DEF Inv, Sound
    <3> QED BY <1>1, <1>3, <2>0, <2>a, <3>1 DEF SoundConn
  <2>3. ASSUME NEW q \in Requests, conn'[q] # None
        PROVE  conns'[conn'[q]].state # "new"
    BY <1>1, <1>2, <1>4, <1>5, <2>2, <2>3 DEF Inv, Sound, SoundRefs, Typed
  <2>4. handing' \cap posted' = {} /\ \A q \in handing' \cup posted' : try'[q] > 0
    BY <1>2, <1>5, <1>7 DEF Inv, Sound, SoundRefs, Typed
  <2>5. ASSUME NEW d \in Conns, NEW q \in conns'[d].listeners
        PROVE  try'[q] > 0
    <3>1. q \in conns[d].listeners /\ q \in Requests /\ try[q] > 0
      BY <1>1, <1>2, <1>4, <2>5 DEF Inv, Sound, SoundRefs, Typed, Connection
    <3> QED BY <1>7, <3>1
  <2> QED BY <2>1, <2>3, <2>4, <2>5 DEF SoundRefs
<1>10. Heard'
  <2> SUFFICES ASSUME NEW q \in Requests, Pending(q)'
               PROVE  Waits(q)'
    BY <1>6, WaitingIsHeard
  <2>1. CASE q = r
    <3>1. ~fails
      BY <1>2, <1>5, <2>1 DEF Pending, Typed
    <3> QED BY <1>5, <2>1, <3>1 DEF Waits
  <2>2. CASE q # r
    <3>1. /\ try'[q] = try[q] /\ answer'[q] = answer[q] /\ conn'[q] = conn[q]
          /\ (q \in lost' <=> q \in lost) /\ (q \in handing => q \in handing')
      BY <1>2, <1>5, <2>2 DEF Typed
    <3>2. Waits(q)
      BY <1>2, <3>1, HeardIsWaiting DEF Inv, Pending
    <3>3. Stream(q)' = Stream(q)
      BY <3>1 DEF Stream
    <3>4. conn[q] # None /\ conns[conn[q]].state # "new" => conns'[conn[q]] = conns[conn[q]]
      BY <1>2, <1>4 DEF Typed
    <3> QED BY <1>5, <3>1, <3>2, <3>3, <3>4 DEF Waits
  <2> QED BY <2>1, <2>2
<1> QED BY <1>6, <1>8, <1>9, <1>10 DEF Inv, Sound

LEMMA PostInv ==
  ASSUME Inv, NEW r \in Requests, Post(r)
  PROVE  Inv'
<1>1. /\ r \in handing /\ handing' = handing \ {r}
      /\ UNCHANGED <<connMap, conns, conn, completed, try, answer>>
      /\ \/ posted' = posted \cup {r} /\ lost' = lost
         \/ posted' = posted /\ lost' = lost \cup {r}
  BY DEF Post
<1>2. Typed
  BY DEF Inv
<1>3. Typed'
  BY <1>1, <1>2 DEF Typed
<1>4. Sound'
  BY <1>1 DEF Inv, Sound, SoundRefs
<1>5. Heard'
  <2> SUFFICES ASSUME NEW q \in Requests, Pending(q)'
               PROVE  Waits(q)'
    BY <1>3, WaitingIsHeard
  <2>1. Pending(q)
    BY <1>1 DEF Pending
  <2>2. Waits(q)
    BY <1>2, <2>1, HeardIsWaiting DEF Inv
  <2>3. q \in handing \cup posted => q \in handing' \cup posted'
    BY <1>1 DEF Pending
  <2>4. Stream(q)' = Stream(q)
    BY <1>1 DEF Stream
  <2> QED BY <1>1, <2>2, <2>3, <2>4 DEF Waits
<1> QED BY <1>3, <1>4, <1>5 DEF Inv

LEMMA CloseInv ==
  ASSUME Inv, NEW r \in Requests, Close(r)
  PROVE  Inv'
<1> DEFINE c == conn[r]
           rec == [conns[c] EXCEPT
                     !.open = @ \ {Stream(r)},
                     !.streams = @ \ ({Stream(r)} \cap conns[c].open),
                     !.listeners = IF r \in completed THEN @ \ {r} ELSE @]
<1>1. Typed /\ SoundConn(conns[c]) /\ c \in Conns /\ conns[c] \in Connection
  BY DEF Inv, Sound, Typed, Close
<1>2. /\ rec \in Connection /\ rec.state = conns[c].state /\ rec.live = conns[c].live
      /\ rec.open = conns[c].open \ {Stream(r)}
      /\ rec.streams = conns[c].streams \ ({Stream(r)} \cap conns[c].open)
      /\ rec.listeners \subseteq conns[c].listeners
      /\ conns[c].listeners \ {r} \subseteq rec.listeners
  BY <1>1 DEF Connection
<1>3. SoundConn(rec)
  BY <1>1, <1>2 DEF SoundConn
<1>4. /\ SetConn(c, rec) /\ Tell({r}, "closed") /\ conn' = [conn EXCEPT ![r] = None]
      /\ UNCHANGED <<connMap, completed, try, handing, posted, lost>>
      /\ r \notin handing
  BY DEF Close
<1> HIDE DEF c, rec
<1>5. /\ conns' \in [Conns -> Connection] /\ conns'[c] = rec
      /\ \A d \in Conns : d # c => conns'[d] = conns[d]
  BY <1>1, <1>2, <1>4, SetConnFacts DEF Typed
<1>6. /\ answer' \in [Requests -> SUBSET Answers] /\ answer'[r] # {}
      /\ \A q \in Requests \ {r} : answer'[q] = answer[q]
  BY <1>1, <1>4, TellFacts DEF Typed, Answers
<1>7. Typed'
  BY <1>1, <1>4, <1>5, <1>6 DEF Typed
<1>8. Sound'
  <2>1. \A d \in Conns : SoundConn(conns'[d])
    BY <1>3, <1>5 DEF Inv, Sound
  <2>2. \A d \in Conns : /\ conns'[d].state = conns[d].state /\ conns'[d].live = conns[d].live
                         /\ conns'[d].listeners \subseteq conns[d].listeners
    BY <1>2, <1>5
  <2>3. \A q \in Requests : conn'[q] # None => conn'[q] = conn[q]
    BY <1>1, <1>4 DEF Typed
  <2> QED BY <1>1, <1>4, <2>1, <2>2, <2>3 DEF Inv, Sound, SoundRefs, Typed
<1>9. Heard'
  <2> SUFFICES ASSUME NEW q \in Requests, Pending(q)'
               PROVE  Waits(q)'
    BY <1>7, WaitingIsHeard
  <2>1. q # r /\ Pending(q)
    BY <1>4, <1>6 DEF Pending
  <2>2. Waits(q)
    BY <1>1, <2>1, HeardIsWaiting DEF Inv
  <2>3. conn'[q] = conn[q] /\ Stream(q)' = Stream(q) /\ Stream(q) # Stream(r)
    BY <1>1, <1>4, <2>1 DEF Stream, Typed
  <2>4. conn[q] # None => conn[q] \in Conns
    BY <1>1 DEF Typed
  <2> QED BY <1>2, <1>4, <1>5, <2>1, <2>2, <2>3, <2>4 DEF Waits
<1> QED BY <1>7, <1>8, <1>9 DEF Inv

-----------------------------------------------------------------------------
(* The steps of a connection. *)

\* What every step on the queue of c has to show of its connection and its requests.
LEMMA ConnStep ==
  ASSUME Inv, NEW c \in Conns, NEW rec \in Connection, SetConn(c, rec), SoundConn(rec),
         rec.state # "new" \/ conns[c].state = "new",
         \A r \in rec.listeners : try[r] > 0,
         connMap' = None \/ (connMap' = connMap /\ rec.live = conns[c].live),
         UNCHANGED <<conn, try, handing>>,
         posted' \subseteq posted, completed' \in SUBSET Requests, lost' \in SUBSET Requests,
         answer' \in [Requests -> SUBSET Answers]
  PROVE  Typed' /\ Sound'
<1>1. Typed
  BY DEF Inv
<1>2. /\ conns' \in [Conns -> Connection] /\ conns'[c] = rec
      /\ \A d \in Conns : d # c => conns'[d] = conns[d]
  BY <1>1, SetConnFacts DEF Typed
<1>3. Typed'
  BY <1>1, <1>2 DEF Typed
<1>4. \A d \in Conns : SoundConn(conns'[d])
  BY <1>2 DEF Inv, Sound
<1>5. SoundRefs'
  <2>1. connMap' # None => conns'[connMap'].live
    BY <1>1, <1>2 DEF Inv, Sound, SoundRefs, Typed
  <2>2. \A r \in Requests : conn'[r] # None => conns'[conn'[r]].state # "new"
    BY <1>1, <1>2 DEF Inv, Sound, SoundRefs, Typed
  <2>3. handing' \cap posted' = {} /\ \A r \in handing' \cup posted' : try'[r] > 0
    BY DEF Inv, Sound, SoundRefs
  <2>4. \A d \in Conns : \A r \in conns'[d].listeners : try'[r] > 0
    BY <1>2 DEF Inv, Sound, SoundRefs
  <2> QED BY <2>1, <2>2, <2>3, <2>4 DEF SoundRefs
<1> QED BY <1>3, <1>4, <1>5 DEF Sound

LEMMA RunBlockInv ==
  ASSUME Inv, NEW r \in Requests, NEW unsent \in {{}, {r}}, RunBlock(r, unsent)
  PROVE  Inv'
<1> DEFINE c == conn[r]
<1>1. /\ Typed /\ r \in posted /\ posted' = posted \ {r} /\ try[r] > 0 /\ r \notin handing
      /\ UNCHANGED <<connMap, conn, completed, try, handing>>
  BY DEF RunBlock, reqVars, Inv, Sound, SoundRefs
<1>2. Stream(r) \in AllStreams
  BY <1>1 DEF Stream, AllStreams, Typed
<1>3. CASE c = None /\ Tell({r}, "error") /\ UNCHANGED <<conns, lost>>
  <2>1. /\ answer' \in [Requests -> SUBSET Answers] /\ answer'[r] # {}
        /\ \A q \in Requests \ {r} : answer'[q] = answer[q]
    BY <1>1, <1>3, TellFacts DEF Typed, Answers
  <2>2. Typed'
    BY <1>1, <1>3, <2>1 DEF Typed
  <2>3. Sound'
    BY <1>1, <1>3 DEF Inv, Sound, SoundRefs
  <2>4. ASSUME NEW q \in Requests, Pending(q)' PROVE Waits(q)'
    <3>1. q # r /\ Pending(q)
      BY <1>1, <1>3, <2>1, <2>4 DEF Pending
    <3>2. Waits(q)
      BY <1>1, <3>1, HeardIsWaiting DEF Inv
    <3> QED BY <1>1, <1>3, <3>1, <3>2 DEF Waits, Stream
  <2> QED BY <2>2, <2>3, <2>4, WaitingIsHeard DEF Inv
<1>4. ASSUME c # None
      PROVE  c \in Conns /\ conns[c] \in Connection /\ SoundConn(conns[c]) /\ conns[c].state # "new"
  BY <1>1, <1>4 DEF Inv, Sound, SoundRefs, Typed
\* What either of the other cases has to show: of c, and of r itself.
<1>5. ASSUME NEW rec \in Connection, c # None, SetConn(c, rec), SoundConn(rec),
             rec.state = conns[c].state, rec.live = conns[c].live,
             conns[c].open \subseteq rec.open, conns[c].listeners \subseteq rec.listeners,
             \A q \in rec.listeners : try[q] > 0,
             lost' \in SUBSET Requests, lost \subseteq lost',
             answer' \in [Requests -> SUBSET Answers],
             \A q \in Requests \ {r} : answer'[q] = answer[q],
             \/ answer'[r] # {} \/ r \in lost'
             \/ rec.live /\ rec.state = "connecting" /\ r \in rec.listeners
             \/ rec.live /\ rec.state = "open" /\ Stream(r) \in rec.open
      PROVE  Inv'
  <2>1. Typed' /\ Sound'
    BY <1>1, <1>4, <1>5, ConnStep DEF Typed
  <2>2. conns'[c] = rec /\ \A d \in Conns : d # c => conns'[d] = conns[d]
    BY <1>1, <1>4, <1>5, SetConnFacts DEF Typed
  <2>3. ASSUME NEW q \in Requests, Pending(q)' PROVE Waits(q)'
    <3>1. conn'[q] = conn[q] /\ Stream(q)' = Stream(q) /\ c # None
      BY <1>1, <1>5 DEF Stream
    <3>2. CASE q = r
      BY <1>5, <2>2, <2>3, <3>1, <3>2 DEF Pending, Waits
    <3>3. CASE q # r
      <4>1. Pending(q)
        BY <1>1, <1>5, <2>3, <3>3 DEF Pending
      <4>2. Waits(q)
        BY <1>1, <4>1, HeardIsWaiting DEF Inv
      <4>3. conn[q] # None => conn[q] \in Conns
        BY <1>1 DEF Typed
      <4> QED BY <1>1, <1>5, <2>2, <3>1, <3>3, <4>2, <4>3 DEF Waits
    <3> QED BY <3>2, <3>3
  <2> QED BY <2>1, <2>3, WaitingIsHeard DEF Inv
<1>6. CASE /\ c # None /\ ~Ready(c)
           /\ SetConn(c, [conns[c] EXCEPT !.listeners = @ \cup {r}])
           /\ lost' = (IF conns[c].state = "closed" THEN lost \cup {r} ELSE lost)
           /\ UNCHANGED answer
  <2>1. PICK rec : rec = [conns[c] EXCEPT !.listeners = @ \cup {r}]
    OBVIOUS
  <2>2. /\ rec \in Connection /\ rec.listeners = conns[c].listeners \cup {r}
        /\ rec.state = conns[c].state /\ rec.live = conns[c].live
        /\ rec.open = conns[c].open /\ rec.streams = conns[c].streams
    BY <1>4, <1>6, <2>1 DEF Connection
  <2>3. conns[c].state \in {"connecting", "closed"}
    BY <1>4, <1>6 DEF Ready, Connection
  <2>4. SoundConn(rec)
    BY <1>4, <1>6, <2>2, <2>3 DEF SoundConn
  <2>5. \A q \in rec.listeners : try[q] > 0
    BY <1>1, <1>4, <1>6, <2>2 DEF Inv, Sound, SoundRefs
  <2>6. rec.state = "connecting" => rec.live
    BY <2>4 DEF SoundConn
  <2>7. /\ lost' \in SUBSET Requests /\ lost \subseteq lost'
        /\ r \in lost' \/ (rec.live /\ rec.state = "connecting" /\ r \in rec.listeners)
    BY <1>1, <1>6, <2>2, <2>3, <2>6 DEF Typed
  <2> QED BY <1>1, <1>5, <1>6, <2>1, <2>2, <2>4, <2>5, <2>7 DEF Typed
<1>7. CASE /\ c # None /\ Ready(c)
           /\ SetConn(c, Begin(conns[c], {r}, unsent))
           /\ Tell({r} \cap unsent, "error")
           /\ lost' = (IF conns[c].live THEN lost ELSE lost \cup {r})
  <2>1. PICK rec : rec = Begin(conns[c], {r}, unsent)
    OBVIOUS
  <2>2. /\ rec \in Connection /\ rec.listeners = conns[c].listeners
        /\ rec.state = conns[c].state /\ rec.live = conns[c].live
        /\ rec.open = conns[c].open \cup {Stream(q) : q \in {r} \ unsent}
        /\ rec.streams = conns[c].streams \cup {Stream(r)}
    BY <1>2, <1>4, <1>7, <2>1 DEF Connection, Begin
  <2>3. SoundConn(rec)
    BY <1>4, <1>7, <2>2 DEF SoundConn
  <2>4. \A q \in rec.listeners : try[q] > 0
    BY <1>4, <1>7, <2>2 DEF Inv, Sound, SoundRefs
  <2>5. /\ answer' \in [Requests -> SUBSET Answers]
        /\ \A q \in Requests \cap ({r} \cap unsent) : answer'[q] # {}
        /\ \A q \in Requests \ ({r} \cap unsent) : answer'[q] = answer[q]
    BY <1>1, <1>7, TellFacts DEF Typed, Answers
  <2>6. unsent # {} => answer'[r] # {}
    BY <2>5
  <2>7. unsent = {} => Stream(r) \in rec.open
    BY <2>2
  <2>8. lost' \in SUBSET Requests /\ lost \subseteq lost' /\ (r \in lost' \/ rec.live)
    BY <1>1, <1>7, <2>2 DEF Typed
  <2>9. rec.state = "open"
    BY <1>7, <2>2 DEF Ready
  <2>10. \A q \in Requests \ {r} : answer'[q] = answer[q]
    BY <2>5
  <2> QED BY <1>5, <1>7, <2>1, <2>2, <2>3, <2>4, <2>5, <2>6, <2>7, <2>8, <2>9, <2>10, SMTT(60)
<1> QED BY <1>3, <1>6, <1>7 DEF RunBlock

\* A step of c by which nobody new waits: of those that waited for c it answers or
\* gives up all it does not keep.
LEMMA ConnStepInv ==
  ASSUME Inv, NEW c \in Conns, NEW rec \in Connection, SetConn(c, rec), SoundConn(rec),
         rec.state # "new",
         \A r \in rec.listeners : try[r] > 0,
         connMap' = None \/ (connMap' = connMap /\ rec.live = conns[c].live),
         UNCHANGED <<conn, try, handing, posted>>,
         completed' \in SUBSET Requests, lost' \in SUBSET Requests, lost \subseteq lost',
         answer' \in [Requests -> SUBSET Answers],
         \A r \in Requests : answer'[r] = {} => answer[r] = {},
         \A r \in Requests :
            /\ conn[r] = c /\ conns[c].live
            /\ \/ conns[c].state = "connecting" /\ r \in conns[c].listeners
               \/ conns[c].state = "open" /\ Stream(r) \in conns[c].open
            => \/ answer'[r] # {} \/ r \in lost'
               \/ rec.live /\ rec.state = "open" /\ Stream(r) \in rec.open
  PROVE  Inv'
<1>1. Typed
  BY DEF Inv
<1>2. Typed' /\ Sound'
  BY ConnStep
<1>3. conns'[c] = rec /\ \A d \in Conns : d # c => conns'[d] = conns[d]
  BY <1>1, SetConnFacts DEF Typed
<1>4. ASSUME NEW r \in Requests, Pending(r)' PROVE Waits(r)'
  <2>1. answer'[r] = {} /\ r \notin lost' /\ try'[r] > 0
    BY <1>4 DEF Pending
  <2>2. Pending(r)
    BY <2>1 DEF Pending
  <2>3. Waits(r)
    BY <1>1, <2>2, HeardIsWaiting DEF Inv
  <2>4. Stream(r)' = Stream(r)
    BY DEF Stream
  <2>5. CASE r \in handing \cup posted
    BY <2>5 DEF Waits
  <2>6. CASE r \notin handing \cup posted /\ conn[r] = c
    <3>1. c # None
      BY <2>3, <2>6 DEF Waits
    <3> QED BY <1>3, <2>1, <2>3, <2>4, <2>6, <3>1 DEF Waits
  <2>7. CASE r \notin handing \cup posted /\ conn[r] # c
    <3>1. conn[r] # None => conn[r] \in Conns
      BY <1>1 DEF Typed
    <3> QED BY <1>3, <2>3, <2>4, <2>7, <3>1 DEF Waits
  <2> QED BY <2>5, <2>6, <2>7
<1> QED BY <1>2, <1>4, WaitingIsHeard DEF Inv

\* What is known of a connection before a step.
LEMMA ConnFacts ==
  ASSUME Inv, NEW c \in Conns
  PROVE  /\ Typed /\ SoundConn(conns[c]) /\ conns[c] \in Connection
         /\ \A r \in conns[c].listeners : r \in Requests /\ try[r] > 0
         /\ completed \in SUBSET Requests /\ lost \in SUBSET Requests
         /\ answer \in [Requests -> SUBSET Answers]
         /\ \A s \in AllStreams : s[1] \in Requests
BY DEF Inv, Sound, SoundRefs, Typed, Connection, AllStreams

LEMMA OpensInv ==
  ASSUME Inv, NEW c \in Conns, NEW unsent \in SUBSET Requests, Opens(c, unsent)
  PROVE  Inv'
<1>1. /\ Typed /\ SoundConn(conns[c]) /\ conns[c] \in Connection
      /\ \A r \in conns[c].listeners : r \in Requests /\ try[r] > 0
  BY ConnFacts
<1>2. PICK rec : rec = [Begin(conns[c], Senders(c), unsent) EXCEPT !.state = "open", !.listeners = {}]
  OBVIOUS
<1>3. /\ conns[c].live /\ conns[c].state = "connecting" /\ unsent \subseteq Senders(c)
      /\ SetConn(c, rec) /\ lost' = lost \cup unsent
      /\ UNCHANGED <<connMap, conn, completed, try, handing, posted, answer>>
  BY <1>2 DEF Opens, reqVars
<1>4. \A r \in Senders(c) : r \in Requests /\ Stream(r) \in AllStreams
  BY <1>1 DEF Senders, Stream, AllStreams, Typed
<1>5. /\ rec.state = "open" /\ rec.live = conns[c].live /\ rec.listeners = {}
      /\ rec.open = conns[c].open \cup {Stream(r) : r \in Senders(c) \ unsent}
      /\ rec.streams = conns[c].streams \cup {Stream(r) : r \in Senders(c)}
      /\ rec \in Connection
  <2>1. PICK opened, mapped : /\ opened = {Stream(r) : r \in Senders(c) \ unsent}
                              /\ mapped = {Stream(r) : r \in Senders(c)}
    OBVIOUS
  <2>2. opened \subseteq AllStreams /\ mapped \subseteq AllStreams /\ opened \subseteq mapped
    BY <1>4, <2>1
  <2>3. rec = [conns[c] EXCEPT !.open = @ \cup opened, !.streams = @ \cup mapped,
                               !.state = "open", !.listeners = {}]
    BY <1>1, <1>2, <2>1 DEF Begin, Connection
  <2> QED BY <1>1, <2>1, <2>2, <2>3 DEF Connection
<1>6. SoundConn(rec)
  BY <1>1, <1>3, <1>5 DEF SoundConn
<1>7. lost' \in SUBSET Requests /\ lost \subseteq lost'
  BY <1>1, <1>3, <1>4 DEF Typed
<1>8. ASSUME NEW r \in Requests, conn[r] = c, r \in conns[c].listeners, r \notin lost'
      PROVE  Stream(r) \in rec.open
  <2>1. r \in Senders(c) \ unsent
    BY <1>3, <1>8 DEF Senders, Conns, None
  <2> QED BY <1>5, <2>1
<1> QED BY <1>1, <1>3, <1>5, <1>6, <1>7, <1>8, ConnStepInv DEF Typed

LEMMA ConnectFailsInv ==
  ASSUME Inv, NEW c \in Conns, ConnectFails(c)
  PROVE  Inv'
<1>1. PICK rec : rec = [conns[c] EXCEPT !.state = "closed", !.live = FALSE, !.listeners = {}]
  OBVIOUS
<1>2. /\ conns[c].state = "connecting" /\ SetConn(c, rec) /\ Tell(conns[c].listeners, "error")
      /\ connMap' = None /\ UNCHANGED <<conn, completed, try, handing, posted, lost>>
  BY <1>1 DEF ConnectFails, RemoveSelf, reqVars
<1>3. /\ rec \in Connection /\ rec.state = "closed" /\ rec.listeners = {}
      /\ rec.open = conns[c].open /\ rec.streams = conns[c].streams /\ ~rec.live
  BY <1>1, ConnFacts DEF Connection
<1>4. SoundConn(rec)
  BY <1>3, ConnFacts DEF SoundConn
<1>5. /\ answer' \in [Requests -> SUBSET Answers]
      /\ \A r \in Requests \cap conns[c].listeners : answer'[r] # {}
      /\ \A r \in Requests \ conns[c].listeners : answer'[r] = answer[r]
  BY <1>2, ConnFacts, TellFacts DEF Answers
<1>6. \A r \in Requests : answer'[r] = {} => answer[r] = {}
  BY <1>5
<1>7. completed' \in SUBSET Requests /\ lost' \in SUBSET Requests /\ lost \subseteq lost'
  BY <1>2, ConnFacts
<1> QED BY <1>2, <1>3, <1>4, <1>5, <1>6, <1>7, ConnStepInv

\* onError and connectionError: the history variable takes those that wait.
LEMMA WaitingFacts ==
  ASSUME Inv, NEW c \in Conns
  PROVE  /\ Waiting(c) \subseteq Requests
         /\ \A r \in Requests : r \in conns[c].listeners \/ Stream(r) \in conns[c].open
              => r \in Waiting(c)
<1>1. conns[c] \in Connection /\ \A s \in AllStreams : s[1] \in Requests
  BY ConnFacts
<1>2. \A r \in Requests : Stream(r)[1] = r
  BY DEF Stream
<1> QED BY <1>1, <1>2 DEF Waiting, Owners, Connection

LEMMA StopsInv ==
  ASSUME Inv, NEW c \in Conns, PeerLeaves(c) \/ ConnectionError(c)
  PROVE  Inv'
<1>1. PICK rec \in {[conns[c] EXCEPT !.state = "closed", !.live = FALSE],
                    [conns[c] EXCEPT !.state = "closed"]} :
        /\ SetConn(c, rec)
        /\ connMap' = None \/ (connMap' = connMap /\ rec.live = conns[c].live)
  BY ConnFacts DEF PeerLeaves, ConnectionError, RemoveSelf, Connection
<1>2. /\ lost' = lost \cup Waiting(c)
      /\ UNCHANGED <<conn, completed, try, handing, posted, answer>>
  BY DEF PeerLeaves, ConnectionError, reqVars
<1>3. /\ rec \in Connection /\ rec.state = "closed" /\ rec.listeners = conns[c].listeners
      /\ rec.open = conns[c].open /\ rec.streams = conns[c].streams
  BY <1>1, ConnFacts DEF Connection
<1>4. SoundConn(rec)
  BY <1>3, ConnFacts DEF SoundConn
<1>5. /\ lost' \in SUBSET Requests /\ lost \subseteq lost' /\ completed' \in SUBSET Requests
      /\ answer' \in [Requests -> SUBSET Answers]
  BY <1>2, ConnFacts, WaitingFacts
<1>6. \A r \in Requests : r \in conns[c].listeners \/ Stream(r) \in conns[c].open => r \in lost'
  BY <1>2, WaitingFacts
<1>7. \A r \in rec.listeners : try[r] > 0
  BY <1>3, ConnFacts
<1> QED BY <1>1, <1>2, <1>3, <1>4, <1>5, <1>6, <1>7, ConnStepInv

\* GOAWAY tells the owners of all streams, of which the open ones are some.
LEMMA GoawayInv ==
  ASSUME Inv, NEW c \in Conns, Goaway(c)
  PROVE  Inv'
<1>1. PICK rec : rec = [conns[c] EXCEPT !.live = FALSE, !.open = {}, !.streams = {}]
  OBVIOUS
<1>2. /\ conns[c].state = "open" /\ SetConn(c, rec) /\ Tell(Owners(conns[c].streams), "error")
      /\ connMap' = None /\ UNCHANGED <<conn, completed, try, handing, posted, lost>>
  BY <1>1 DEF Goaway, RemoveSelf, ToldByGoaway, reqVars
<1>3. /\ rec \in Connection /\ rec.state = "open" /\ rec.listeners = {} /\ rec.open = {}
      /\ rec.streams = {}
  BY <1>1, <1>2, ConnFacts DEF Connection, SoundConn
<1>4. SoundConn(rec)
  BY <1>3 DEF SoundConn
<1>5. /\ answer' \in [Requests -> SUBSET Answers]
      /\ \A r \in Requests \cap Owners(conns[c].streams) : answer'[r] # {}
      /\ \A r \in Requests \ Owners(conns[c].streams) : answer'[r] = answer[r]
  BY <1>2, ConnFacts, TellFacts DEF Answers
<1>6. \A r \in Requests : answer'[r] = {} => answer[r] = {}
  BY <1>5
<1>7. ASSUME NEW r \in Requests, Stream(r) \in conns[c].open
      PROVE  answer'[r] # {}
  <2>1. Stream(r) \in conns[c].streams /\ Stream(r)[1] = r
    BY <1>7, ConnFacts DEF SoundConn, Stream
  <2>2. r \in Owners(conns[c].streams)
    BY <2>1 DEF Owners
  <2> QED BY <1>5, <2>2
<1>8. completed' \in SUBSET Requests /\ lost' \in SUBSET Requests /\ lost \subseteq lost'
  BY <1>2, ConnFacts
<1> QED BY <1>2, <1>3, <1>4, <1>5, <1>6, <1>7, <1>8, ConnStepInv

LEMMA EndsInv ==
  ASSUME Inv, NEW c \in Conns, NEW s \in AllStreams, NEW what \in {"complete", "error"},
         Ends(c, s, what)
  PROVE  Inv'
<1>1. PICK rec : rec = [conns[c] EXCEPT !.open = @ \ {s}]
  OBVIOUS
<1>2. /\ conns[c].state = "open" /\ SetConn(c, rec) /\ Tell({s[1]}, what)
      /\ UNCHANGED <<connMap, conn, try, handing, posted, lost>>
      /\ completed' \in {completed, completed \cup {s[1]}}
  BY <1>1 DEF Ends
<1>3. /\ rec \in Connection /\ rec.state = "open" /\ rec.listeners = {}
      /\ rec.open = conns[c].open \ {s} /\ rec.streams = conns[c].streams
      /\ rec.live = conns[c].live
  BY <1>1, <1>2, ConnFacts DEF Connection, SoundConn
<1>4. SoundConn(rec)
  BY <1>3, ConnFacts DEF SoundConn
<1>5. /\ answer' \in [Requests -> SUBSET Answers]
      /\ \A r \in Requests \cap {s[1]} : answer'[r] # {}
      /\ \A r \in Requests \ {s[1]} : answer'[r] = answer[r]
  BY <1>2, ConnFacts, TellFacts DEF Answers
<1>6. \A r \in Requests : answer'[r] = {} => answer[r] = {}
  BY <1>5
<1>7. ASSUME NEW r \in Requests, Stream(r) \in conns[c].open, answer'[r] = {}
      PROVE  Stream(r) \in rec.open
  <2>1. Stream(r)[1] = r
    BY DEF Stream
  <2>2. Stream(r) # s
    BY <1>5, <1>7, <2>1
  <2> QED BY <1>3, <1>7, <2>2
<1>8. completed' \in SUBSET Requests /\ lost' \in SUBSET Requests /\ lost \subseteq lost'
  BY <1>2, ConnFacts
<1> QED BY <1>2, <1>3, <1>4, <1>5, <1>6, <1>7, <1>8, ConnStepInv

LEMMA EndsUntoldInv ==
  ASSUME Inv, NEW c \in Conns, NEW s \in AllStreams, EndsUntold(c, s)
  PROVE  Inv'
<1>1. PICK rec : rec = [conns[c] EXCEPT !.open = @ \ {s}]
  OBVIOUS
<1>2. /\ conns[c].state = "open" /\ SetConn(c, rec) /\ lost' = lost \cup {s[1]}
      /\ UNCHANGED <<connMap, conn, completed, try, handing, posted, answer>>
  BY <1>1 DEF EndsUntold, reqVars
<1>3. /\ rec \in Connection /\ rec.state = "open" /\ rec.listeners = {}
      /\ rec.open = conns[c].open \ {s} /\ rec.streams = conns[c].streams
      /\ rec.live = conns[c].live
  BY <1>1, <1>2, ConnFacts DEF Connection, SoundConn
<1>4. SoundConn(rec)
  BY <1>3, ConnFacts DEF SoundConn
<1>5. /\ lost' \in SUBSET Requests /\ lost \subseteq lost' /\ completed' \in SUBSET Requests
      /\ answer' \in [Requests -> SUBSET Answers]
  BY <1>2, ConnFacts
<1>6. ASSUME NEW r \in Requests, Stream(r) \in conns[c].open, r \notin lost'
      PROVE  Stream(r) \in rec.open
  <2>1. Stream(r)[1] = r
    BY DEF Stream
  <2>2. Stream(r) # s
    BY <1>2, <1>6, <2>1
  <2> QED BY <1>3, <1>6, <2>2
<1> QED BY <1>2, <1>3, <1>4, <1>5, <1>6, ConnStepInv

LEMMA StepInv == Inv /\ [Next]_vars => Inv'
<1> SUFFICES ASSUME Inv, [Next]_vars PROVE Inv'
  OBVIOUS
<1>1. ASSUME NEW r \in Requests, App(r) \/ Post(r) \/ \E unsent \in {{}, {r}} : RunBlock(r, unsent)
      PROVE  Inv'
  BY <1>1, SendRequestInv, CloseInv, PostInv, RunBlockInv DEF App
<1>2. ASSUME NEW c \in Conns, ConnOpens(c) \/ ConnEnds(c)
      PROVE  Inv'
  BY <1>2, OpensInv, ConnectFailsInv, StopsInv, GoawayInv DEF ConnOpens, ConnEnds
<1>3. ASSUME NEW c \in Conns, NEW s \in AllStreams, StreamEnds(c, s)
      PROVE  Inv'
  BY <1>3, EndsInv, EndsUntoldInv DEF StreamEnds
<1>4. CASE UNCHANGED vars
  BY <1>4 DEF vars, Inv, Typed, Sound, SoundRefs, Heard, Pending, Stream
<1> QED BY <1>1, <1>2, <1>3, <1>4 DEF Next

-----------------------------------------------------------------------------
(* The theorems. *)

\* The inductive invariant holds of every reachable state.
THEOREM Invariance == Spec => []Inv
BY InitInv, StepInv, PTL DEF Spec

\* The manager's map leads to a connection with a socket, listeners wait only before
\* a connection is open, and what is open is in the map of streams.
THEOREM TypeCorrect == Spec => []TypeOK
<1>1. Inv => TypeOK
  BY DEF Inv, Typed, Sound, SoundRefs, SoundConn, Connection, TypeOK
<1> QED BY <1>1, Invariance, PTL

\* A request that was neither answered nor closed is somewhere from where an answer can
\* still come, however sendRequest, close, the queue and the end of its connection
\* follow each other.
THEOREM EveryRequestIsHeard == Spec => []Heard
<1>1. Inv => Heard
  BY DEF Inv
<1> QED BY <1>1, Invariance, PTL
-----------------------------------------------------------------------------
(* HTTP/1: natural numbers and sequences. *)

\* A set of natural numbers has a least member.
LEMMA LeastNatural ==
  ASSUME NEW S \in SUBSET Nat, S # {}
  PROVE  \E m \in S : \A k \in S : ~(k < m)
<1>1. PICK m \in S : \A k \in S : <<k, m>> \notin OpToRel(<, Nat)
  BY NatLessThanWellFounded, WFMin, Zenon
<1> QED
  BY <1>1 DEF OpToRel

\* A set of 0..L with 0, and with i also i + 1, is all of 0..L.
LEMMA Upward ==
  ASSUME NEW L \in Nat, NEW S \in SUBSET (0..L), 0 \in S,
         \A i \in 0..L : i < L /\ i \in S => i + 1 \in S
  PROVE  S = 0..L
<1>1. SUFFICES ASSUME NEW x \in 0..L, x \notin S PROVE FALSE
  OBVIOUS
<1>2. PICK m \in {j \in 0..L : j \notin S} : \A k \in {j \in 0..L : j \notin S} : ~(k < m)
  <2>1. x \in {j \in 0..L : j \notin S} /\ {j \in 0..L : j \notin S} \in SUBSET Nat
    BY <1>1
  <2> QED
    BY <2>1, LeastNatural
<1>3. m # 0 /\ m \in Nat /\ m <= L
  BY <1>2
<1>4. m - 1 \in 0..L /\ m - 1 < L /\ (m - 1) + 1 = m /\ m - 1 < m
  BY <1>3
<1>5. m - 1 \in S
  BY <1>2, <1>4
<1> QED
  BY <1>2, <1>4, <1>5

\* What is left of a sequence without its first n members, and these.
LEMMA DropFacts ==
  ASSUME NEW S, NEW s \in Seq(S), NEW n \in Nat
  PROVE  /\ Drop(s, n) \in Seq(S) /\ Len(s) \in Nat
         /\ Len(Drop(s, n)) = IF n <= Len(s) THEN Len(s) - n ELSE 0
         /\ \A i \in 1..(Len(s) - n) : Drop(s, n)[i] = s[n + i]
<1>1. Len(s) \in Nat /\ \A i \in 1..Len(s) : s[i] \in S
  BY LenProperties, ElementOfSeq
<1>2. n + 1 \in Int /\ Len(s) \in Int /\ \A i \in (n + 1)..Len(s) : s[i] \in S
  BY <1>1
<1>3. /\ SubSeq(s, n + 1, Len(s)) \in Seq(S)
      /\ Len(SubSeq(s, n + 1, Len(s))) = IF n + 1 <= Len(s) THEN Len(s) - (n + 1) + 1 ELSE 0
      /\ \A i \in 1..(Len(s) - (n + 1) + 1) : SubSeq(s, n + 1, Len(s))[i] = s[(n + 1) + i - 1]
  BY <1>2, SubSeqProperties
<1>4. \A i \in 1..(Len(s) - n) : i \in 1..(Len(s) - (n + 1) + 1) /\ (n + 1) + i - 1 = n + i
  BY <1>1
<1> QED
  BY <1>1, <1>3, <1>4 DEF Drop

LEMMA TakeFacts ==
  ASSUME NEW S, NEW s \in Seq(S), NEW n \in Int, n <= Len(s)
  PROVE  /\ SubSeq(s, 1, n) \in Seq(S) /\ Len(s) \in Nat
         /\ Len(SubSeq(s, 1, n)) = IF 0 <= n THEN n ELSE 0
         /\ \A i \in 1..n : SubSeq(s, 1, n)[i] = s[i]
<1>1. Len(s) \in Nat /\ \A i \in 1..Len(s) : s[i] \in S
  BY LenProperties, ElementOfSeq
<1>2. 1 \in Int /\ \A i \in 1..n : s[i] \in S
  BY <1>1
<1>3. /\ SubSeq(s, 1, n) \in Seq(S)
      /\ Len(SubSeq(s, 1, n)) = IF 1 <= n THEN n - 1 + 1 ELSE 0
      /\ \A i \in 1..(n - 1 + 1) : SubSeq(s, 1, n)[i] = s[1 + i - 1]
  BY <1>2, SubSeqProperties
<1> QED
  BY <1>1, <1>3

-----------------------------------------------------------------------------
(* The types of the parser.                                                *)

Token == Data \cup {"request", "200", "204", "length", "chunked", "rest", "CR", "LF",
                    "size0", "size1", "size2"}
Event == Token \cup {"header", "complete", "error"}
Stopped == {"done", "error", "overrun"}

Parser == [readState : {"line", "head", "body"} \cup Stopped,
           chunkState : {"size", "data", "data_cr", "data_lf", "trailer"},
           chunkSize : Nat, savedString : Seq(Token), totalBytesRead : Nat,
           start : Token \cup {"none"}, headers : SUBSET Token, events : Seq(Event)]
Loop == [parser : Parser, data : Seq(Token)]

\* The marks are no bytes.
LEMMA Marks == "header" \notin Token /\ "complete" \notin Token /\ "error" \notin Token
BY Http1Bounds DEF Token

LEMMA IdleType == Idle \in Parser
<1>1. <<>> \in Seq(Token) /\ <<>> \in Seq(Event)
  BY EmptySeq
<1> QED
  BY <1>1 DEF Idle, Parser

\* getLine takes a line of the input, and one byte more at most.
LEMMA GetLineFacts ==
  ASSUME NEW d \in Seq(Token), GetLine(d).found
  PROVE  \E i \in 1..Len(d) :
           /\ d[i] = "LF" /\ \A j \in 1..(i - 1) : d[j] # "LF"
           /\ GetLine(d) = [found |-> TRUE,
                            line  |-> SubSeq(d, 1, IF i > 1 /\ d[i - 1] = "CR" THEN i - 2 ELSE i - 1),
                            used  |-> IF i > 1 /\ d[i - 1] = "CR" THEN i ELSE i + 1]
<1> DEFINE A == {k \in 1..Len(d) : d[k] = "LF"}
           Least(k) == d[k] = "LF" /\ \A j \in 1..(k - 1) : d[j] # "LF"
           i == CHOOSE k \in 1..Len(d) : Least(k)
<1>1. "LF" \in {d[k] : k \in 1..Len(d)}
  BY Zenon DEF GetLine
<1>2. Len(d) \in Nat /\ A # {} /\ A \in SUBSET Nat
  BY <1>1, LenProperties
<1>3. PICK m \in A : \A k \in A : ~(k < m)
  BY <1>2, LeastNatural
<1>4. m \in 1..Len(d) /\ Least(m)
  <2>1. \A j \in 1..(m - 1) : j \in 1..Len(d) /\ j < m
    BY <1>2, <1>3
  <2> QED
    BY <1>3, <2>1
<1>5. i \in 1..Len(d) /\ Least(i)
  BY <1>4, Zenon
<1>6. GetLine(d) = [found |-> TRUE,
                    line  |-> SubSeq(d, 1, IF i > 1 /\ d[i - 1] = "CR" THEN i - 2 ELSE i - 1),
                    used  |-> IF i > 1 /\ d[i - 1] = "CR" THEN i ELSE i + 1]
  BY <1>1, Zenon DEF GetLine
<1> HIDE DEF i
<1> QED
  BY <1>5, <1>6

LEMMA GetLineTypes ==
  ASSUME NEW d \in Seq(Token), GetLine(d).found
  PROVE  /\ GetLine(d).line \in Seq(Token) /\ GetLine(d).used \in Nat \ {0}
         /\ GetLine(d).used <= Len(d) + 1 /\ Len(d) \in Nat
<1>1. PICK i \in 1..Len(d) :
        GetLine(d) = [found |-> TRUE,
                      line  |-> SubSeq(d, 1, IF i > 1 /\ d[i - 1] = "CR" THEN i - 2 ELSE i - 1),
                      used  |-> IF i > 1 /\ d[i - 1] = "CR" THEN i ELSE i + 1]
  BY GetLineFacts
<1>2. Len(d) \in Nat
  BY LenProperties
<1>3. SubSeq(d, 1, i - 1) \in Seq(Token) /\ SubSeq(d, 1, i - 2) \in Seq(Token)
  BY <1>2, TakeFacts
<1> QED
  BY <1>1, <1>2, <1>3

-----------------------------------------------------------------------------
(* A parser only adds to what it has said.                                 *)

\* q is p after more of the input: what p said stands, an end is said when the parser
\* is done, and a parser that has stopped stays as it is.
Later(p, q) ==
  /\ Len(p.events) <= Len(q.events)
  /\ \A i \in 1..Len(p.events) : q.events[i] = p.events[i]
  /\ \A i \in (Len(p.events) + 1)..Len(q.events) :
       q.events[i] # "error" /\ (q.events[i] = "complete" => q.readState = "done")
  /\ p.readState \in Stopped => q = p

LEMMA LaterIsTransitive ==
  ASSUME NEW p \in Parser, NEW q \in Parser, NEW r \in Parser, Later(p, q), Later(q, r)
  PROVE  Later(p, r)
<1>1. Len(p.events) \in Nat /\ Len(q.events) \in Nat /\ Len(r.events) \in Nat
  BY LenProperties DEF Parser
<1>2. ASSUME NEW i \in (Len(p.events) + 1)..Len(r.events)
      PROVE  r.events[i] # "error" /\ (r.events[i] = "complete" => r.readState = "done")
  <2>1. CASE i <= Len(q.events)
    <3>1. i \in (Len(p.events) + 1)..Len(q.events) /\ i \in 1..Len(q.events)
      BY <1>1, <2>1
    <3>2. r.events[i] = q.events[i] /\ q.events[i] # "error"
          /\ (q.events[i] = "complete" => q.readState = "done")
      BY <3>1 DEF Later
    <3> QED
      BY <3>2 DEF Later, Stopped
  <2>2. CASE ~(i <= Len(q.events))
    BY <1>1, <2>2 DEF Later
  <2> QED
    BY <2>1, <2>2
<1>3. \A i \in 1..Len(p.events) : r.events[i] = p.events[i]
  BY <1>1 DEF Later
<1>4. Len(p.events) <= Len(r.events)
  BY <1>1 DEF Later
<1> QED
  BY <1>2, <1>3, <1>4 DEF Later

LEMMA LaterIsReflexive ==
  ASSUME NEW p \in Parser
  PROVE  Later(p, p)
<1>1. Len(p.events) \in Nat
  BY LenProperties DEF Parser
<1> QED
  BY <1>1 DEF Later

\* What is said at a step, es.
LEMMA Saying ==
  ASSUME NEW p \in Parser, NEW q \in Parser, p.readState \notin Stopped,
         NEW es \in Seq(Event), q.events = p.events \o es,
         \A i \in 1..Len(es) : es[i] # "error" /\ (es[i] = "complete" => q.readState = "done")
  PROVE  Later(p, q)
<1>1. p.events \in Seq(Event)
  BY DEF Parser
<1>2. /\ Len(q.events) = Len(p.events) + Len(es)
      /\ \A i \in 1..(Len(p.events) + Len(es)) :
           q.events[i] = IF i <= Len(p.events) THEN p.events[i] ELSE es[i - Len(p.events)]
      /\ Len(p.events) \in Nat /\ Len(es) \in Nat
  BY <1>1, ConcatProperties, LenProperties
<1>3. \A i \in (Len(p.events) + 1)..Len(q.events) :
        i - Len(p.events) \in 1..Len(es) /\ q.events[i] = es[i - Len(p.events)]
  BY <1>2
<1> QED
  BY <1>2, <1>3 DEF Later

LEMMA Silence ==
  ASSUME NEW p \in Parser, NEW q \in Parser, p.readState \notin Stopped, q.events = p.events
  PROVE  Later(p, q)
<1>1. Len(p.events) \in Nat
  BY LenProperties DEF Parser
<1> QED
  BY <1>1 DEF Later

\* Bytes of a body are no marks.
LEMMA SayingBytes ==
  ASSUME NEW p \in Parser, NEW q \in Parser, p.readState \notin Stopped,
         NEW es \in Seq(Token), q.events = p.events \o es
  PROVE  Later(p, q)
<1>1. \A i \in 1..Len(es) : es[i] # "error" /\ es[i] # "complete"
  BY ElementOfSeq, Marks
<1>2. es \in Seq(Event)
  BY SeqMonotonic DEF Event
<1> QED
  BY <1>1, <1>2, Saying

-----------------------------------------------------------------------------
(* One round.                                                              *)

\* A round at p leads to r.
Moves(p, r) == r \in Loop /\ Later(p, r.parser)

\* It ends, or goes on with the rest of the input.
LEMMA EndsRound ==
  ASSUME NEW p, NEW q \in Parser, Later(p, q)
  PROVE  Moves(p, Returns(q))
<1>1. <<>> \in Seq(Token)
  BY EmptySeq
<1> QED
  BY <1>1 DEF Moves, Returns, Loop

LEMMA GoesOn ==
  ASSUME NEW p, NEW d \in Seq(Token), NEW q \in Parser, Later(p, q), NEW n \in Nat
  PROVE  Moves(p, GoOn(q, d, n))
BY DropFacts DEF Moves, GoOn, Loop

\* Steps at which nothing is said.
LEMMA QuietSteps ==
  ASSUME NEW p \in Parser, p.readState \notin Stopped, NEW d \in Seq(Token)
  PROVE  /\ Fresh(p) \in Parser /\ Fresh(p).readState = p.readState /\ Later(p, Fresh(p))
         /\ Fail(p) \in Parser /\ Later(p, Fail(p))
         /\ Fail(Fresh(p)) \in Parser /\ Later(p, Fail(Fresh(p)))
         /\ SaveData(p, d) \in Parser /\ Later(p, SaveData(p, d))
<1>1. Fresh(p) \in Parser /\ Fresh(p).readState = p.readState /\ Fresh(p).events = p.events
  <2>1. <<>> \in Seq(Token)
    BY EmptySeq
  <2> QED
    BY <2>1 DEF Fresh, Parser
<1>2. Fail(p) \in Parser /\ Fail(p).events = p.events
  BY DEF Fail, Parser, Stopped
<1>3. Fail(Fresh(p)) \in Parser /\ Fail(Fresh(p)).events = p.events
  BY <1>1 DEF Fail, Parser, Stopped
<1>4. SaveData(p, d) \in Parser /\ SaveData(p, d).events = p.events
  <2>1. p.savedString \o d \in Seq(Token)
    BY ConcatProperties DEF Parser
  <2> QED
    BY <2>1 DEF SaveData, Parser
<1> QED
  BY <1>1, <1>2, <1>3, <1>4, Silence

LEMMA SavedType ==
  ASSUME NEW p \in Parser, NEW line \in Seq(Token)
  PROVE  Saved(p, line) \in Seq(Token)
BY ConcatProperties DEF Saved, Parser

\* Done says that the message is complete.
LEMMA DoneType ==
  ASSUME NEW p \in Parser, p.readState \notin Stopped
  PROVE  Done(p) \in Parser /\ Done(p).readState = "done" /\ Later(p, Done(p))
         /\ Done(p).events = p.events \o <<"complete">>
<1>1. p.events \in Seq(Event) /\ <<"complete">> \in Seq(Event)
  BY DEF Parser, Event
<1>2. p.events \o <<"complete">> \in Seq(Event)
  BY <1>1, ConcatProperties
<1>3. Done(p) \in Parser /\ Done(p).readState = "done" /\ Done(p).events = p.events \o <<"complete">>
  BY <1>2 DEF Done, Notify, Parser, Stopped
<1>4. \A i \in 1..Len(<<"complete">>) :
        <<"complete">>[i] # "error" /\ (<<"complete">>[i] = "complete" => Done(p).readState = "done")
  BY <1>3
<1> QED
  BY <1>1, <1>3, <1>4, Saying

LEMMA SizeMoves ==
  ASSUME NEW p \in Parser, p.readState \notin Stopped, NEW d \in Seq(Token)
  PROVE  Moves(p, SizeRound(p, d))
<1> DEFINE g == GetLine(d)
           sizes == ChunkSize(Saved(p, g.line))
           size == CHOOSE k \in sizes : TRUE
           q == [Fresh(p) EXCEPT !.chunkSize = size,
                                 !.chunkState = IF size = 0 THEN "trailer" ELSE "data"]
<1>1. CASE ~g.found
  BY <1>1, QuietSteps, EndsRound DEF SizeRound
<1>2. CASE g.found /\ sizes = {}
  BY <1>2, QuietSteps, EndsRound DEF SizeRound
<1>3. CASE g.found /\ sizes # {}
  <2>1. size \in Nat
    <3>1. sizes \subseteq Nat
      BY DEF ChunkSize, SizeLine
    <3>2. size \in sizes
      BY <1>3, Zenon
    <3> QED
      BY <3>1, <3>2
  <2> HIDE DEF size
  <2>2. q \in Parser /\ q.events = p.events
    <3>1. ASSUME NEW f \in Parser, NEW n \in Nat, NEW c \in {"data", "trailer"}
          PROVE  LET x == [f EXCEPT !.chunkSize = n, !.chunkState = c]
                 IN  x \in Parser /\ x.events = f.events
      BY DEF Parser
    <3>2. Fresh(p) \in Parser
      BY QuietSteps
    <3>3. Fresh(p).events = p.events
      BY DEF Fresh, Parser
    <3>4. (IF size = 0 THEN "trailer" ELSE "data") \in {"data", "trailer"}
      OBVIOUS
    <3> QED
      BY <2>1, <3>1, <3>2, <3>3, <3>4, Zenon
  <2>3. Later(p, q)
    BY <2>2, Silence
  <2>4. SizeRound(p, d) = GoOn(q, d, g.used)
    BY <1>3 DEF SizeRound, size
  <2>5. g.used \in Nat \ {0}
    BY <1>3, GetLineTypes
  <2> HIDE DEF q, g
  <2> QED
    BY <2>2, <2>3, <2>4, <2>5, GoesOn
<1> QED
  BY <1>1, <1>2, <1>3

LEMMA DataMoves ==
  ASSUME NEW p \in Parser, p.readState \notin Stopped, NEW d \in Seq(Token)
  PROVE  Moves(p, DataRound(p, d))
<1> DEFINE n == IF p.chunkSize <= Len(d) THEN p.chunkSize ELSE Len(d)
           es == SubSeq(d, 1, n)
           q == Notify([p EXCEPT !.totalBytesRead = @ + n, !.chunkSize = @ - n,
                                 !.chunkState = IF n = p.chunkSize THEN "data_cr" ELSE @], es)
<1>1. Len(d) \in Nat /\ p.chunkSize \in Nat /\ p.totalBytesRead \in Nat
  BY LenProperties DEF Parser
<1>2. n \in Nat /\ n <= Len(d) /\ p.chunkSize - n \in Nat /\ p.totalBytesRead + n \in Nat
  BY <1>1
<1>3. DataRound(p, d) = GoOn(q, d, n)
  BY DEF DataRound
<1> HIDE DEF n
<1>4. es \in Seq(Token)
  BY <1>2, TakeFacts
<1> HIDE DEF es
<1>5. p.events \o es \in Seq(Event)
  BY <1>4, ConcatProperties, SeqMonotonic DEF Parser, Event
<1>6. q \in Parser /\ q.events = p.events \o es
  BY <1>2, <1>5 DEF Parser, Notify
<1> HIDE DEF q
<1> QED
  BY <1>2, <1>3, <1>4, <1>6, SayingBytes, GoesOn

LEMMA EndMoves ==
  ASSUME NEW p \in Parser, p.readState \notin Stopped, NEW d \in Seq(Token),
         NEW byte, NEW next \in {"data_lf", "size"}
  PROVE  Moves(p, EndRound(p, d, byte, next))
<1> DEFINE q == [p EXCEPT !.chunkState = next]
<1>1. q \in Parser /\ q.events = p.events
  BY DEF Parser
<1>2. Later(p, q)
  BY <1>1, Silence
<1>3. Moves(p, GoOn(q, d, 1)) /\ Moves(p, Returns(Fail(p)))
  BY <1>1, <1>2, GoesOn, EndsRound, QuietSteps
<1> QED
  BY <1>3, Zenon DEF EndRound

LEMMA TrailerMoves ==
  ASSUME NEW p \in Parser, p.readState \notin Stopped, NEW d \in Seq(Token)
  PROVE  Moves(p, TrailerRound(p, d))
<1>1. CASE ~GetLine(d).found
  BY <1>1, QuietSteps, EndsRound DEF TrailerRound
<1>2. CASE GetLine(d).found
  <2>1. Fresh(p) \in Parser /\ Fresh(p).readState = p.readState /\ Later(p, Fresh(p))
    BY QuietSteps
  <2>2. Done(Fresh(p)) \in Parser /\ Later(p, Done(Fresh(p)))
    BY <2>1, DoneType, LaterIsTransitive
  <2>3. GetLine(d).used \in Nat \ {0}
    BY <1>2, GetLineTypes
  <2>4. Moves(p, Returns(Done(Fresh(p)))) /\ Moves(p, GoOn(Fresh(p), d, GetLine(d).used))
    BY <2>1, <2>2, <2>3, GoesOn, EndsRound
  <2> QED
    BY <1>2, <2>4, Zenon DEF TrailerRound
<1> QED
  BY <1>1, <1>2

\* The states of parse in which a round takes something.
LEMMA ChunkMoves ==
  ASSUME NEW p \in Parser, p.readState \notin Stopped, NEW d \in Seq(Token)
  PROVE  Moves(p, ChunkRound(p, d))
<1>1. p.chunkState \in {"size", "data", "data_cr", "data_lf", "trailer"}
  BY DEF Parser
<1>2. /\ Moves(p, SizeRound(p, d)) /\ Moves(p, DataRound(p, d)) /\ Moves(p, TrailerRound(p, d))
      /\ Moves(p, EndRound(p, d, "CR", "data_lf")) /\ Moves(p, EndRound(p, d, "LF", "size"))
  BY SizeMoves, DataMoves, TrailerMoves, EndMoves
<1>3. CASE p.chunkState = "size"
  BY <1>2, <1>3 DEF ChunkRound
<1>4. CASE p.chunkState = "data"
  BY <1>2, <1>4 DEF ChunkRound
<1>5. CASE p.chunkState = "data_cr"
  BY <1>2, <1>5 DEF ChunkRound
<1>6. CASE p.chunkState = "data_lf"
  BY <1>2, <1>6 DEF ChunkRound
<1>7. CASE p.chunkState = "trailer"
  BY <1>2, <1>7 DEF ChunkRound
<1> QED
  BY <1>1, <1>3, <1>4, <1>5, <1>6, <1>7

LEMMA BodyMoves ==
  ASSUME NEW p \in Parser, p.readState \notin Stopped, NEW d \in Seq(Token), NEW clen \in Nat
  PROVE  ParseBody(p, d, clen) \in Parser /\ Later(p, ParseBody(p, d, clen))
<1>1. p.totalBytesRead \in Nat /\ Len(d) \in Nat /\ p.events \in Seq(Event)
  BY LenProperties DEF Parser
<1>2. Needed(p, clen) \in Int /\ p.totalBytesRead + Len(d) \in Nat
  BY <1>1 DEF Needed
<1>3. ASSUME NEW es \in Seq(Token), NEW n \in Nat
      PROVE  LET q == Notify([p EXCEPT !.totalBytesRead = n], es)
             IN  q \in Parser /\ Later(p, q) /\ q.readState = p.readState
  <2> DEFINE q == Notify([p EXCEPT !.totalBytesRead = n], es)
  <2>1. p.events \o es \in Seq(Event)
    BY <1>1, ConcatProperties, SeqMonotonic DEF Event
  <2>2. q \in Parser /\ q.events = p.events \o es /\ q.readState = p.readState
    BY <2>1 DEF Notify, Parser
  <2> HIDE DEF q
  <2>3. Later(p, q)
    BY <2>2, SayingBytes
  <2> QED
    BY <2>2, <2>3 DEF q
<1>4. CASE hasLength(p) /\ Needed(p, clen) <= Len(d)
  <2> DEFINE q == Notify([p EXCEPT !.totalBytesRead = clen], SubSeq(d, 1, Needed(p, clen)))
  <2>1. SubSeq(d, 1, Needed(p, clen)) \in Seq(Token)
    BY <1>2, <1>4, TakeFacts
  <2>2. q \in Parser /\ Later(p, q) /\ q.readState = p.readState
    BY <1>3, <2>1
  <2> HIDE DEF q
  <2>3. Done(q) \in Parser /\ Later(q, Done(q))
    BY <2>2, DoneType
  <2>4. Later(p, Done(q))
    BY <2>2, <2>3, LaterIsTransitive
  <2>5. ParseBody(p, d, clen) = Done(q)
    BY <1>4 DEF ParseBody, q
  <2> QED
    BY <2>3, <2>4, <2>5
<1>5. CASE ~(hasLength(p) /\ Needed(p, clen) <= Len(d))
  <2>1. ParseBody(p, d, clen) = Notify([p EXCEPT !.totalBytesRead = p.totalBytesRead + Len(d)], d)
    BY <1>5 DEF ParseBody
  <2> QED
    BY <1>2, <1>3, <2>1
<1> QED
  BY <1>4, <1>5

\* The end of the head.
LEMMA HeaderEndMoves ==
  ASSUME NEW p \in Parser, p.readState \notin Stopped
  PROVE  HeaderEnd(p) \in Parser /\ Later(p, HeaderEnd(p))
<1> DEFINE q == Notify(p, <<"header">>)
           b == [q EXCEPT !.readState = "body"]
<1>1. p.events \in Seq(Event) /\ <<"header">> \in Seq(Event)
  BY DEF Parser, Event
<1>2. p.events \o <<"header">> \in Seq(Event)
  BY <1>1, ConcatProperties
<1>3. q \in Parser /\ q.events = p.events \o <<"header">> /\ q.readState = p.readState
  BY <1>2 DEF Notify, Parser
<1>4. b \in Parser /\ b.events = p.events \o <<"header">>
  BY <1>3 DEF Parser
<1>5. \A i \in 1..Len(<<"header">>) : <<"header">>[i] # "error" /\ <<"header">>[i] # "complete"
  OBVIOUS
<1>6. HeaderEnd(p) = Done(q) \/ HeaderEnd(p) = b
  BY DEF HeaderEnd
<1> HIDE DEF q, b
<1>7. Later(p, q) /\ Later(p, b)
  BY <1>1, <1>3, <1>4, <1>5, Saying
<1>8. Done(q) \in Parser /\ Later(q, Done(q))
  BY <1>3, DoneType
<1>9. Later(p, Done(q))
  BY <1>3, <1>7, <1>8, LaterIsTransitive
<1> QED
  BY <1>4, <1>6, <1>7, <1>8, <1>9

LEMMA HeadMoves ==
  ASSUME NEW p \in Parser, p.readState \notin Stopped, NEW d \in Seq(Token)
  PROVE  Moves(p, HeadRound(p, d))
<1> DEFINE g == GetLine(d)
           line == Saved(p, g.line)
           q == IF p.readState = "line"
                THEN [Fresh(p) EXCEPT !.start = line[1], !.readState = "head"]
                ELSE AddHeader(Fresh(p), line)
           o == [p EXCEPT !.readState = "overrun"]
<1>0. /\ Fresh(p) \in Parser /\ Fresh(p).readState = p.readState /\ Later(p, Fresh(p))
      /\ Fresh(p).events = p.events
  <2>1. Fresh(p).events = p.events
    BY DEF Fresh, Parser
  <2> QED
    BY <2>1, QuietSteps
<1>1. CASE ~g.found
  BY <1>1, QuietSteps, EndsRound DEF HeadRound
<1>2. CASE g.found
  <2>1. line \in Seq(Token) /\ g.used \in Nat
    BY <1>2, GetLineTypes, SavedType
  <2>2. CASE line = <<>> /\ p.readState = "head"
    <3>1. HeaderEnd(Fresh(p)) \in Parser /\ Later(p, HeaderEnd(Fresh(p)))
      BY <1>0, HeaderEndMoves, LaterIsTransitive
    <3>2. HeadRound(p, d) = GoOn(HeaderEnd(Fresh(p)), d, g.used)
      BY <1>2, <2>2 DEF HeadRound
    <3> HIDE DEF g
    <3> QED
      BY <2>1, <3>1, <3>2, GoesOn
  <2>3. CASE ~(line = <<>> /\ p.readState = "head") /\ ~IsHeadLine(line)
    BY <1>2, <2>3, QuietSteps, EndsRound DEF HeadRound
  <2>4. CASE ~(line = <<>> /\ p.readState = "head") /\ IsHeadLine(line) /\ Past(d, g)
    <3>1. o \in Parser /\ o.events = p.events
      BY DEF Parser, Stopped
    <3>2. HeadRound(p, d) = Returns(o)
      BY <1>2, <2>4 DEF HeadRound
    <3> QED
      BY <3>1, <3>2, Silence, EndsRound
  <2>5. CASE ~(line = <<>> /\ p.readState = "head") /\ IsHeadLine(line) /\ ~Past(d, g)
    <3>1. HeadRound(p, d) = GoOn(q, d, g.used)
      BY <1>2, <2>5 DEF HeadRound
    <3>2. line[1] \in Token
      <4>1. PICK i \in 1..Len(line) : line[i] = "rest"
        BY <2>5, Zenon DEF IsHeadLine
      <4>2. 1 \in 1..Len(line)
        BY <2>1, <4>1, LenProperties
      <4> QED
        BY <2>1, <4>2, ElementOfSeq
    <3> HIDE DEF g, line
    <3>3. q \in Parser /\ q.events = p.events
      BY <1>0, <3>2 DEF Parser, AddHeader
    <3> HIDE DEF q
    <3> QED
      BY <2>1, <3>1, <3>3, Silence, GoesOn
  <2> QED
    BY <2>2, <2>3, <2>4, <2>5
<1> QED
  BY <1>1, <1>2

LEMMA RoundMoves ==
  ASSUME NEW r \in Loop, NEW clen \in Nat
  PROVE  Moves(r.parser, Round(r, clen))
<1> DEFINE p == r.parser
           d == r.data
<1>1. p \in Parser /\ d \in Seq(Token)
  BY DEF Loop
<1>2. Moves(p, r) /\ Moves(p, Returns(p))
  BY <1>1, LaterIsReflexive, EndsRound DEF Moves
<1>3. CASE p.readState \notin Stopped /\ d # <<>>
  <2>1. Moves(p, HeadRound(p, d)) /\ Moves(p, ChunkRound(p, d)) /\ Moves(p, Returns(ParseBody(p, d, clen)))
    BY <1>1, <1>3, HeadMoves, ChunkMoves, BodyMoves, EndsRound
  <2>2. \/ Round(r, clen) = HeadRound(p, d) \/ Round(r, clen) = ChunkRound(p, d)
        \/ Round(r, clen) = Returns(ParseBody(p, d, clen))
    <3>1. p.readState \in {"line", "head", "body"}
      BY <1>1, <1>3 DEF Parser
    <3>2. CASE p.readState \in {"line", "head"}
      BY <1>3, <3>2 DEF Round
    <3>3. CASE p.readState = "body" /\ isChunked(p)
      BY <1>3, <3>3 DEF Round
    <3>4. CASE p.readState = "body" /\ ~isChunked(p)
      BY <1>3, <3>4 DEF Round
    <3> QED
      BY <3>1, <3>2, <3>3, <3>4
  <2> QED
    BY <2>1, <2>2
<1>4. CASE p.readState \in Stopped \/ d = <<>>
  <2>1. Round(r, clen) \in {r, Returns(p)}
    <3>1. CASE d = <<>>
      BY <3>1 DEF Round
    <3>2. CASE d # <<>> /\ p.readState \in Stopped
      BY <3>2 DEF Round, Stopped
    <3> QED
      BY <1>4, <3>1, <3>2
  <2> QED
    BY <1>2, <2>1
<1> QED
  BY <1>3, <1>4

-----------------------------------------------------------------------------
(* The rounds of one parse.                                                *)

\* What defines the rounds has a solution.
Rounds(first, clen, n, run) ==
  run = [i \in 0..n |-> IF i = 0 THEN first ELSE Round(run[i - 1], clen)]

LEMMA RoundsExist ==
  ASSUME NEW first, NEW clen, NEW n \in Nat PROVE \E run : Rounds(first, clen, n, run)
<1> DEFINE S == {k \in 0..n : \E run : Rounds(first, clen, k, run)}
<1>1. 0 \in S
  <2> DEFINE g == [i \in 0..0 |-> first]
  <2>1. g = [i \in 0..0 |-> IF i = 0 THEN first ELSE Round(g[i - 1], clen)]
    OBVIOUS
  <2> HIDE DEF g
  <2>2. Rounds(first, clen, 0, g)
    BY <2>1 DEF Rounds
  <2> QED
    BY <2>2
<1>2. ASSUME NEW k \in 0..n, k < n, k \in S PROVE k + 1 \in S
  <2>1. PICK f : Rounds(first, clen, k, f)
    BY <1>2
  <2> DEFINE g == [i \in 0..(k + 1) |-> IF i <= k THEN f[i] ELSE Round(f[k], clen)]
             h == [i \in 0..(k + 1) |-> IF i = 0 THEN first ELSE Round(g[i - 1], clen)]
  <2>2. ASSUME NEW i \in 0..(k + 1) PROVE g[i] = IF i = 0 THEN first ELSE Round(g[i - 1], clen)
    <3>1. CASE i = 0
      BY <1>2, <2>1, <3>1 DEF Rounds
    <3>2. CASE i # 0 /\ i <= k
      <4>1. i \in 0..k /\ i - 1 \in 0..k /\ i - 1 \in 0..(k + 1) /\ i - 1 <= k
        BY <3>2
      <4>2. f[i] = Round(f[i - 1], clen)
        BY <2>1, <3>2, <4>1 DEF Rounds
      <4> QED
        BY <3>2, <4>1, <4>2
    <3>3. CASE i = k + 1
      <4>1. i # 0 /\ ~(i <= k) /\ i - 1 = k /\ k \in 0..(k + 1) /\ k <= k
        BY <1>2, <3>3
      <4> QED
        BY <4>1
    <3> QED
      BY <1>2, <3>1, <3>2, <3>3
  <2>3. g = h
    BY <2>2
  <2>4. Rounds(first, clen, k + 1, g)
    <3> HIDE DEF g
    <3> QED
      BY <2>3 DEF Rounds
  <2>5. k + 1 \in 0..n
    BY <1>2
  <2> HIDE DEF g, h
  <2> QED
    BY <2>4, <2>5
<1>3. S = 0..n
  <2> HIDE DEF S
  <2>1. S \in SUBSET (0..n)
    BY DEF S
  <2> QED
    BY <1>1, <1>2, <2>1, Upward
<1>4. n \in 0..n
  OBVIOUS
<1> QED
  BY <1>3, <1>4

Start(p, d) == [parser |-> p, data |-> d]
WithError(p, q) ==
  IF q.readState = "error" /\ p.readState # "error" THEN Notify(q, <<"error">>) ELSE q

IsParsing(p, d, clen, n, run) ==
  /\ run[0] = Start(p, d) /\ Parse(p, d, clen) = WithError(p, run[n].parser)
  /\ \A i \in 1..n : run[i] = Round(run[i - 1], clen)

\* parse is the last of as many rounds as there are bytes.
LEMMA ParseRounds ==
  ASSUME NEW p, NEW d, NEW clen, Len(d) \in Nat
  PROVE  \E run : IsParsing(p, d, clen, Len(d), run)
<1> DEFINE k == Len(d)
           first == Start(p, d)
           f == CHOOSE f : Rounds(first, clen, k, f)
<1>1. Rounds(first, clen, k, f)
  <2> HIDE DEF first, k
  <2>1. k \in Nat
    BY DEF k
  <2> QED
    BY <2>1, RoundsExist
<1>2. Parse(p, d, clen) = WithError(p, f[k].parser)
  BY DEF Parse, Rounds, Start, WithError
<1> HIDE DEF f
<1>3. f[0] = first /\ \A i \in 1..k : f[i] = Round(f[i - 1], clen)
  <2> HIDE DEF first, k
  <2>1. k \in Nat
    BY DEF k
  <2>2. 0 \in 0..k /\ \A i \in 1..k : i \in 0..k /\ i # 0
    BY <2>1
  <2> QED
    BY <1>1, <2>2 DEF Rounds
<1> QED
  BY <1>2, <1>3 DEF IsParsing

\* What is new in q since p.
News(p, q) == {q.events[i] : i \in (Len(p.events) + 1)..Len(q.events)}

\* An end is said once: the parser has stopped then, as it had not before.
Parsed(p, q) ==
  /\ q \in Parser
  /\ "complete" \in News(p, q) => q.readState = "done" /\ p.readState \notin Stopped
  /\ "error" \in News(p, q) => q.readState = "error" /\ p.readState \notin Stopped
  /\ p.readState \in Stopped => q = p

LEMMA LaterIsParsed ==
  ASSUME NEW p \in Parser, NEW q \in Parser, Later(p, q)
  PROVE  Parsed(p, q)
<1>1. Len(p.events) \in Nat
  BY LenProperties DEF Parser
<1>2. CASE p.readState \in Stopped
  <2>1. q = p
    BY <1>2 DEF Later
  <2>2. News(p, q) = {}
    BY <1>1, <2>1 DEF News
  <2> QED
    BY <2>1, <2>2 DEF Parsed
<1>3. CASE p.readState \notin Stopped
  BY <1>3 DEF Later, News, Parsed
<1> QED
  BY <1>2, <1>3

LEMMA ErrorIsParsed ==
  ASSUME NEW p \in Parser, NEW q \in Parser, Later(p, q)
  PROVE  Parsed(p, WithError(p, q))
<1>1. CASE ~(q.readState = "error" /\ p.readState # "error")
  BY <1>1, LaterIsParsed, Zenon DEF WithError
<1>2. CASE q.readState = "error" /\ p.readState # "error"
  <2> DEFINE w == Notify(q, <<"error">>)
  <2>1. p.readState \notin Stopped
    BY <1>2 DEF Later
  <2>2. q.events \in Seq(Event) /\ <<"error">> \in Seq(Event) /\ Len(p.events) \in Nat
    BY LenProperties DEF Parser, Event
  <2>3. /\ q.events \o <<"error">> \in Seq(Event)
        /\ Len(q.events \o <<"error">>) = Len(q.events) + 1 /\ Len(q.events) \in Nat
        /\ \A i \in 1..(Len(q.events) + 1) :
             (q.events \o <<"error">>)[i] = IF i <= Len(q.events) THEN q.events[i] ELSE "error"
    BY <2>2, ConcatProperties, LenProperties
  <2>4. w \in Parser /\ w.events = q.events \o <<"error">> /\ w.readState = "error"
    BY <1>2, <2>3 DEF Notify, Parser
  <2> HIDE DEF w
  <2>5. ASSUME NEW i \in (Len(p.events) + 1)..Len(w.events) PROVE w.events[i] # "complete"
    <3>1. i \in 1..(Len(q.events) + 1) /\ w.events[i] = IF i <= Len(q.events) THEN q.events[i] ELSE "error"
      BY <2>2, <2>3, <2>4
    <3>2. CASE i <= Len(q.events)
      <4>1. i \in (Len(p.events) + 1)..Len(q.events)
        BY <2>2, <2>3, <3>1, <3>2
      <4>2. q.events[i] = "complete" => q.readState = "done"
        BY <4>1 DEF Later
      <4> QED
        BY <1>2, <3>1, <3>2, <4>2
    <3>3. CASE ~(i <= Len(q.events))
      BY <3>1, <3>3
    <3> QED
      BY <3>2, <3>3
  <2>6. "complete" \notin News(p, w)
    BY <2>5 DEF News
  <2>7. WithError(p, q) = w
    BY <1>2 DEF WithError, w
  <2> QED
    BY <2>1, <2>4, <2>6, <2>7 DEF Parsed
<1> QED
  BY <1>1, <1>2

LEMMA ParseSays ==
  ASSUME NEW p \in Parser, NEW d \in Seq(Token), NEW clen \in Nat
  PROVE  Parsed(p, Parse(p, d, clen))
<1>1. Len(d) \in Nat
  BY LenProperties
<1>2. PICK run : IsParsing(p, d, clen, Len(d), run)
  BY <1>1, ParseRounds
<1> DEFINE n == Len(d)
           S == {i \in 0..n : run[i] \in Loop /\ Later(p, run[i].parser)}
<1>3. 0 \in S
  BY <1>1, <1>2, LaterIsReflexive DEF IsParsing, Start, Loop
<1>4. ASSUME NEW i \in 0..n, i < n, i \in S PROVE i + 1 \in S
  <2>1. i + 1 \in 1..n /\ (i + 1) - 1 = i /\ i + 1 \in 0..n
    BY <1>1, <1>4
  <2>2. run[i + 1] = Round(run[i], clen)
    BY <1>2, <2>1 DEF IsParsing
  <2>3. run[i] \in Loop /\ Later(p, run[i].parser)
    BY <1>4
  <2>4. run[i + 1] \in Loop /\ Later(run[i].parser, run[i + 1].parser)
    BY <2>2, <2>3, RoundMoves DEF Moves
  <2>5. Later(p, run[i + 1].parser)
    BY <2>3, <2>4, LaterIsTransitive DEF Loop
  <2> QED
    BY <2>1, <2>4, <2>5
<1>5. n \in S
  <2>1. S \in SUBSET (0..n) /\ n \in Nat
    BY <1>1
  <2> HIDE DEF S, n
  <2>2. S = 0..n
    BY <1>3, <1>4, <2>1, Upward
  <2> QED
    BY <2>1, <2>2
<1>6. run[n].parser \in Parser /\ Later(p, run[n].parser)
  BY <1>5 DEF Loop
<1>7. Parse(p, d, clen) = WithError(p, run[n].parser)
  BY <1>2 DEF IsParsing
<1> QED
  BY <1>6, <1>7, ErrorIsParsed

-----------------------------------------------------------------------------
(* The types of the exchange.                                              *)

End == [state : {"connecting", "idle", "sendingHeader", "sendingBody", "receivingResponse",
                 "receivingRequest", "waitForResponse", "completed", "error", "closed"},
        up : BOOLEAN, buffer : Seq(Token), armed : BOOLEAN, cue : BOOLEAN,
        body : {"none", "length", "chunked", "bodyless"}, sent : 0..BodyLen,
        completed : BOOLEAN]

HttpTyped ==
  /\ cl \in End /\ sv \in End
  /\ parser \in [Sides -> Parser] /\ link \in [Sides -> Seq(Token)]
  /\ told \in SUBSET {"complete", "error", "closed", "result", "nothing"} /\ split \in SUBSET Sides

\* A request that was said to have ended is over, and after an error the client has no
\* connection, or its parser reads no more.
OverWhenTold ==
  /\ "complete" \in told => IsOver(cl)
  /\ "error" \in told => IsOver(cl) /\ (~cl.up \/ parser["client"].readState = "error")

LEMMA BodyFacts ==
  /\ BodyLen \in Nat \ {0} /\ Body \in Seq(Token)
  /\ \A i \in 1..BodyLen : Body[i] \in Token /\ Body[i] \in Data
<1>1. Body \in Seq(Data) /\ Body # <<>>
  BY Http1Bounds
<1>2. Len(Body) \in Nat \ {0}
  BY <1>1, EmptySeq
<1>3. Body \in Seq(Token)
  BY <1>1, SeqMonotonic DEF Token
<1> QED
  BY <1>1, <1>2, <1>3, ElementOfSeq DEF BodyLen, Token

LEMMA EmptyTokens == <<>> \in Seq(Token)
BY EmptySeq

\* What is sent are bytes.
LEMMA SentBytes ==
  /\ \A first \in {"request", "200", "204"}, body \in {"none", "length", "chunked"} :
       Headers(first, body) \in Seq(Token)
  /\ \A end \in Sides, e \in End : Due(end, e) \in Seq(Token)
<1>1. ASSUME NEW first \in {"request", "200", "204"}, NEW body \in {"none", "length", "chunked"}
      PROVE  Headers(first, body) \in Seq(Token)
  <2>1. first \in Token /\ "rest" \in Token /\ "CR" \in Token /\ "LF" \in Token
        /\ (body # "none" => body \in Token)
    BY DEF Token
  <2>2. Line(first) \in Seq(Token) /\ (body # "none" => Line(body) \in Seq(Token)) /\ EndOfLine \in Seq(Token)
    BY <2>1 DEF Line, EndOfLine
  <2>3. (IF body = "none" THEN <<>> ELSE Line(body)) \in Seq(Token)
    BY <2>2, EmptyTokens
  <2>4. Line(first) \o (IF body = "none" THEN <<>> ELSE Line(body)) \in Seq(Token)
    BY <2>2, <2>3, ConcatProperties
  <2> QED
    BY <2>2, <2>4, ConcatProperties DEF Headers
<1>2. ASSUME NEW end \in Sides, NEW e \in End PROVE Due(end, e) \in Seq(Token)
  <2>1. "CR" \in Token /\ "LF" \in Token /\ SizeToken(0) \in Token /\ SizeToken(1) \in Token
    BY DEF Token, SizeToken, SizeLine
  <2>2. e.sent < BodyLen => Body[e.sent + 1] \in Token
    BY BodyFacts DEF End
  <2>3. e.sent < BodyLen => <<Body[e.sent + 1]>> \in Seq(Token)
    BY <2>2
  <2>4. e.sent < BodyLen => <<SizeToken(1), "CR", "LF", Body[e.sent + 1], "CR", "LF">> \in Seq(Token)
    BY <2>1, <2>2
  <2>5. EndChunk \in Seq(Token)
    BY <2>1 DEF EndChunk
  <2>6. CASE e.sent < BodyLen /\ Framing(end, e) # "chunked"
    BY <2>3, <2>6 DEF Due
  <2>7. CASE e.sent < BodyLen /\ Framing(end, e) = "chunked"
    <3>1. e.sent # BodyLen
      BY <2>7, BodyFacts DEF End
    <3> QED
      BY <2>4, <2>7, <3>1 DEF Due
  <2>8. CASE ~(e.sent < BodyLen) /\ e.sent = BodyLen /\ Framing(end, e) = "chunked" /\ ~e.completed
    BY <2>5, <2>8 DEF Due
  <2>9. CASE ~(e.sent < BodyLen) /\ ~(e.sent = BodyLen /\ Framing(end, e) = "chunked" /\ ~e.completed)
    BY <2>9, EmptyTokens DEF Due
  <2> QED
    BY <2>6, <2>7, <2>8, <2>9
<1> QED
  BY <1>1, <1>2

\* The operators on ends keep their types.
LEMMA EndTypes ==
  ASSUME NEW e \in End, NEW end \in Sides
  PROVE  /\ \A data \in Seq(Token), n \in Nat :
              Buffered(e, data, n) \in End /\ Written(e, data, n) \in End
         /\ Counted(end, e) \in End /\ AfterSend(end, e) \in End
         /\ \A body \in BOOLEAN, next \in {"receivingResponse", "completed"} :
              Announced(e, body, next) \in End
         /\ OnSend(end, e) \in End /\ Failed(e) \in End
         /\ \A b \in BOOLEAN : [e EXCEPT !.cue = b] \in End
         /\ [e EXCEPT !.up = FALSE, !.buffer = <<>>, !.armed = FALSE] \in End
<1>1. ASSUME NEW data \in Seq(Token), NEW n \in Nat
      PROVE  Buffered(e, data, n) \in End /\ Written(e, data, n) \in End
  <2>1. Drop(data, n) \in Seq(Token)
    BY DropFacts
  <2>2. (e.armed \/ n < Len(data)) \in BOOLEAN
    BY Zenon
  <2>3. Buffered(e, data, n) \in End
    BY <2>1, <2>2 DEF Buffered, End
  <2>4. [e EXCEPT !.armed = TRUE] \in End
    BY DEF End
  <2> QED
    BY <2>3, <2>4, Zenon DEF Written
<1>2. Counted(end, e) \in End
  <2>1. CASE e.sent = BodyLen
    BY <2>1 DEF Counted, End
  <2>2. CASE e.sent # BodyLen
    <3> DEFINE b == Framing(end, e) = "length" /\ e.sent + 1 = BodyLen
    <3>1. b \in BOOLEAN
      BY Zenon
    <3>2. e.sent + 1 \in 0..BodyLen
      BY <2>2, BodyFacts DEF End
    <3>3. Counted(end, e) = [e EXCEPT !.sent = e.sent + 1, !.completed = b]
      BY <2>2 DEF Counted
    <3> HIDE DEF b
    <3> QED
      BY <3>1, <3>2, <3>3 DEF End
  <2> QED
    BY <2>1, <2>2
<1>3. AfterSend(end, e) \in End
  BY DEF AfterSend, End
<1>4. ASSUME NEW f \in End, NEW body \in BOOLEAN, NEW next \in {"receivingResponse", "completed"}
      PROVE  Announced(f, body, next) \in End
  <2>1. [f EXCEPT !.state = "sendingBody", !.cue = TRUE] \in End /\ [f EXCEPT !.state = next] \in End
    BY DEF End
  <2> QED
    BY <2>1, Zenon DEF Announced
<1>5. \A b \in BOOLEAN : [e EXCEPT !.cue = b] \in End
  BY DEF End
<1>6. OnSend(end, e) \in End
  <2> DEFINE over == IF end = "client" THEN "receivingResponse" ELSE "completed"
             b == HasBody(end, e)
             c == e.cue \/ end = "client"
  <2>1. b \in BOOLEAN /\ c \in BOOLEAN
    BY Zenon DEF HasBody, ServerBody
  <2>2. over \in {"receivingResponse", "completed"}
    OBVIOUS
  <2>3. [e EXCEPT !.state = over] \in End /\ [e EXCEPT !.cue = TRUE] \in End /\ [e EXCEPT !.cue = c] \in End
    BY <1>5, <2>1, <2>2 DEF End
  <2>4. OnSend(end, e) \in {Announced(e, b, over), [e EXCEPT !.state = over],
                            [e EXCEPT !.cue = TRUE], [e EXCEPT !.cue = c]}
    <3>1. CASE e.state = "sendingHeader"
      BY <3>1 DEF OnSend
    <3>2. CASE e.state # "sendingHeader" /\ e.state = "sendingBody" /\ e.completed
      BY <3>2 DEF OnSend
    <3>3. CASE e.state # "sendingHeader" /\ e.state = "sendingBody" /\ ~e.completed
      BY <3>3 DEF OnSend
    <3>4. CASE e.state # "sendingHeader" /\ e.state # "sendingBody"
      BY <3>4 DEF OnSend
    <3> QED
      BY <3>1, <3>2, <3>3, <3>4
  <2> HIDE DEF over, b, c
  <2>5. Announced(e, b, over) \in End
    BY <1>4, <2>1, <2>2
  <2> QED
    BY <2>3, <2>4, <2>5
<1>7. Failed(e) \in End
  BY DEF Failed, End
<1>8. [e EXCEPT !.up = FALSE, !.buffer = <<>>, !.armed = FALSE] \in End
  BY EmptyTokens DEF End
<1> QED
  BY <1>1, <1>2, <1>3, <1>4, <1>5, <1>6, <1>7, <1>8

LEMMA SetEndFacts ==
  ASSUME cl \in End, sv \in End, NEW end \in Sides, NEW e \in End, SetEnd(end, e)
  PROVE  /\ cl' \in End /\ sv' \in End
         /\ end = "client" => cl' = e /\ sv' = sv
         /\ end = "server" => sv' = e /\ cl' = cl
BY DEF SetEnd, Sides

LEMMA EndOfType ==
  ASSUME cl \in End, sv \in End, NEW end \in Sides
  PROVE  EndOf(end) \in End /\ Peer(end) \in Sides
BY DEF EndOf, Peer, Sides

LEMMA LearnType ==
  ASSUME NEW end \in Sides, NEW what \in SUBSET {"complete", "error", "closed", "result", "nothing"},
         told \in SUBSET {"complete", "error", "closed", "result", "nothing"}, Learn(end, what)
  PROVE  /\ told' \in SUBSET {"complete", "error", "closed", "result", "nothing"}
         /\ end = "client" => told' = told \cup what
         /\ end = "server" => told' = told
BY DEF Learn, Sides

LEMMA OutType ==
  ASSUME link \in [Sides -> Seq(Token)], NEW end \in Sides, NEW data \in Seq(Token),
         NEW n \in 0..Len(data), Out(end, data, n)
  PROVE  link' \in [Sides -> Seq(Token)]
<1>1. Peer(end) \in Sides
  BY DEF Peer, Sides
<1>2. n \in Int /\ n <= Len(data)
  BY LenProperties
<1>3. SubSeq(data, 1, n) \in Seq(Token)
  BY <1>2, TakeFacts
<1>4. link[Peer(end)] \o SubSeq(data, 1, n) \in Seq(Token)
  BY <1>1, <1>3, ConcatProperties
<1> QED
  BY <1>1, <1>4 DEF Out

LEMMA SomeFacts ==
  ASSUME NEW data \in Seq(Token)
  PROVE  Len(data) \in Nat /\ Some(data) \subseteq 0..Len(data)
<1>1. Len(data) \in Nat
  BY LenProperties
<1> QED
  BY <1>1 DEF Some

-----------------------------------------------------------------------------
(* Every action keeps the types.                                           *)

LEMMA ConnectErrorTyped ==
  ASSUME HttpTyped, ConnectError
  PROVE  HttpTyped'
<1>1. cl' \in End
  BY DEF HttpTyped, ConnectError, End
<1>2. told' \in SUBSET {"complete", "error", "closed", "result", "nothing"}
  BY DEF HttpTyped, ConnectError
<1> QED
  BY <1>1, <1>2 DEF HttpTyped, ConnectError

LEMMA ConnectedTyped ==
  ASSUME HttpTyped, NEW body \in Bodies, NEW n \in Some(Headers("request", body)), Connected(body, n)
  PROVE  HttpTyped'
<1> DEFINE req == Headers("request", body)
           f == [cl EXCEPT !.state = "sendingHeader", !.up = TRUE, !.armed = TRUE,
                          !.body = body]
           e == Written(f, req, n)
           b == body # "none"
<1>1. body \in {"none", "length", "chunked"} /\ req \in Seq(Token)
  BY SentBytes DEF Bodies
<1>2. n \in 0..Len(req) /\ n \in Nat
  BY <1>1, SomeFacts
<1>3. f \in End
  BY <1>1 DEF HttpTyped, End
<1>4. "client" \in Sides /\ b \in BOOLEAN
  BY DEF Sides
<1>5. cl' = Announced(e, b, "receivingResponse")
  BY DEF Connected
<1>6. link' \in [Sides -> Seq(Token)]
  BY <1>1, <1>2, <1>4, OutType DEF HttpTyped, Connected
<1>7. sv' \in End
  BY DEF HttpTyped, Connected, End
<1> HIDE DEF req, f, b
<1>8. e \in End
  BY <1>1, <1>2, <1>3, <1>4, EndTypes
<1> HIDE DEF e
<1>9. cl' \in End
  BY <1>4, <1>5, <1>8, EndTypes
<1> QED
  BY <1>6, <1>7, <1>9 DEF HttpTyped, Connected

\* The responses an application gives.
Answer == {<<"200", "length">>, <<"200", "chunked">>, <<"204", "none">>}

LEMMA SendResponseTyped ==
  ASSUME HttpTyped, NEW rsp \in Answer, NEW n \in Some(Headers(rsp[1], rsp[2])),
         SendResponse(rsp[1], rsp[2], n)
  PROVE  HttpTyped'
<1> DEFINE data == Headers(rsp[1], rsp[2])
           f == [sv EXCEPT !.state = "sendingHeader",
                           !.body = IF rsp[1] \in Bodyless THEN "bodyless" ELSE rsp[2]]
           e == Written(f, data, n)
           b == ServerBody(e)
<1>1. /\ rsp[1] \in {"request", "200", "204"} /\ rsp[2] \in {"none", "length", "chunked"}
      /\ (IF rsp[1] \in Bodyless THEN "bodyless" ELSE rsp[2]) \in {"none", "length", "chunked", "bodyless"}
  BY DEF Answer, Bodyless
<1>2. data \in Seq(Token)
  BY <1>1, SentBytes
<1>20. n \in 0..Len(data) /\ n \in Nat
  BY <1>2, SomeFacts
<1>3. f \in End
  BY <1>1 DEF HttpTyped, End
<1>4. "server" \in Sides /\ b \in BOOLEAN
  BY DEF Sides, ServerBody
<1>5. sv' = Announced(e, b, "completed")
  BY DEF SendResponse
<1>6. link' \in [Sides -> Seq(Token)]
  BY <1>2, <1>20, <1>4, OutType DEF HttpTyped, SendResponse
<1> HIDE DEF data, f, b
<1>8. e \in End
  BY <1>2, <1>20, <1>3, <1>4, EndTypes
<1> HIDE DEF e
<1>9. sv' \in End
  BY <1>4, <1>5, <1>8, EndTypes
<1> QED
  BY <1>6, <1>9 DEF HttpTyped, SendResponse

LEMMA SendDataTyped ==
  ASSUME HttpTyped, NEW end \in Sides, NEW n \in 0..Len(Due(end, EndOf(end))), SendData(end, n)
  PROVE  HttpTyped'
<1> DEFINE e == EndOf(end)
           data == Due(end, e)
           chunk == Framing(end, e) = "chunked" /\ e.sent < BodyLen
           w == Written(e, data, n)
           c == Counted(end, Buffered(e, data, n))
<1>1. e \in End /\ data \in Seq(Token)
  BY EndOfType, SentBytes DEF HttpTyped
<1>2. n \in Nat
  BY <1>1, LenProperties
<1>3. CASE CanSend(e) /\ data # <<>>
  <2>1. /\ Out(end, data, n)
        /\ SetEnd(end, IF n = 0 /\ ~chunk THEN [w EXCEPT !.cue = FALSE] ELSE AfterSend(end, c))
        /\ UNCHANGED <<parser, told, split>>
    BY <1>3 DEF SendData
  <2>2. link' \in [Sides -> Seq(Token)]
    BY <1>1, <2>1, OutType DEF HttpTyped
  <2>3. w \in End /\ Buffered(e, data, n) \in End
    BY <1>1, <1>2, EndTypes
  <2>4. c \in End
    BY <2>3, EndTypes
  <2> HIDE DEF w, c, e, data, chunk
  <2>5. [w EXCEPT !.cue = FALSE] \in End /\ AfterSend(end, c) \in End
    BY <2>3, <2>4, EndTypes
  <2>6. PICK f \in End : SetEnd(end, f)
    BY <2>1, <2>5, Zenon
  <2>7. cl' \in End /\ sv' \in End
    BY <2>6, SetEndFacts DEF HttpTyped
  <2> QED
    BY <2>1, <2>2, <2>7 DEF HttpTyped
<1>4. CASE ~(CanSend(e) /\ data # <<>>)
  <2>1. SetEnd(end, [e EXCEPT !.cue = FALSE]) /\ UNCHANGED <<link, parser, told, split>>
    BY <1>4 DEF SendData
  <2> HIDE DEF e, data, chunk, w, c
  <2>2. [e EXCEPT !.cue = FALSE] \in End
    BY <1>1, EndTypes
  <2>3. cl' \in End /\ sv' \in End
    BY <2>1, <2>2, SetEndFacts DEF HttpTyped
  <2> QED
    BY <2>1, <2>3 DEF HttpTyped
<1> QED
  BY <1>3, <1>4

LEMMA SendFailsTyped ==
  ASSUME HttpTyped, NEW end \in Sides, SendFails(end)
  PROVE  HttpTyped'
<1>1. EndOf(end) \in End
  BY EndOfType DEF HttpTyped
<1>2. [EndOf(end) EXCEPT !.state = "error", !.cue = FALSE] \in End
  BY <1>1 DEF End
<1>3. cl' \in End /\ sv' \in End
  BY <1>2, SetEndFacts DEF HttpTyped, SendFails
<1>4. told' \in SUBSET {"complete", "error", "closed", "result", "nothing"}
  BY DEF HttpTyped, SendFails, Learn
<1> QED
  BY <1>3, <1>4 DEF HttpTyped, SendFails

\* What an end is after a write event took n of its buffer.
Drained(e, n) == [e EXCEPT !.buffer = Drop(@, n), !.armed = n < Len(e.buffer)]

LEMMA DrainedType ==
  ASSUME NEW e \in End, NEW n \in Nat
  PROVE  Drained(e, n) \in End
<1>1. Drop(e.buffer, n) \in Seq(Token)
  BY DropFacts DEF End
<1>2. (n < Len(e.buffer)) \in BOOLEAN
  OBVIOUS
<1> QED
  BY <1>1, <1>2 DEF Drained, End

LEMMA WriteEventTyped ==
  ASSUME HttpTyped, NEW end \in Sides, NEW n \in 0..Len(EndOf(end).buffer), WriteEvent(end, n)
  PROVE  HttpTyped'
<1> DEFINE e == EndOf(end)
           w == Drained(e, n)
<1>1. e \in End /\ e.buffer \in Seq(Token)
  BY EndOfType DEF HttpTyped, End
<1>2. n \in Nat
  BY <1>1, LenProperties
<1>3. w \in End /\ OnSend(end, w) \in End
  BY <1>1, <1>2, DrainedType, EndTypes
<1>4. link' \in [Sides -> Seq(Token)]
  BY <1>1, OutType DEF HttpTyped, WriteEvent
<1>5. SetEnd(end, IF w.buffer = <<>> THEN OnSend(end, w) ELSE w)
  BY DEF WriteEvent, Drained
<1> HIDE DEF e, w
<1>6. cl' \in End /\ sv' \in End
  BY <1>3, <1>5, SetEndFacts DEF HttpTyped
<1> QED
  BY <1>4, <1>6 DEF HttpTyped, WriteEvent

\* What a read does to an end, given what is new.
AfterRead(end, e, news) ==
  IF "complete" \in news
  THEN [e EXCEPT !.state = IF end = "client" THEN "completed" ELSE "waitForResponse"]
  ELSE IF "error" \in news THEN Failed(e) ELSE e
Learned(e, news) == (news \cap {"complete"}) \cup (IF "error" \in news THEN Error(e) ELSE {})

LEMMA ReadEventIs ==
  ASSUME NEW end \in Sides, NEW n, ReadEvent(end, n)
  PROVE  LET d == SubSeq(link[end], 1, n)
             q == Parse(parser[end], d, BodyLen)
             news == News(parser[end], q)
         IN  /\ CanRead(end, n)
             /\ link' = [link EXCEPT ![end] = Drop(@, n)]
             /\ parser' = [parser EXCEPT ![end] = q]
             /\ SetEnd(end, AfterRead(end, EndOf(end), news))
             /\ Learn(end, Learned(EndOf(end), news))
             /\ split' = IF Last(d) = "CR" THEN split \cup {end} ELSE split
BY Zenon DEF ReadEvent, News, AfterRead, Learned

LEMMA ReadEventTyped ==
  ASSUME HttpTyped, NEW end \in Sides, NEW n \in 0..Len(link[end]), ReadEvent(end, n)
  PROVE  HttpTyped' /\ Parsed(parser[end], Parse(parser[end], SubSeq(link[end], 1, n), BodyLen))
<1> DEFINE d == SubSeq(link[end], 1, n)
           q == Parse(parser[end], d, BodyLen)
           news == News(parser[end], q)
           e == EndOf(end)
<1>1. link[end] \in Seq(Token) /\ parser[end] \in Parser /\ e \in End
  BY EndOfType DEF HttpTyped
<1>2. n \in Nat /\ n <= Len(link[end])
  BY <1>1, LenProperties
<1>3. d \in Seq(Token) /\ Drop(link[end], n) \in Seq(Token)
  <2> DEFINE s == link[end]
  <2>1. s \in Seq(Token) /\ n \in Nat /\ n \in Int /\ n <= Len(s)
    BY <1>1, <1>2
  <2> HIDE DEF s
  <2>2. SubSeq(s, 1, n) \in Seq(Token) /\ Drop(s, n) \in Seq(Token)
    BY <2>1, TakeFacts, DropFacts
  <2> QED
    BY <2>2 DEF s
<1>4. Parsed(parser[end], q)
  BY <1>1, <1>3, ParseSays, BodyFacts
<1>5. /\ link' = [link EXCEPT ![end] = Drop(@, n)] /\ parser' = [parser EXCEPT ![end] = q]
      /\ SetEnd(end, AfterRead(end, e, news)) /\ Learn(end, Learned(e, news))
      /\ split' = IF Last(d) = "CR" THEN split \cup {end} ELSE split
  BY ReadEventIs, Zenon
<1>6. q \in Parser
  BY <1>4 DEF Parsed
<1> HIDE DEF d, q, news, e
<1>7. AfterRead(end, e, news) \in End
  <2>1. Failed(e) \in End
    BY <1>1, EndTypes
  <2>2. [e EXCEPT !.state = IF end = "client" THEN "completed" ELSE "waitForResponse"] \in End
    BY <1>1 DEF End
  <2> QED
    BY <1>1, <2>1, <2>2 DEF AfterRead
<1>8. Learned(e, news) \in SUBSET {"complete", "error", "closed", "result", "nothing"}
  BY DEF Learned, Error
<1>9. cl' \in End /\ sv' \in End
  BY <1>5, <1>7, SetEndFacts DEF HttpTyped
<1>10. told' \in SUBSET {"complete", "error", "closed", "result", "nothing"}
  BY <1>5, <1>8, LearnType DEF HttpTyped
<1>11. link' \in [Sides -> Seq(Token)] /\ parser' \in [Sides -> Parser]
  BY <1>3, <1>5, <1>6 DEF HttpTyped
<1>12. split' \in SUBSET Sides
  BY <1>5 DEF HttpTyped
<1> QED
  BY <1>4, <1>9, <1>10, <1>11, <1>12 DEF HttpTyped, q, d

LEMMA SetEOFType ==
  ASSUME NEW p \in Parser
  PROVE  SetEOF(p) \in Parser
BY DoneType DEF SetEOF, AtEOF, Stopped

LEMMA EndEventTyped ==
  ASSUME HttpTyped, NEW end \in Sides, EndEvent(end)
  PROVE  HttpTyped'
<1> DEFINE e == EndOf(end)
           f == [e EXCEPT !.up = FALSE, !.buffer = <<>>, !.armed = FALSE]
<1>1. e \in End /\ f \in End
  BY EndOfType, EndTypes DEF HttpTyped
<1>2. UNCHANGED <<link, split>>
  BY DEF EndEvent
<1>3. CASE EofCompletes(end, e)
  <2>1. /\ SetEnd(end, [f EXCEPT !.state = "completed"])
        /\ parser' = [parser EXCEPT ![end] = SetEOF(@)] /\ Learn(end, {"complete"})
    BY <1>3, Zenon DEF EndEvent
  <2> HIDE DEF e, f
  <2>2. [f EXCEPT !.state = "completed"] \in End
    BY <1>1 DEF End
  <2>3. cl' \in End /\ sv' \in End
    BY <2>1, <2>2, SetEndFacts DEF HttpTyped
  <2>4. told' \in SUBSET {"complete", "error", "closed", "result", "nothing"}
    BY <2>1, LearnType DEF HttpTyped
  <2>5. parser' \in [Sides -> Parser]
    BY <2>1, SetEOFType DEF HttpTyped
  <2> QED
    BY <1>2, <2>3, <2>4, <2>5 DEF HttpTyped
<1>4. CASE ~EofCompletes(end, e)
  <2>1. SetEnd(end, Failed(f)) /\ Learn(end, Error(e)) /\ UNCHANGED parser
    BY <1>4, Zenon DEF EndEvent
  <2> HIDE DEF e, f
  <2>2. Failed(f) \in End
    BY <1>1, EndTypes
  <2>3. cl' \in End /\ sv' \in End
    BY <2>1, <2>2, SetEndFacts DEF HttpTyped
  <2>4. Error(e) \in SUBSET {"complete", "error", "closed", "result", "nothing"}
    BY DEF Error
  <2>5. told' \in SUBSET {"complete", "error", "closed", "result", "nothing"}
    BY <2>1, <2>4, LearnType DEF HttpTyped
  <2> QED
    BY <1>2, <2>1, <2>3, <2>5 DEF HttpTyped
<1> QED
  BY <1>3, <1>4

LEMMA CloseEndTyped ==
  ASSUME HttpTyped, NEW end \in Sides, CloseEnd(end)
  PROVE  HttpTyped'
<1> DEFINE f == [EndOf(end) EXCEPT !.up = FALSE, !.buffer = <<>>, !.armed = FALSE, !.cue = FALSE]
<1>1. f \in End
  BY EndOfType, EmptyTokens, ZenonT(60) DEF HttpTyped, End
<1>2. SetEnd(end, f) /\ Learn(end, {"closed"}) /\ UNCHANGED <<parser, link, split>>
  BY DEF CloseEnd
<1> HIDE DEF f
<1>3. cl' \in End /\ sv' \in End
  BY <1>1, <1>2, SetEndFacts DEF HttpTyped
<1>4. told' \in SUBSET {"complete", "error", "closed", "result", "nothing"}
  BY <1>2, LearnType DEF HttpTyped
<1> QED
  BY <1>2, <1>3, <1>4 DEF HttpTyped

-----------------------------------------------------------------------------
(* The end of a request is told once.                                      *)

OnceInv == HttpTyped /\ OverWhenTold /\ EndsOnce

\* A step that tells no end, and leaves a client that is over as it is.
LEMMA NothingTold ==
  ASSUME OverWhenTold, EndsOnce,
         IsOver(cl) => IsOver(cl)' /\ (cl'.up => cl.up),
         parser["client"].readState = "error" => parser'["client"].readState = "error",
         told' \subseteq told \cup {"closed", "result", "nothing"}
  PROVE  OverWhenTold' /\ EndsOnce'
<1>1. /\ "complete" \in told' => "complete" \in told
      /\ "error" \in told' => "error" \in told
  OBVIOUS
<1>2. EndsOnce'
  BY <1>1 DEF EndsOnce
<1>3. ("complete" \in told => IsOver(cl))'
  BY <1>1 DEF OverWhenTold
<1>4. ("error" \in told => IsOver(cl) /\ (~cl.up \/ parser["client"].readState = "error"))'
  <2>1. SUFFICES ASSUME "error" \in told'
                 PROVE  IsOver(cl)' /\ (~cl'.up \/ parser'["client"].readState = "error")
    OBVIOUS
  <2>2. IsOver(cl) /\ (~cl.up \/ parser["client"].readState = "error")
    BY <1>1, <2>1 DEF OverWhenTold
  <2> QED
    BY <2>2, Zenon
<1> QED
  BY <1>2, <1>3, <1>4 DEF OverWhenTold

\* Sends leave an end that is over as it is.
LEMMA OverStays ==
  ASSUME NEW e \in End, NEW end \in Sides
  PROVE  /\ Drained(e, 0).state = e.state
         /\ \A n \in Nat : Drained(e, n).state = e.state /\ Drained(e, n).up = e.up
         /\ IsOver(e) => OnSend(end, e).state = e.state /\ OnSend(end, e).up = e.up
<1>1. \A n \in Nat : Drained(e, n).state = e.state /\ Drained(e, n).up = e.up
  BY DEF Drained, End
<1>2. IsOver(e) => OnSend(end, e).state = e.state /\ OnSend(end, e).up = e.up
  <2> SUFFICES ASSUME IsOver(e) PROVE OnSend(end, e).state = e.state /\ OnSend(end, e).up = e.up
    OBVIOUS
  <2>1. e.state # "sendingHeader" /\ e.state # "sendingBody"
    BY DEF IsOver
  <2>2. OnSend(end, e) = [e EXCEPT !.cue = e.cue \/ end = "client"]
    BY <2>1 DEF OnSend
  <2> QED
    BY <2>2 DEF End
<1> QED
  BY <1>1, <1>2

LEMMA SendDataOnce ==
  ASSUME OnceInv, NEW end \in Sides, NEW n, SendData(end, n)
  PROVE  OverWhenTold' /\ EndsOnce'
<1> DEFINE e == EndOf(end)
           data == Due(end, e)
<1>1. cl \in End /\ sv \in End /\ UNCHANGED <<parser, told>>
  BY DEF OnceInv, HttpTyped, SendData
<1>2. IsOver(cl) => IsOver(cl)' /\ (cl'.up => cl.up)
  <2> SUFFICES ASSUME IsOver(cl) PROVE IsOver(cl)' /\ (cl'.up => cl.up)
    OBVIOUS
  <2>1. CASE end = "server"
    <3>1. cl' = cl
      <4>1. PICK f : SetEnd(end, f)
        BY Zenon DEF SendData
      <4> QED
        BY <2>1, <4>1 DEF SetEnd
    <3> QED
      BY <3>1 DEF IsOver
  <2>2. CASE end = "client"
    <3>1. ~CanSend(e)
      BY <2>2 DEF CanSend, IsOver, EndOf
    <3>2. cl' = [cl EXCEPT !.cue = FALSE]
      BY <2>2, <3>1 DEF SendData, SetEnd, EndOf
    <3> QED
      BY <1>1, <3>2 DEF End, IsOver
  <2> QED
    BY <2>1, <2>2 DEF Sides
<1> QED
  BY <1>1, <1>2, NothingTold DEF OnceInv

LEMMA SendFailsOnce ==
  ASSUME OnceInv, NEW end \in Sides, SendFails(end)
  PROVE  OverWhenTold' /\ EndsOnce'
<1>1. cl \in End /\ sv \in End /\ UNCHANGED parser /\ told' \subseteq told \cup {"closed", "result", "nothing"}
  BY DEF OnceInv, HttpTyped, SendFails, Learn
<1>2. IsOver(cl) => IsOver(cl)' /\ (cl'.up => cl.up)
  <2>1. CASE end = "server"
    BY <2>1 DEF SendFails, SetEnd, IsOver
  <2>2. CASE end = "client"
    BY <2>2 DEF SendFails, CanSend, IsOver, EndOf
  <2> QED
    BY <2>1, <2>2 DEF Sides
<1> QED
  BY <1>1, <1>2, NothingTold DEF OnceInv

LEMMA WriteEventOnce ==
  ASSUME OnceInv, NEW end \in Sides, NEW n \in Nat, WriteEvent(end, n)
  PROVE  OverWhenTold' /\ EndsOnce'
<1> DEFINE w == Drained(EndOf(end), n)
<1>1. cl \in End /\ sv \in End /\ UNCHANGED <<parser, told>>
  BY DEF OnceInv, HttpTyped, WriteEvent
<1>2. SetEnd(end, IF w.buffer = <<>> THEN OnSend(end, w) ELSE w)
  BY DEF WriteEvent, Drained
<1>3. IsOver(cl) => IsOver(cl)' /\ (cl'.up => cl.up)
  <2> SUFFICES ASSUME IsOver(cl) PROVE IsOver(cl)' /\ (cl'.up => cl.up)
    OBVIOUS
  <2>1. CASE end = "server"
    BY <1>2, <2>1 DEF SetEnd, IsOver
  <2>2. CASE end = "client"
    <3>1. EndOf(end) = cl
      BY <2>2 DEF EndOf
    <3>2. w \in End /\ w.state = cl.state /\ w.up = cl.up
      BY <1>1, <3>1, DrainedType, OverStays
    <3>3. IsOver(w)
      BY <3>2 DEF IsOver
    <3>4. OnSend(end, w).state = w.state /\ OnSend(end, w).up = w.up
      BY <3>2, <3>3, OverStays
    <3>5. cl' = w \/ cl' = OnSend(end, w)
      BY <1>2, <2>2 DEF SetEnd
    <3> HIDE DEF w
    <3>6. cl'.state = cl.state /\ cl'.up = cl.up
      BY <3>2, <3>4, <3>5
    <3> QED
      BY <3>6 DEF IsOver
  <2> QED
    BY <2>1, <2>2 DEF Sides
<1> QED
  BY <1>1, <1>3, NothingTold DEF OnceInv

\* Connections, responses and close.
LEMMA AppOnce ==
  ASSUME OnceInv
  PROVE  /\ ConnectError => OverWhenTold' /\ EndsOnce'
         /\ \A body, n : Connected(body, n) => OverWhenTold' /\ EndsOnce'
         /\ \A status, body, n : SendResponse(status, body, n) => OverWhenTold' /\ EndsOnce'
         /\ \A end \in Sides : CloseEnd(end) => OverWhenTold' /\ EndsOnce'
<1>0. OverWhenTold /\ EndsOnce /\ cl \in End /\ sv \in End
  BY DEF OnceInv, HttpTyped
<1>1. ASSUME ConnectError PROVE OverWhenTold' /\ EndsOnce'
  <2>1. ~IsOver(cl) /\ UNCHANGED parser /\ told' \subseteq told \cup {"closed", "result", "nothing"}
    BY <1>1 DEF ConnectError, IsOver
  <2> QED
    BY <1>0, <2>1, NothingTold
<1>2. ASSUME NEW body, NEW n, Connected(body, n) PROVE OverWhenTold' /\ EndsOnce'
  <2>1. ~IsOver(cl) /\ UNCHANGED <<parser, told>>
    BY <1>2 DEF Connected, IsOver
  <2> QED
    BY <1>0, <2>1, NothingTold
<1>3. ASSUME NEW status, NEW body, NEW n, SendResponse(status, body, n) PROVE OverWhenTold' /\ EndsOnce'
  <2>1. UNCHANGED <<cl, parser, told>>
    BY <1>3 DEF SendResponse
  <2>2. IsOver(cl) => IsOver(cl)' /\ (cl'.up => cl.up)
    BY <2>1 DEF IsOver
  <2> QED
    BY <1>0, <2>1, <2>2, NothingTold
<1>4. ASSUME NEW end \in Sides, CloseEnd(end) PROVE OverWhenTold' /\ EndsOnce'
  <2>1. UNCHANGED parser /\ told' \subseteq told \cup {"closed", "result", "nothing"}
    BY <1>4 DEF CloseEnd, Learn
  <2>2. IsOver(cl) => IsOver(cl)' /\ (cl'.up => cl.up)
    <3>1. CASE end = "server"
      BY <1>4, <3>1 DEF CloseEnd, SetEnd, IsOver
    <3>2. CASE end = "client"
      BY <1>0, <1>4, <3>2, ZenonT(60) DEF CloseEnd, SetEnd, EndOf, IsOver, End
    <3> QED
      BY <3>1, <3>2 DEF Sides
  <2> QED
    BY <1>0, <2>1, <2>2, NothingTold
<1> QED
  BY <1>1, <1>2, <1>3, <1>4

LEMMA ReadEventOnce ==
  ASSUME OnceInv, NEW end \in Sides, NEW n \in 0..Len(link[end]), ReadEvent(end, n)
  PROVE  OverWhenTold' /\ EndsOnce'
<1> DEFINE p == parser[end]
           q == Parse(p, SubSeq(link[end], 1, n), BodyLen)
           news == News(p, q)
           e == EndOf(end)
<1>1. cl \in End /\ sv \in End /\ parser \in [Sides -> Parser] /\ OverWhenTold /\ EndsOnce
  BY DEF OnceInv, HttpTyped
<1>2. /\ CanRead(end, n) /\ parser' = [parser EXCEPT ![end] = q]
      /\ SetEnd(end, AfterRead(end, e, news)) /\ Learn(end, Learned(e, news))
  BY ReadEventIs, Zenon
<1>3. Parsed(p, q)
  BY ReadEventTyped DEF OnceInv
<1>4. p \in Parser /\ e.up
  BY <1>1, <1>2 DEF CanRead
<1> HIDE DEF q, news
<1>5. CASE end = "server"
  <2>1. cl' = cl /\ told' = told /\ parser'["client"] = parser["client"]
    BY <1>1, <1>2, <1>5 DEF SetEnd, Learn, Sides
  <2>2. IsOver(cl) => IsOver(cl)' /\ (cl'.up => cl.up)
    BY <2>1 DEF IsOver
  <2> QED
    BY <1>1, <2>1, <2>2, NothingTold
<1>6. CASE end = "client"
  <2>1. /\ e = cl /\ cl' = AfterRead(end, cl, news) /\ told' = told \cup Learned(cl, news)
        /\ p = parser["client"] /\ parser'["client"] = q
    BY <1>1, <1>2, <1>6 DEF SetEnd, Learn, EndOf, Sides
  <2>2. CASE "complete" \in news
    <3>1. q.readState = "done" /\ p.readState \notin Stopped
      BY <1>3, <2>2 DEF Parsed, news
    <3>2. "error" \notin news
      BY <1>3, <3>1 DEF Parsed, news
    <3>3. "error" \notin told
      BY <1>1, <1>4, <2>1, <3>1 DEF OverWhenTold, Stopped
    <3>4. told' = told \cup {"complete"}
      BY <2>1, <2>2, <3>2 DEF Learned
    <3>5. cl' = [cl EXCEPT !.state = "completed"]
      BY <1>6, <2>1, <2>2 DEF AfterRead
    <3>6. cl'.state = "completed"
      BY <1>1, <3>5 DEF End
    <3>7. "error" \notin told' /\ IsOver(cl)'
      BY <3>3, <3>4, <3>6 DEF IsOver
    <3> QED
      BY <3>7 DEF OverWhenTold, EndsOnce
  <2>3. CASE "complete" \notin news /\ "error" \in news
    <3>1. q.readState = "error"
      BY <1>3, <2>3 DEF Parsed, news
    <3>2. cl' = Failed(cl) /\ told' = told \cup Error(cl)
      BY <2>1, <2>3 DEF AfterRead, Learned
    <3>3. cl'.state \in {"closed", "error"}
      BY <1>1, <3>2 DEF Failed, End
    <3>4. IsOver(cl)' /\ parser'["client"].readState = "error"
      BY <2>1, <3>1, <3>3 DEF IsOver
    <3>5. EndsOnce'
      <4>1. CASE IsOver(cl)
        BY <1>1, <3>2, <4>1 DEF Error, EndsOnce
      <4>2. CASE ~IsOver(cl)
        BY <1>1, <3>2, <4>2 DEF Error, EndsOnce, OverWhenTold
      <4> QED
        BY <4>1, <4>2
    <3> QED
      BY <3>4, <3>5 DEF OverWhenTold
  <2>4. CASE "complete" \notin news /\ "error" \notin news
    <3>1. cl' = cl /\ told' = told
      BY <2>1, <2>4 DEF AfterRead, Learned
    <3>2. p.readState = "error" => q.readState = "error"
      BY <1>3 DEF Parsed, Stopped
    <3>3. IsOver(cl) => IsOver(cl)' /\ (cl'.up => cl.up)
      BY <3>1 DEF IsOver
    <3> QED
      BY <1>1, <2>1, <3>1, <3>2, <3>3, NothingTold
  <2> QED
    BY <2>2, <2>3, <2>4
<1> QED
  BY <1>5, <1>6 DEF Sides

LEMMA EndEventOnce ==
  ASSUME OnceInv, NEW end \in Sides, EndEvent(end)
  PROVE  OverWhenTold' /\ EndsOnce'
<1> DEFINE e == EndOf(end)
           f == [e EXCEPT !.up = FALSE, !.buffer = <<>>, !.armed = FALSE]
<1>1. cl \in End /\ sv \in End /\ parser \in [Sides -> Parser] /\ OverWhenTold /\ EndsOnce
  BY DEF OnceInv, HttpTyped
<1>2. CASE EofCompletes(end, e)
  <2>1. /\ SetEnd(end, [f EXCEPT !.state = "completed"]) /\ Learn(end, {"complete"})
    BY <1>2, Zenon DEF EndEvent
  <2>2. end = "client" /\ e = cl /\ cl.state = "receivingResponse"
    BY <1>2 DEF EofCompletes, EndOf
  <2>3. "error" \notin told
    BY <1>1, <2>2 DEF OverWhenTold, IsOver
  <2>4. cl' = [f EXCEPT !.state = "completed"] /\ told' = told \cup {"complete"}
    BY <2>1, <2>2 DEF SetEnd, Learn
  <2>5. cl'.state = "completed"
    BY <1>1, <2>2, <2>4 DEF End
  <2>6. "error" \notin told' /\ IsOver(cl)'
    BY <2>3, <2>4, <2>5 DEF IsOver
  <2> QED
    BY <2>6 DEF OverWhenTold, EndsOnce
<1>3. CASE ~EofCompletes(end, e)
  <2>1. SetEnd(end, Failed(f)) /\ Learn(end, Error(e)) /\ UNCHANGED parser
    BY <1>3, Zenon DEF EndEvent
  <2>2. CASE end = "server"
    <3>1. cl' = cl /\ told' = told
      BY <2>1, <2>2 DEF SetEnd, Learn
    <3>2. IsOver(cl) => IsOver(cl)' /\ (cl'.up => cl.up)
      BY <3>1 DEF IsOver
    <3> QED
      BY <1>1, <2>1, <3>1, <3>2, NothingTold
  <2>3. CASE end = "client"
    <3>1. e = cl /\ cl' = Failed(f) /\ told' = told \cup Error(cl)
      BY <2>1, <2>3 DEF SetEnd, Learn, EndOf
    <3>2. cl'.state \in {"closed", "error"} /\ cl'.up = FALSE
      BY <1>1, <3>1 DEF Failed, End
    <3>3. IsOver(cl)' /\ ~cl'.up
      BY <3>2 DEF IsOver
    <3>4. EndsOnce'
      <4>1. CASE IsOver(cl)
        BY <1>1, <3>1, <4>1 DEF Error, EndsOnce
      <4>2. CASE ~IsOver(cl)
        BY <1>1, <3>1, <4>2 DEF Error, EndsOnce, OverWhenTold
      <4> QED
        BY <4>1, <4>2
    <3> QED
      BY <3>3, <3>4 DEF OverWhenTold
  <2> QED
    BY <2>2, <2>3 DEF Sides
<1> QED
  BY <1>2, <1>3

\* The steps of one end, with how many bytes they take.
LEMMA StepsTake ==
  ASSUME HttpTyped, NEW end \in Sides
  PROVE  /\ Reads(end) => \E n \in 0..Len(link[end]) : ReadEvent(end, n)
         /\ Writes(end) => \E n \in 0..Len(EndOf(end).buffer) : WriteEvent(end, n)
         /\ SendsSome(end) \/ SendData(end, 0) =>
              SendFails(end) \/ \E n \in 0..Len(Due(end, EndOf(end))) : SendData(end, n)
<1>1. /\ link[end] \in Seq(Token) /\ EndOf(end).buffer \in Seq(Token)
      /\ Due(end, EndOf(end)) \in Seq(Token)
  BY EndOfType, SentBytes DEF HttpTyped, End
<1>2. /\ Some(link[end]) \subseteq 0..Len(link[end])
      /\ Some(EndOf(end).buffer) \subseteq 0..Len(EndOf(end).buffer)
      /\ Some(Due(end, EndOf(end))) \subseteq 0..Len(Due(end, EndOf(end)))
      /\ Len(Due(end, EndOf(end))) \in Nat
  BY <1>1, SomeFacts
<1>3. 0 \in 0..Len(Due(end, EndOf(end)))
  BY <1>2
<1> QED
  BY <1>2, <1>3, Zenon DEF Reads, Writes, SendsSome

LEMMA HttpInitOnce == HttpInit => OnceInv
<1> SUFFICES ASSUME HttpInit PROVE OnceInv
  OBVIOUS
<1>1. cl \in End /\ sv \in End
  BY EmptyTokens, BodyFacts DEF HttpInit, NewEnd, End
<1>2. HttpTyped
  BY <1>1, IdleType, EmptyTokens DEF HttpInit, HttpTyped
<1> QED
  BY <1>2 DEF HttpInit, OnceInv, OverWhenTold, EndsOnce

LEMMA OnceStep == OnceInv /\ [HttpNext]_httpVars => OnceInv'
<1> SUFFICES ASSUME OnceInv, [HttpNext]_httpVars PROVE OnceInv'
  OBVIOUS
<1> USE DEF OnceInv
<1>0. HttpTyped
  OBVIOUS
<1>1. CASE Connects
  <2>1. CASE ConnectError
    BY <2>1, ConnectErrorTyped, AppOnce
  <2>2. CASE \E body \in Bodies : \E n \in Some(Headers("request", body)) : Connected(body, n)
    BY <2>2, ConnectedTyped, AppOnce
  <2> QED
    BY <1>1, <2>1, <2>2 DEF Connects
<1>2. CASE Responds
  <2>1. PICK rsp \in Answer : \E n \in Some(Headers(rsp[1], rsp[2])) : SendResponse(rsp[1], rsp[2], n)
    BY <1>2, Zenon DEF Responds, Answer
  <2> QED
    BY <2>1, SendResponseTyped, AppOnce
<1>3. ASSUME NEW end \in Sides,
             Reads(end) \/ Writes(end) \/ EndEvent(end) \/ SendsSome(end) \/ SendData(end, 0) \/ CloseEnd(end)
      PROVE  OnceInv'
  <2>1. ASSUME NEW n \in 0..Len(link[end]), ReadEvent(end, n) PROVE OnceInv'
    BY <2>1, ReadEventTyped, ReadEventOnce
  <2>2. ASSUME NEW n \in 0..Len(EndOf(end).buffer), WriteEvent(end, n) PROVE OnceInv'
    <3>1. n \in Nat
      OBVIOUS
    <3> QED
      BY <2>2, <3>1, WriteEventTyped, WriteEventOnce
  <2>3. ASSUME EndEvent(end) PROVE OnceInv'
    BY <2>3, EndEventTyped, EndEventOnce
  <2>4. ASSUME SendFails(end) PROVE OnceInv'
    BY <2>4, SendFailsTyped, SendFailsOnce
  <2>5. ASSUME NEW n \in 0..Len(Due(end, EndOf(end))), SendData(end, n) PROVE OnceInv'
    BY <2>5, SendDataTyped, SendDataOnce
  <2>6. ASSUME CloseEnd(end) PROVE OnceInv'
    BY <2>6, CloseEndTyped, AppOnce
  <2> QED
    BY <1>0, <1>3, <2>1, <2>2, <2>3, <2>4, <2>5, <2>6, StepsTake, Zenon
<1>4. CASE UNCHANGED httpVars
  <2>1. UNCHANGED <<cl, sv, parser, link, told, split>>
    BY <1>4 DEF httpVars
  <2> QED
    BY <2>1 DEF HttpTyped, OverWhenTold, EndsOnce, IsOver
<1> QED
  BY <1>1, <1>2, <1>3, <1>4 DEF HttpNext

\* Of one request the client's application hears of completion or of an error, never
\* of both, wherever its connection fails.
THEOREM RequestEndsOnce == HttpSpec => []EndsOnce
<1>1. OnceInv => EndsOnce
  BY DEF OnceInv
<1> QED
  BY <1>1, HttpInitOnce, OnceStep, PTL DEF HttpSpec

-----------------------------------------------------------------------------
(* A message, byte by byte.                                                *)

\* What an end says: its first line, its header line, and how its body is framed.
Lines == {"length", "chunked"}
Said(first, line, body) == [first |-> first, line |-> line, body |-> body]
Message == {Said("request", "none", "none"), Said("request", "length", "length"),
            Said("request", "chunked", "chunked"), Said("204", "none", "none"),
            Said("200", "length", "open"), Said("200", "chunked", "open")}
MessageOf(end, e) ==
  LET line == IF e.body \in Lines THEN e.body ELSE "none" IN
  IF end = "client" THEN Said("request", line, line)
  ELSE IF line = "none" THEN Said("204", line, line) ELSE Said("200", line, "open")

HeadLen(m) == IF m.line = "none" THEN 6 ELSE 10
HeadByte(m, x) ==
  IF x = 1 THEN m.first
  ELSE IF x = 5 /\ m.line # "none" THEN m.line
  ELSE IF x = 2 \/ (x = 6 /\ m.line # "none") THEN "rest"
  ELSE IF x \in {3, 7, HeadLen(m) - 1} THEN "CR" ELSE "LF"
\* Byte r of a chunk of which Body[i + 1] is the data, or of the last one.
ChunkByte(i, r) ==
  IF i < BodyLen
  THEN CASE r = 1 -> "size1" [] r = 2 -> "CR" [] r = 3 -> "LF" [] r = 4 -> Body[i + 1]
         [] r = 5 -> "CR" [] OTHER -> "LF"
  ELSE CASE r = 1 -> "size0" [] r = 2 -> "CR" [] r = 3 -> "LF" [] r = 4 -> "CR" [] OTHER -> "LF"
ByteAt(m, x) ==
  LET y == x - HeadLen(m) IN
  IF y <= 0 THEN HeadByte(m, x)
  ELSE IF m.body = "chunked" THEN ChunkByte((y - 1) \div 6, 1 + ((y - 1) % 6)) ELSE Body[y]

\* s is what m has after its first k bytes.
Carries(m, k, s) == \A i \in 1..Len(s) : s[i] = ByteAt(m, k + i)

\* The parser has saved what m has from a to k.
Saves(m, p, a, k) == Len(p.savedString) = k - a /\ Carries(m, a, p.savedString)

\* It has said that the head is there, then j bytes of the body, then the end.
Says(p, j) ==
  /\ Len(p.events) = 1 + j /\ p.events[1] = "header"
  /\ \A i \in 1..j : p.events[1 + i] = Body[i]
SaysAll(p, j) ==
  /\ Len(p.events) = 2 + j /\ p.events[1] = "header" /\ p.events[2 + j] = "complete"
  /\ \A i \in 1..j : p.events[1 + i] = Body[i]

\* Where the parser can be after k bytes of m.
InHead(m, p, k) ==
  /\ p.events = <<>> /\ p.chunkState = "size" /\ p.totalBytesRead = 0
  /\ \/ /\ p.readState = "line" /\ p.start = "none" /\ p.headers = {}
        /\ k <= 2 /\ Saves(m, p, 0, k)
     \/ /\ p.readState = "head" /\ p.start = m.first /\ p.headers = {}
        /\ m.line # "none" /\ 4 <= k /\ k <= 6 /\ Saves(m, p, 4, k)
     \/ /\ p.readState = "head" /\ p.start = m.first /\ p.headers = {m.line} \ {"none"}
        /\ k = HeadLen(m) - 2 /\ p.savedString = <<>>
InPlain(m, p, k) ==
  /\ p.readState = "body" /\ m.body \in {"length", "open"} /\ p.start = m.first /\ p.headers = {m.line}
  /\ p.totalBytesRead \in 0..BodyLen /\ (m.body = "length" => p.totalBytesRead < BodyLen)
  /\ k = HeadLen(m) + p.totalBytesRead /\ Says(p, p.totalBytesRead)
InChunk(m, p, k) ==
  /\ p.readState = "body" /\ m.body = "chunked" /\ p.start = m.first /\ p.headers = {m.line}
  /\ \E i \in 0..BodyLen :
       LET base == HeadLen(m) + 6 * i IN
       \/ /\ p.chunkState = "size" /\ k \in base..(base + 1) /\ Saves(m, p, base, k) /\ Says(p, i)
       \/ /\ p.chunkState = "data" /\ i < BodyLen /\ k = base + 3 /\ p.chunkSize = 1
          /\ p.savedString = <<>> /\ Says(p, i)
       \/ /\ p.chunkState = "data_cr" /\ i < BodyLen /\ k = base + 4
          /\ p.savedString = <<>> /\ Says(p, i + 1)
       \/ /\ p.chunkState = "data_lf" /\ i < BodyLen /\ k = base + 5
          /\ p.savedString = <<>> /\ Says(p, i + 1)
       \/ /\ p.chunkState = "trailer" /\ i = BodyLen /\ k = base + 3
          /\ p.savedString = <<>> /\ Says(p, i)
IsDone(m, p, k) ==
  /\ p.readState = "done" /\ k >= HeadLen(m)
  /\ CASE m.body = "none" -> SaysAll(p, 0)
       [] m.body = "open" -> \E j \in 0..BodyLen : SaysAll(p, j)
       [] OTHER -> SaysAll(p, BodyLen)
Stands(m, p, k) == InHead(m, p, k) \/ InPlain(m, p, k) \/ InChunk(m, p, k) \/ IsDone(m, p, k)

-----------------------------------------------------------------------------
(* The inductive invariant of the two directions.                          *)

\* What an end has given to its connection so far.
Begun(end, e) == IF end = "client" THEN e.state # "connecting" ELSE e.body # "none"
Given(m, e) == CASE m.body = "none" -> 0
                 [] m.body = "chunked" -> 6 * e.sent + (IF e.completed THEN 5 ELSE 0)
                 [] OTHER -> e.sent
Handed(end, e) ==
  IF Begun(end, e) THEN HeadLen(MessageOf(end, e)) + Given(MessageOf(end, e), e) ELSE 0

\* The peer's parser, the bytes on their way and the send buffer, one behind the other,
\* are what was given; the buffer is lost with the connection.
Flows(m, given, p, way, e) ==
  \E k \in Nat :
    /\ Stands(m, p, k) /\ Carries(m, k, way) /\ k + Len(way) <= given
    /\ e.up => /\ Carries(m, k + Len(way), e.buffer)
               /\ k + Len(way) + Len(e.buffer) = given
FlowOf(end, e, p, way) == Flows(MessageOf(end, e), Handed(end, e), p, way, e)
Flow(end) ==
  Peer(end) \notin split => FlowOf(end, EndOf(end), parser[Peer(end)], link[Peer(end)])

\* An end sends a body only if its headers announced one, and counts what it sends of
\* it; a server that has not answered has given nothing.
EndSound(end, e) ==
  /\ e.state = "sendingBody" => e.body \in Lines
  /\ end = "client" => e.body # "bodyless" /\ (e.body = "chunked" /\ e.completed => e.sent = BodyLen)
  /\ end = "server" => /\ e.body = "none" => /\ e.buffer = <<>> /\ e.sent = 0 /\ ~e.completed
                                             /\ e.state # "sendingHeader"
                       /\ e.state = "waitForResponse" => e.body = "none"

\* Before there is a connection nothing has happened; the server answers a request of
\* which it has seen the end.
Before ==
  cl.state = "connecting" =>
    /\ ~cl.up /\ cl.buffer = <<>> /\ cl.sent = 0 /\ ~cl.completed
    /\ ~sv.up /\ sv.state = "idle" /\ sv.body = "none"
Answering == sv.state = "waitForResponse" \/ sv.body # "none" => parser["server"].readState = "done"

IntactInv ==
  /\ HttpTyped /\ EndSound("client", cl) /\ EndSound("server", sv) /\ Before /\ Answering
  /\ Flow("client") /\ Flow("server")

-----------------------------------------------------------------------------
(* The bytes of a message.                                                 *)

LEMMA MessageTypes ==
  ASSUME NEW m \in Message
  PROVE  /\ HeadLen(m) \in {6, 10} /\ (m.line = "none" <=> HeadLen(m) = 6)
         /\ m.line \in {"none", "length", "chunked"} /\ m.first \in {"request", "200", "204"}
         /\ m.body \in {"none", "length", "chunked", "open"} /\ (m.body = "none" <=> m.line = "none")
         /\ m.first = "request" => m.body = m.line
         /\ m.first = "200" <=> m.body = "open"
         /\ m.first = "204" => m.body = "none"
BY DEF Message, Said, HeadLen

LEMMA HeadBytes ==
  ASSUME NEW m \in Message
  PROVE  /\ ByteAt(m, 1) = m.first /\ ByteAt(m, 2) = "rest" /\ ByteAt(m, 3) = "CR" /\ ByteAt(m, 4) = "LF"
         /\ m.line # "none" => /\ ByteAt(m, 5) = m.line /\ ByteAt(m, 6) = "rest"
                               /\ ByteAt(m, 7) = "CR" /\ ByteAt(m, 8) = "LF"
         /\ ByteAt(m, HeadLen(m) - 1) = "CR" /\ ByteAt(m, HeadLen(m)) = "LF"
<1>1. CASE m.line = "none"
  <2>1. HeadLen(m) = 6
    BY <1>1, MessageTypes
  <2> QED
    BY <1>1, <2>1 DEF ByteAt, HeadByte
<1>2. CASE m.line # "none"
  <2>1. HeadLen(m) = 10
    BY <1>2, MessageTypes
  <2> QED
    BY <1>2, <2>1 DEF ByteAt, HeadByte
<1> QED
  BY <1>1, <1>2

LEMMA PlainBytes ==
  ASSUME NEW m \in Message, m.body # "chunked", NEW j \in Nat \ {0}
  PROVE  ByteAt(m, HeadLen(m) + j) = Body[j]
<1>1. HeadLen(m) \in Nat
  BY MessageTypes
<1>2. (HeadLen(m) + j) - HeadLen(m) = j /\ ~(j <= 0)
  BY <1>1
<1> QED
  BY <1>2 DEF ByteAt

LEMMA ChunkBytes ==
  ASSUME NEW m \in Message, m.body = "chunked", NEW i \in Nat, NEW r \in 1..6
  PROVE  ByteAt(m, HeadLen(m) + 6 * i + r) = ChunkByte(i, r)
<1> DEFINE y == 6 * i + r
<1>1. HeadLen(m) \in Nat
  BY MessageTypes
<1>2. (HeadLen(m) + 6 * i + r) - HeadLen(m) = y /\ ~(y <= 0)
  BY <1>1
<1>3. (y - 1) \div 6 = i /\ 1 + ((y - 1) % 6) = r
  OBVIOUS
<1> QED
  BY <1>2, <1>3 DEF ByteAt

\* Slices of what a message has.
LEMMA CarriesFacts ==
  ASSUME NEW m, NEW k \in Nat, NEW s \in Seq(Token), NEW n \in 0..Len(s), Carries(m, k, s)
  PROVE  /\ Carries(m, k, SubSeq(s, 1, n)) /\ Len(SubSeq(s, 1, n)) = n
         /\ Carries(m, k + n, Drop(s, n)) /\ Len(Drop(s, n)) = Len(s) - n
<1>1. n \in Nat /\ n \in Int /\ n <= Len(s) /\ Len(s) \in Nat
  BY LenProperties
<1>2. Len(SubSeq(s, 1, n)) = n /\ \A i \in 1..n : SubSeq(s, 1, n)[i] = s[i]
  BY <1>1, TakeFacts
<1>3. Len(Drop(s, n)) = Len(s) - n /\ \A i \in 1..(Len(s) - n) : Drop(s, n)[i] = s[n + i]
  BY <1>1, DropFacts
<1>4. Carries(m, k, SubSeq(s, 1, n))
  BY <1>1, <1>2 DEF Carries
<1>5. Carries(m, k + n, Drop(s, n))
  <2>1. ASSUME NEW i \in 1..Len(Drop(s, n)) PROVE Drop(s, n)[i] = ByteAt(m, (k + n) + i)
    <3>1. i \in 1..(Len(s) - n) /\ n + i \in 1..Len(s) /\ k + (n + i) = (k + n) + i
      BY <1>1, <1>3
    <3> QED
      BY <1>3, <3>1 DEF Carries
  <2> QED
    BY <2>1 DEF Carries
<1> QED
  BY <1>2, <1>3, <1>4, <1>5

LEMMA CarriesConcat ==
  ASSUME NEW m, NEW k \in Nat, NEW s \in Seq(Token), NEW t \in Seq(Token),
         Carries(m, k, s), Carries(m, k + Len(s), t)
  PROVE  Carries(m, k, s \o t) /\ Len(s \o t) = Len(s) + Len(t) /\ s \o t \in Seq(Token)
<1>1. /\ s \o t \in Seq(Token) /\ Len(s \o t) = Len(s) + Len(t)
      /\ \A i \in 1..(Len(s) + Len(t)) : (s \o t)[i] = IF i <= Len(s) THEN s[i] ELSE t[i - Len(s)]
      /\ Len(s) \in Nat /\ Len(t) \in Nat
  BY ConcatProperties, LenProperties
<1>2. ASSUME NEW i \in 1..(Len(s) + Len(t)) PROVE (s \o t)[i] = ByteAt(m, k + i)
  <2>1. CASE i <= Len(s)
    BY <1>1, <2>1 DEF Carries
  <2>2. CASE ~(i <= Len(s))
    <3>1. i - Len(s) \in 1..Len(t) /\ (k + Len(s)) + (i - Len(s)) = k + i
      BY <1>1, <2>2
    <3> QED
      BY <1>1, <2>2, <3>1 DEF Carries
  <2> QED
    BY <2>1, <2>2
<1> QED
  BY <1>1, <1>2 DEF Carries

\* The headers an end sends are the head of its message.
LEMMA HeadersCarry ==
  ASSUME NEW m \in Message
  PROVE  Carries(m, 0, Headers(m.first, m.line)) /\ Len(Headers(m.first, m.line)) = HeadLen(m)
<1> DEFINE a == Line(m.first)
           b == IF m.line = "none" THEN <<>> ELSE Line(m.line)
<1>1. m.first \in Token /\ "rest" \in Token /\ "CR" \in Token /\ "LF" \in Token
      /\ (m.line # "none" => m.line \in Token)
  BY MessageTypes DEF Token
<1>2. a \in Seq(Token) /\ b \in Seq(Token) /\ EndOfLine \in Seq(Token)
  <2>1. a \in Seq(Token) /\ EndOfLine \in Seq(Token)
    BY <1>1 DEF Line, EndOfLine
  <2>2. m.line # "none" => Line(m.line) \in Seq(Token)
    BY <1>1 DEF Line
  <2> QED
    BY <2>1, <2>2, EmptyTokens
<1>3. Carries(m, 0, a) /\ Len(a) = 4
  <2>1. Len(a) = 4 /\ a[1] = m.first /\ a[2] = "rest" /\ a[3] = "CR" /\ a[4] = "LF"
    BY DEF Line
  <2>2. \A i \in 1..4 : i = 1 \/ i = 2 \/ i = 3 \/ i = 4
    OBVIOUS
  <2> HIDE DEF a
  <2> QED
    BY <2>1, <2>2, HeadBytes DEF Carries
<1>4. Carries(m, 4, b) /\ Len(b) = HeadLen(m) - 6
  <2>1. CASE m.line = "none"
    <3>1. b = <<>> /\ Len(b) = 0 /\ HeadLen(m) = 6
      BY <2>1, MessageTypes
    <3> QED
      BY <3>1 DEF Carries
  <2>2. CASE m.line # "none"
    <3>1. HeadLen(m) = 10 /\ Len(b) = 4 /\ b[1] = m.line /\ b[2] = "rest" /\ b[3] = "CR" /\ b[4] = "LF"
      BY <2>2, MessageTypes DEF Line
    <3>2. \A i \in 1..4 : i = 1 \/ i = 2 \/ i = 3 \/ i = 4
      OBVIOUS
    <3> HIDE DEF b
    <3> QED
      BY <2>2, <3>1, <3>2, HeadBytes DEF Carries
  <2> QED
    BY <2>1, <2>2
<1>5. Carries(m, HeadLen(m) - 2, EndOfLine) /\ Len(EndOfLine) = 2
  <2>1. Len(EndOfLine) = 2 /\ EndOfLine[1] = "CR" /\ EndOfLine[2] = "LF"
    BY DEF EndOfLine
  <2>2. (HeadLen(m) - 2) + 1 = HeadLen(m) - 1 /\ (HeadLen(m) - 2) + 2 = HeadLen(m)
    BY MessageTypes
  <2>3. \A i \in 1..2 : i = 1 \/ i = 2
    OBVIOUS
  <2> QED
    BY <2>1, <2>2, <2>3, HeadBytes DEF Carries
<1>6. Headers(m.first, m.line) = (a \o b) \o EndOfLine
  BY DEF Headers
<1> HIDE DEF a, b
<1>7. Carries(m, 0, a \o b) /\ Len(a \o b) = 4 + (HeadLen(m) - 6) /\ a \o b \in Seq(Token)
  <2>1. 0 + Len(a) = 4 /\ 0 \in Nat
    BY <1>3
  <2>2. Carries(m, 0 + Len(a), b)
    BY <1>4, <2>1, Zenon
  <2>3. Carries(m, 0, a \o b) /\ Len(a \o b) = Len(a) + Len(b) /\ a \o b \in Seq(Token)
    BY <1>2, <1>3, <2>1, <2>2, CarriesConcat, Zenon
  <2> QED
    BY <1>3, <1>4, <2>3
<1>8. 0 + Len(a \o b) = HeadLen(m) - 2
  BY <1>7, MessageTypes
<1>9. Carries(m, 0, (a \o b) \o EndOfLine) /\ Len((a \o b) \o EndOfLine) = Len(a \o b) + 2
  <2> DEFINE ab == a \o b
  <2>1. /\ Carries(m, 0, ab) /\ ab \in Seq(Token) /\ EndOfLine \in Seq(Token) /\ Len(EndOfLine) = 2
        /\ Carries(m, 0 + Len(ab), EndOfLine) /\ 0 \in Nat
    BY <1>2, <1>5, <1>7, <1>8
  <2> HIDE DEF ab
  <2>2. Carries(m, 0, ab \o EndOfLine) /\ Len(ab \o EndOfLine) = Len(ab) + Len(EndOfLine)
    BY <2>1, CarriesConcat, Zenon
  <2> QED
    BY <1>5, <2>2 DEF ab
<1> QED
  BY <1>6, <1>8, <1>9, MessageTypes

LEMMA MessageOfType ==
  ASSUME NEW end \in Sides, NEW e
  PROVE  /\ MessageOf(end, e) \in Message
         /\ e.body \in Lines => MessageOf(end, e).line = e.body
         /\ e.body \in Lines => MessageOf(end, e).body = IF end = "client" THEN e.body ELSE "open"
         /\ e.body \notin Lines => MessageOf(end, e).body = "none"
BY DEF MessageOf, Message, Lines, Said, Sides

LEMMA CountedIs ==
  ASSUME NEW end \in Sides, NEW e \in End
  PROVE  /\ Counted(end, e).body = e.body /\ Counted(end, e).up = e.up
         /\ Counted(end, e).buffer = e.buffer /\ Counted(end, e).state = e.state
         /\ Counted(end, e).sent = IF e.sent = BodyLen THEN e.sent ELSE e.sent + 1
         /\ e.sent = BodyLen => Counted(end, e).completed
         /\ e.sent # BodyLen /\ Framing(end, e) # "length" => ~Counted(end, e).completed
<1>1. CASE e.sent = BodyLen
  BY <1>1 DEF Counted, End
<1>2. CASE e.sent # BodyLen
  <2> DEFINE b == Framing(end, e) = "length" /\ e.sent + 1 = BodyLen
  <2>1. Counted(end, e) = [e EXCEPT !.sent = e.sent + 1, !.completed = b]
    BY <1>2 DEF Counted
  <2>2. Framing(end, e) # "length" => b = FALSE
    OBVIOUS
  <2> HIDE DEF b
  <2> QED
    BY <1>2, <2>1, <2>2 DEF End
<1> QED
  BY <1>1, <1>2

\* What the application gives next is what the message has next.
LEMMA DueCarries ==
  ASSUME NEW end \in Sides, NEW e \in End, e.body \in Lines, Due(end, e) # <<>>,
         Framing(end, e) = "chunked" /\ e.completed => e.sent = BodyLen
  PROVE  LET m == MessageOf(end, e)
             k == HeadLen(m) + Given(m, e)
         IN  /\ k \in Nat /\ Carries(m, k, Due(end, e))
             /\ k + Len(Due(end, e)) = HeadLen(m) + Given(m, Counted(end, e))
             /\ Framing(end, e) = "chunked" /\ Counted(end, e).completed => Counted(end, e).sent = BodyLen
<1> DEFINE m == MessageOf(end, e)
           k == HeadLen(m) + Given(m, e)
           f == Counted(end, e)
           data == Due(end, e)
<1>1. m \in Message /\ m.body = IF end = "client" THEN e.body ELSE "open"
  BY MessageOfType
<1>2. /\ HeadLen(m) \in Nat /\ BodyLen \in Nat \ {0} /\ e.sent \in 0..BodyLen
      /\ e.completed \in BOOLEAN
  BY <1>1, MessageTypes, BodyFacts DEF End
<1>3. m.body # "none" /\ (m.body = "chunked" <=> Framing(end, e) = "chunked")
  BY <1>1 DEF Framing, Lines, Sides
<1>4. /\ f.sent = IF e.sent = BodyLen THEN e.sent ELSE e.sent + 1
      /\ e.sent = BodyLen => f.completed
      /\ e.sent # BodyLen /\ Framing(end, e) # "length" => ~f.completed
  BY CountedIs
<1> HIDE DEF m, f
<1>5. CASE Framing(end, e) # "chunked"
  <2>1. Given(m, e) = e.sent /\ Given(m, f) = f.sent
    BY <1>3, <1>5 DEF Given
  <2>2. e.sent < BodyLen /\ data = <<Body[e.sent + 1]>>
    <3>1. CASE e.sent < BodyLen
      BY <1>5, <3>1 DEF Due
    <3>2. CASE ~(e.sent < BodyLen)
      BY <1>5, <3>2 DEF Due
    <3> QED
      BY <3>1, <3>2
  <2>3. k \in Nat /\ k = HeadLen(m) + e.sent
    BY <1>2, <2>1
  <2>4. ByteAt(m, HeadLen(m) + (e.sent + 1)) = Body[e.sent + 1]
    BY <1>1, <1>2, <1>3, <1>5, PlainBytes
  <2>5. HeadLen(m) + (e.sent + 1) = k + 1
    BY <1>2, <2>3
  <2>6. Len(data) = 1 /\ data[1] = ByteAt(m, k + 1)
    BY <2>2, <2>4, <2>5
  <2> HIDE DEF data, k
  <2>7. Carries(m, k, data)
    BY <2>6 DEF Carries
  <2>8. k + Len(data) = HeadLen(m) + Given(m, f)
    BY <1>2, <1>4, <2>1, <2>2, <2>3, <2>6
  <2> QED
    BY <1>5, <2>3, <2>7, <2>8 DEF k, m, f, data
<1>6. CASE Framing(end, e) = "chunked" /\ e.sent < BodyLen
  <2>1. ~e.completed /\ ~f.completed /\ f.sent = e.sent + 1
    BY <1>2, <1>4, <1>6
  <2>2. Given(m, e) = 6 * e.sent /\ Given(m, f) = 6 * (e.sent + 1)
    BY <1>2, <1>3, <1>6, <2>1 DEF Given
  <2>3. data = <<"size1", "CR", "LF", Body[e.sent + 1], "CR", "LF">>
    <3>1. e.sent # BodyLen
      BY <1>2, <1>6
    <3> QED
      BY <1>6, <3>1 DEF Due, SizeToken, SizeLine
  <2>4. k \in Nat /\ k = HeadLen(m) + 6 * e.sent
    BY <1>2, <2>2
  <2>5. ASSUME NEW i \in 1..6 PROVE data[i] = ByteAt(m, k + i)
    <3>1. ByteAt(m, HeadLen(m) + 6 * e.sent + i) = ChunkByte(e.sent, i)
      <4>1. e.sent \in Nat
        BY <1>2
      <4> QED
        BY <1>1, <1>3, <1>6, <4>1, ChunkBytes
    <3>2. ChunkByte(e.sent, i) = IF i = 1 THEN "size1" ELSE IF i = 4 THEN Body[e.sent + 1]
                                 ELSE IF i \in {2, 5} THEN "CR" ELSE "LF"
      BY <1>6 DEF ChunkByte
    <3>3. data[i] = IF i = 1 THEN "size1" ELSE IF i = 4 THEN Body[e.sent + 1]
                    ELSE IF i \in {2, 5} THEN "CR" ELSE "LF"
      BY <2>3
    <3> HIDE DEF data, k
    <3> QED
      BY <2>4, <3>1, <3>2, <3>3
  <2>6. Len(data) = 6
    BY <2>3
  <2> HIDE DEF data, k
  <2>7. Carries(m, k, data)
    BY <2>5, <2>6 DEF Carries
  <2>8. k + Len(data) = HeadLen(m) + Given(m, f)
    BY <1>2, <2>2, <2>4, <2>6
  <2> QED
    BY <2>1, <2>4, <2>7, <2>8 DEF k, m, f, data
<1>7. CASE Framing(end, e) = "chunked" /\ ~(e.sent < BodyLen)
  <2>1. e.sent = BodyLen /\ ~e.completed /\ data = EndChunk
    <3>1. e.sent = BodyLen
      BY <1>2, <1>7
    <3>2. CASE e.completed
      BY <1>7, <3>1, <3>2 DEF Due
    <3>3. CASE ~e.completed
      BY <1>7, <3>1, <3>3 DEF Due
    <3> QED
      BY <3>1, <3>2, <3>3
  <2>2. f.completed /\ f.sent = BodyLen
    BY <1>4, <2>1
  <2>3. Given(m, e) = 6 * BodyLen /\ Given(m, f) = 6 * BodyLen + 5
    BY <1>2, <1>3, <1>7, <2>1, <2>2 DEF Given
  <2>4. k \in Nat /\ k = HeadLen(m) + 6 * BodyLen
    BY <1>2, <2>3
  <2>5. data = <<"size0", "CR", "LF", "CR", "LF">>
    BY <2>1 DEF EndChunk, SizeToken, SizeLine
  <2>6. ASSUME NEW i \in 1..5 PROVE data[i] = ByteAt(m, k + i)
    <3>1. ByteAt(m, HeadLen(m) + 6 * BodyLen + i) = ChunkByte(BodyLen, i)
      <4>1. BodyLen \in Nat /\ i \in 1..6
        BY <1>2
      <4> QED
        BY <1>1, <1>3, <1>7, <4>1, ChunkBytes
    <3>2. ChunkByte(BodyLen, i) = IF i = 1 THEN "size0" ELSE IF i \in {2, 4} THEN "CR" ELSE "LF"
      BY <1>2 DEF ChunkByte
    <3>3. data[i] = IF i = 1 THEN "size0" ELSE IF i \in {2, 4} THEN "CR" ELSE "LF"
      BY <2>5
    <3> HIDE DEF data, k
    <3> QED
      BY <2>4, <3>1, <3>2, <3>3
  <2>7. Len(data) = 5
    BY <2>5
  <2> HIDE DEF data, k
  <2>8. Carries(m, k, data)
    BY <2>6, <2>7 DEF Carries
  <2>9. k + Len(data) = HeadLen(m) + Given(m, f)
    BY <1>2, <2>3, <2>4, <2>7
  <2> QED
    BY <2>2, <2>4, <2>8, <2>9 DEF k, m, f, data
<1> QED
  BY <1>5, <1>6, <1>7

-----------------------------------------------------------------------------
(* Lines.                                                                  *)

\* The bytes from a to e are a line of m and its end.
IsLine(m, a, e) ==
  /\ a \in Nat /\ e \in Nat /\ a <= e - 2
  /\ ByteAt(m, e - 1) = "CR" /\ ByteAt(m, e) = "LF"
  /\ \A x \in (a + 1)..(e - 2) : ByteAt(m, x) # "LF"

\* A parser inside a line of which it has saved the beginning: it saves more of it, or
\* gets the whole line, if the input does not end between its CR and LF.
LineSaved(m, p, d, a, e, k) ==
  /\ ~GetLine(d).found /\ k + Len(d) <= e - 2 /\ Saves(m, SaveData(p, d), a, k + Len(d))
LineFound(m, p, d, a, e, k) ==
  LET g == GetLine(d) IN
  /\ g.found /\ g.used = e - k /\ g.used \in 1..Len(d)
  /\ Carries(m, a, Saved(p, g.line)) /\ Len(Saved(p, g.line)) = e - 2 - a

LEMMA LineRead ==
  ASSUME NEW m, NEW a, NEW e, IsLine(m, a, e), NEW k \in Nat, a <= k, k <= e - 2,
         NEW p \in Parser, Saves(m, p, a, k), NEW d \in Seq(Token), d # <<>>, Carries(m, k, d),
         ByteAt(m, k + Len(d)) # "CR"
  PROVE  LineSaved(m, p, d, a, e, k) \/ LineFound(m, p, d, a, e, k)
<1>1. /\ Len(d) \in Nat \ {0} /\ a \in Nat /\ e \in Nat /\ p.savedString \in Seq(Token)
      /\ Len(p.savedString) = k - a /\ Carries(m, a, p.savedString)
      /\ a + Len(p.savedString) = k
  BY EmptySeq DEF IsLine, Saves, Parser
<1>2. \A i \in 1..Len(d) : d[i] = ByteAt(m, k + i)
  BY DEF Carries
<1>3. \A i \in 1..Len(d) : k + i < e => (d[i] = "LF" => FALSE)
  <2> SUFFICES ASSUME NEW i \in 1..Len(d), k + i < e, d[i] = "LF" PROVE FALSE
    OBVIOUS
  <2>1. CASE k + i = e - 1
    <3>1. ByteAt(m, k + i) = "CR"
      BY <2>1 DEF IsLine
    <3> QED
      BY <1>2, <3>1
  <2>2. CASE k + i # e - 1
    <3>1. k + i \in (a + 1)..(e - 2)
      BY <1>1, <2>2
    <3>2. ByteAt(m, k + i) # "LF"
      BY <3>1 DEF IsLine
    <3> QED
      BY <1>2, <3>2
  <2> QED
    BY <2>1, <2>2
<1>4. CASE k + Len(d) < e
  <2>1. ~GetLine(d).found
    <3>1. "LF" \notin {d[i] : i \in 1..Len(d)}
      <4>1. \A i \in 1..Len(d) : k + i < e
        BY <1>1, <1>4
      <4> QED
        BY <1>3, <4>1
    <3> QED
      BY <3>1 DEF GetLine
  <2>2. k + Len(d) # e - 1
    BY DEF IsLine
  <2>3. k + Len(d) <= e - 2
    <3>1. k \in Nat /\ e \in Nat /\ Len(d) \in Nat
      BY <1>1
    <3> QED
      BY <1>4, <2>2, <3>1
  <2>4. Carries(m, a + Len(p.savedString), d)
    BY <1>1
  <2>5. Carries(m, a, p.savedString \o d) /\ Len(p.savedString \o d) = Len(p.savedString) + Len(d)
    <3> DEFINE s == p.savedString
    <3>1. a \in Nat /\ s \in Seq(Token) /\ Carries(m, a, s) /\ Carries(m, a + Len(s), d)
      BY <1>1, <2>4
    <3> HIDE DEF s
    <3>2. Carries(m, a, s \o d) /\ Len(s \o d) = Len(s) + Len(d)
      BY <3>1, CarriesConcat
    <3> QED
      BY <3>2 DEF s
  <2>6. SaveData(p, d).savedString = p.savedString \o d
    BY DEF SaveData, Parser
  <2>7. Len(p.savedString) + Len(d) = (k + Len(d)) - a
    BY <1>1
  <2>8. Saves(m, SaveData(p, d), a, k + Len(d))
    BY <2>5, <2>6, <2>7, Zenon DEF Saves
  <2> QED
    BY <2>1, <2>3, <2>8 DEF LineSaved
<1>5. CASE ~(k + Len(d) < e)
  <2> DEFINE n == e - k
             g == GetLine(d)
  <2>1. /\ n \in 2..Len(d) /\ n \in 1..Len(d) /\ n - 1 \in 1..Len(d) /\ n - 2 \in 0..Len(d)
        /\ k + n = e /\ k + (n - 1) = e - 1
    <3>1. PICK l \in Nat : l = Len(d)
      BY <1>1
    <3>2. n \in Int /\ n >= 2 /\ n <= l /\ k + n = e
      <4>1. ~(k + l < e)
        BY <1>5, <3>1
      <4>2. k \in Nat /\ e \in Nat /\ k <= e - 2
        BY <1>1
      <4> HIDE DEF n
      <4>3. \A x \in Int : x = e - k => x >= 2 /\ x <= l /\ k + x = e
        BY <3>1, <4>1, <4>2
      <4>4. e - k \in Int
        BY <4>2
      <4> QED
        BY <4>3, <4>4 DEF n
    <3> HIDE DEF n
    <3>3. n \in 2..l /\ n \in 1..l /\ n - 1 \in 1..l /\ n - 2 \in 0..l /\ k + (n - 1) = e - 1
      BY <3>1, <3>2
    <3> QED
      BY <3>1, <3>2, <3>3
  <2>2. d[n] = "LF" /\ d[n - 1] = "CR"
    <3>1. ByteAt(m, k + n) = "LF" /\ ByteAt(m, k + (n - 1)) = "CR"
      BY <2>1 DEF IsLine
    <3> QED
      BY <1>2, <2>1, <3>1
  <2> HIDE DEF n
  <2>3. g.found
    <3>1. "LF" \in {d[i] : i \in 1..Len(d)}
      BY <2>1, <2>2
    <3> QED
      BY <3>1 DEF GetLine
  <2>4. PICK i \in 1..Len(d) :
           /\ d[i] = "LF" /\ \A j \in 1..(i - 1) : d[j] # "LF"
           /\ g = [found |-> TRUE,
                   line  |-> SubSeq(d, 1, IF i > 1 /\ d[i - 1] = "CR" THEN i - 2 ELSE i - 1),
                   used  |-> IF i > 1 /\ d[i - 1] = "CR" THEN i ELSE i + 1]
    BY <2>3, GetLineFacts
  <2>5. i = n
    <3>1. ~(k + i < e)
      BY <1>3, <2>4
    <3>2. ~(n < i)
      <4>1. n < i => n \in 1..(i - 1)
        BY <2>1
      <4> QED
        BY <2>2, <2>4, <4>1
    <3> QED
      BY <1>1, <2>1, <3>1, <3>2
  <2>6. g.line = SubSeq(d, 1, n - 2) /\ g.used = n
    BY <2>1, <2>2, <2>4, <2>5
  <2> HIDE DEF g
  <2>7. n - 2 \in 0..Len(d)
    BY <2>1
  <2>8. Carries(m, k, SubSeq(d, 1, n - 2)) /\ Len(SubSeq(d, 1, n - 2)) = n - 2
    BY <2>7, CarriesFacts
  <2>9. g.line \in Seq(Token)
    BY <2>3, GetLineTypes DEF g
  <2>10. Carries(m, a + Len(p.savedString), g.line)
    BY <1>1, <2>6, <2>8
  <2>11. Carries(m, a, p.savedString \o g.line) /\ Len(p.savedString \o g.line) = Len(p.savedString) + Len(g.line)
    <3> DEFINE s == p.savedString
               t == g.line
    <3>1. /\ a \in Nat /\ s \in Seq(Token) /\ t \in Seq(Token)
          /\ Carries(m, a, s) /\ Carries(m, a + Len(s), t)
      BY <1>1, <2>9, <2>10
    <3> HIDE DEF s, t
    <3>2. Carries(m, a, s \o t) /\ Len(s \o t) = Len(s) + Len(t)
      BY <3>1, CarriesConcat
    <3> QED
      BY <3>2 DEF s, t
  <2>12. Len(p.savedString) + Len(g.line) = e - 2 - a
    BY <1>1, <2>1, <2>6, <2>8
  <2>13. n = e - k
    BY DEF n
  <2> QED
    BY <2>1, <2>3, <2>6, <2>11, <2>12, <2>13 DEF LineFound, Saved, g
<1> QED
  BY <1>4, <1>5

-----------------------------------------------------------------------------
(* What is said.                                                           *)

LEMMA SaysMore ==
  ASSUME NEW p \in Parser, NEW q \in Parser, NEW j \in Nat, Says(p, j),
         NEW es \in Seq(Token), q.events = p.events \o es, NEW n \in Nat, Len(es) = n,
         \A i \in 1..n : es[i] = Body[j + i]
  PROVE  Says(q, j + n)
<1>1. p.events \in Seq(Event) /\ es \in Seq(Event) /\ Len(p.events) = 1 + j
  BY SeqMonotonic DEF Parser, Event, Says
<1>2. /\ Len(q.events) = (1 + j) + n
      /\ \A i \in 1..((1 + j) + n) : q.events[i] = IF i <= 1 + j THEN p.events[i] ELSE es[i - (1 + j)]
  <2> DEFINE s == p.events
             l == Len(s)
  <2>1. s \in Seq(Event) /\ es \in Seq(Event) /\ l = 1 + j /\ q.events = s \o es
    BY <1>1
  <2> HIDE DEF s
  <2>2. /\ Len(s \o es) = l + Len(es)
        /\ \A i \in 1..(l + Len(es)) : (s \o es)[i] = IF i <= l THEN s[i] ELSE es[i - l]
    BY <2>1, ConcatProperties
  <2> HIDE DEF l
  <2> QED
    BY <2>1, <2>2 DEF s
<1>3. q.events[1] = "header"
  BY <1>2 DEF Says
<1>4. ASSUME NEW i \in 1..(j + n) PROVE q.events[1 + i] = Body[i]
  <2>1. 1 + i \in 1..((1 + j) + n)
    OBVIOUS
  <2>2. CASE i <= j
    <3>1. 1 + i <= 1 + j /\ i \in 1..j
      BY <2>2
    <3> QED
      BY <1>2, <2>1, <3>1 DEF Says
  <2>3. CASE ~(i <= j)
    <3>1. ~(1 + i <= 1 + j) /\ (1 + i) - (1 + j) = i - j /\ i - j \in 1..n /\ j + (i - j) = i
      BY <2>3
    <3>2. q.events[1 + i] = es[i - j]
      BY <1>2, <2>1, <3>1
    <3>3. es[i - j] = Body[j + (i - j)]
      BY <3>1
    <3> QED
      BY <3>1, <3>2, <3>3
  <2> QED
    BY <2>2, <2>3
<1>5. Len(q.events) = 1 + (j + n)
  BY <1>2
<1> QED
  BY <1>3, <1>4, <1>5 DEF Says

LEMMA SaysEnd ==
  ASSUME NEW p \in Parser, NEW q \in Parser, NEW j \in Nat, Says(p, j),
         q.events = p.events \o <<"complete">>
  PROVE  SaysAll(q, j)
<1>1. p.events \in Seq(Event) /\ <<"complete">> \in Seq(Event) /\ Len(p.events) = 1 + j
      /\ Len(<<"complete">>) = 1 /\ <<"complete">>[1] = "complete"
  BY DEF Parser, Event, Says
<1>2. /\ Len(q.events) = (1 + j) + 1
      /\ \A i \in 1..((1 + j) + 1) : q.events[i] = IF i <= 1 + j THEN p.events[i] ELSE <<"complete">>[i - (1 + j)]
  BY <1>1, ConcatProperties
<1>3. q.events[1] = "header" /\ \A i \in 1..j : q.events[1 + i] = Body[i]
  <2>1. ASSUME NEW i \in 1..j PROVE q.events[1 + i] = Body[i]
    <3>1. 1 + i \in 1..((1 + j) + 1) /\ 1 + i <= 1 + j
      OBVIOUS
    <3> QED
      BY <1>2, <3>1 DEF Says
  <2>2. q.events[1] = "header"
    BY <1>2 DEF Says
  <2> QED
    BY <2>1, <2>2
<1>4. q.events[2 + j] = "complete"
  <2>1. 2 + j \in 1..((1 + j) + 1) /\ ~(2 + j <= 1 + j) /\ (2 + j) - (1 + j) = 1
    OBVIOUS
  <2> QED
    BY <1>1, <1>2, <2>1
<1>5. Len(q.events) = 2 + j
  BY <1>2
<1> QED
  BY <1>3, <1>4, <1>5 DEF SaysAll

LEMMA SaysHeader ==
  ASSUME NEW p \in Parser, NEW q \in Parser, p.events = <<>>, q.events = p.events \o <<"header">>
  PROVE  Says(q, 0)
<1>1. q.events = <<"header">>
  <2>1. <<"header">> \in Seq(Event)
    BY DEF Event
  <2> QED
    BY <2>1, ConcatEmptySeq
<1> QED
  BY <1>1 DEF Says

-----------------------------------------------------------------------------
(* A round brings the parser further along the message.                    *)

\* The input of which d was left brings the parser to K in the end.
Forward(m, K, d, r) ==
  /\ \E k \in Nat : Stands(m, r.parser, k) /\ Carries(m, k, r.data) /\ k + Len(r.data) = K
  /\ Len(r.data) < Len(d)

\* The parser p stands at k, with the bytes up to K as its input d.
Along(m, K, p, k, d) ==
  /\ m \in Message /\ p \in Parser /\ d \in Seq(Token) /\ d # <<>> /\ k \in Nat
  /\ Carries(m, k, d) /\ k + Len(d) = K /\ ByteAt(m, K) # "CR"

LEMMA GoForward ==
  ASSUME NEW m, NEW K, NEW p, NEW k, NEW d, Along(m, K, p, k, d),
         NEW n \in 1..Len(d), NEW q, Stands(m, q, k + n)
  PROVE  Forward(m, K, d, GoOn(q, d, n))
<1>1. d \in Seq(Token) /\ k \in Nat /\ Carries(m, k, d) /\ k + Len(d) = K
  BY DEF Along
<1>2. Len(d) \in Nat /\ n \in 0..Len(d) /\ k + n \in Nat
  BY <1>1, LenProperties
<1>3. Carries(m, k + n, Drop(d, n)) /\ Len(Drop(d, n)) = Len(d) - n
  BY <1>1, <1>2, CarriesFacts, SMTT(60)
<1>4. (k + n) + Len(Drop(d, n)) = K /\ Len(Drop(d, n)) < Len(d)
  BY <1>1, <1>2, <1>3
<1>5. GoOn(q, d, n).parser = q /\ GoOn(q, d, n).data = Drop(d, n)
  BY DEF GoOn
<1> QED
  BY <1>2, <1>3, <1>4, <1>5, Zenon DEF Forward

LEMMA ReturnForward ==
  ASSUME NEW m, NEW K, NEW p, NEW k, NEW d, Along(m, K, p, k, d), NEW q, Stands(m, q, K)
  PROVE  Forward(m, K, d, Returns(q))
<1>1. Len(d) \in Nat \ {0} /\ K \in Nat
  <2>1. Len(d) \in Nat \ {0}
    BY EmptySeq DEF Along
  <2> QED
    BY <2>1 DEF Along
<1>2. Returns(q).parser = q /\ Returns(q).data = <<>> /\ Len(<<>>) = 0
  BY DEF Returns
<1>3. Carries(m, K, <<>>) /\ K + Len(<<>>) = K /\ Len(<<>>) < Len(d)
  BY <1>1, <1>2 DEF Carries
<1> QED
  BY <1>1, <1>2, <1>3, Zenon DEF Forward

LEMMA FreshIs ==
  ASSUME NEW p \in Parser
  PROVE  /\ Fresh(p) \in Parser /\ Fresh(p).savedString = <<>>
         /\ Fresh(p).readState = p.readState /\ Fresh(p).chunkState = p.chunkState
         /\ Fresh(p).start = p.start /\ Fresh(p).headers = p.headers
         /\ Fresh(p).totalBytesRead = p.totalBytesRead /\ Fresh(p).events = p.events
BY EmptyTokens DEF Fresh, Parser

LEMMA SaveDataIs ==
  ASSUME NEW p \in Parser, NEW d \in Seq(Token)
  PROVE  /\ SaveData(p, d) \in Parser
         /\ SaveData(p, d).readState = p.readState /\ SaveData(p, d).chunkState = p.chunkState
         /\ SaveData(p, d).start = p.start /\ SaveData(p, d).headers = p.headers
         /\ SaveData(p, d).totalBytesRead = p.totalBytesRead /\ SaveData(p, d).events = p.events
<1>1. p.savedString \o d \in Seq(Token)
  BY ConcatProperties DEF Parser
<1> QED
  BY <1>1 DEF SaveData, Parser

\* Nothing is saved at the beginning of a line.
LEMMA NothingSaved ==
  ASSUME NEW m, NEW p, p.savedString = <<>>, NEW a \in Nat
  PROVE  Saves(m, p, a, a)
<1>1. Len(<<>>) = 0 /\ a - a = 0
  OBVIOUS
<1> QED
  BY <1>1 DEF Saves, Carries

LEMMA HeadLines ==
  ASSUME NEW m \in Message
  PROVE  /\ IsLine(m, 0, 4) /\ (m.line # "none" => IsLine(m, 4, 8))
         /\ IsLine(m, HeadLen(m) - 2, HeadLen(m))
<1>1. /\ m.first # "LF" /\ m.line # "LF" /\ HeadLen(m) \in {6, 10}
  BY MessageTypes
<1>2. IsLine(m, 0, 4)
  <2>1. \A x \in (0 + 1)..(4 - 2) : x = 1 \/ x = 2
    OBVIOUS
  <2>2. 0 \in Nat /\ 4 \in Nat /\ 0 <= 4 - 2 /\ 4 - 1 = 3
    OBVIOUS
  <2> QED
    BY <1>1, <2>1, <2>2, HeadBytes DEF IsLine
<1>3. m.line # "none" => IsLine(m, 4, 8)
  <2>1. \A x \in (4 + 1)..(8 - 2) : x = 5 \/ x = 6
    OBVIOUS
  <2>2. 4 \in Nat /\ 8 \in Nat /\ 4 <= 8 - 2 /\ 8 - 1 = 7
    OBVIOUS
  <2> QED
    BY <1>1, <2>1, <2>2, HeadBytes DEF IsLine
<1>4. IsLine(m, HeadLen(m) - 2, HeadLen(m))
  <2>1. HeadLen(m) - 2 \in Nat /\ HeadLen(m) \in Nat /\ HeadLen(m) - 2 <= HeadLen(m) - 2
        /\ \A x \in ((HeadLen(m) - 2) + 1)..(HeadLen(m) - 2) : FALSE
    BY <1>1
  <2> QED
    BY <2>1, HeadBytes DEF IsLine
<1> QED
  BY <1>2, <1>3, <1>4

\* A line of the head other than the empty one.
LEMMA HeadLineForward ==
  ASSUME NEW m, NEW K, NEW p, NEW k, NEW d, Along(m, K, p, k, d), InHead(m, p, k), k < HeadLen(m) - 2
  PROVE  Forward(m, K, d, HeadRound(p, d))
<1> DEFINE g == GetLine(d)
           line == Saved(p, g.line)
           a == IF p.readState = "line" THEN 0 ELSE 4
           e == IF p.readState = "line" THEN 4 ELSE 8
           q == IF p.readState = "line" THEN [Fresh(p) EXCEPT !.start = line[1], !.readState = "head"]
                ELSE AddHeader(Fresh(p), line)
<1>0. /\ m \in Message /\ p \in Parser /\ d \in Seq(Token) /\ d # <<>> /\ k \in Nat
      /\ Carries(m, k, d) /\ k + Len(d) = K /\ ByteAt(m, k + Len(d)) # "CR"
  BY DEF Along
<1>1. /\ p.events = <<>> /\ p.chunkState = "size" /\ p.totalBytesRead = 0
      /\ p.readState \in {"line", "head"} /\ Saves(m, p, a, k) /\ p.headers = {}
      /\ p.readState = "line" => p.start = "none"
      /\ p.readState = "head" => m.line # "none" /\ p.start = m.first
      /\ a <= k /\ k <= e - 2
  <2>1. k # HeadLen(m) - 2
    BY <1>0, MessageTypes
  <2> QED
    BY <1>0, <2>1 DEF InHead
<1>2. IsLine(m, a, e) /\ e = a + 4 /\ a \in {0, 4}
  BY <1>0, <1>1, HeadLines
<1>3. LineSaved(m, p, d, a, e, k) \/ LineFound(m, p, d, a, e, k)
  <2> HIDE DEF a, e
  <2> QED
    BY <1>0, <1>1, <1>2, LineRead
<1>4. CASE LineSaved(m, p, d, a, e, k)
  <2>1. ~g.found /\ k + Len(d) <= e - 2 /\ Saves(m, SaveData(p, d), a, k + Len(d))
    BY <1>4, Zenon DEF LineSaved
  <2>2. HeadRound(p, d) = Returns(SaveData(p, d))
    BY <2>1, Zenon DEF HeadRound
  <2>3. Stands(m, SaveData(p, d), K)
    <3>1. InHead(m, SaveData(p, d), K)
      <4>1. K = k + Len(d) /\ Len(d) \in Nat
        BY <1>0, LenProperties
      <4>2. /\ SaveData(p, d).readState = p.readState /\ SaveData(p, d).chunkState = p.chunkState
            /\ SaveData(p, d).start = p.start /\ SaveData(p, d).headers = p.headers
            /\ SaveData(p, d).totalBytesRead = p.totalBytesRead /\ SaveData(p, d).events = p.events
        BY <1>0, SaveDataIs
      <4>3. CASE p.readState = "line"
        <5>1. K <= 2 /\ Saves(m, SaveData(p, d), 0, K)
          BY <2>1, <4>1, <4>3
        <5> QED
          BY <1>1, <4>2, <4>3, <5>1 DEF InHead
      <4>4. CASE p.readState = "head"
        <5>1. 4 <= K /\ K <= 6 /\ Saves(m, SaveData(p, d), 4, K)
          BY <1>0, <1>1, <2>1, <4>1, <4>4
        <5> QED
          BY <1>1, <4>2, <4>4, <5>1 DEF InHead
      <4> QED
        BY <1>1, <4>3, <4>4
    <3> QED
      BY <3>1 DEF Stands
  <2> QED
    BY <2>2, <2>3, ReturnForward
<1>5. CASE LineFound(m, p, d, a, e, k)
  <2>1. g.found /\ g.used = e - k /\ g.used \in 1..Len(d) /\ Carries(m, a, line) /\ Len(line) = e - 2 - a
    BY <1>5, Zenon DEF LineFound
  <2>2. Len(line) = 2 /\ line[1] = ByteAt(m, a + 1) /\ line[2] = ByteAt(m, a + 2)
    <3>1. Len(line) = 2
      BY <1>2, <2>1
    <3> HIDE DEF line
    <3> QED
      BY <2>1, <3>1 DEF Carries
  <2>3. line[2] = "rest" /\ (p.readState = "line" => line[1] = m.first)
        /\ (p.readState = "head" => line[1] = m.line)
    BY <1>0, <1>1, <2>2, HeadBytes
  <2>4. IsHeadLine(line) /\ line # <<>>
    <3>1. 2 \in 1..Len(line)
      BY <2>2
    <3>2. "rest" \in {line[i] : i \in 1..Len(line)}
      BY <2>3, <3>1
    <3> QED
      BY <2>2, <3>2 DEF IsHeadLine
  <2>5. ~Past(d, g)
    <3>1. Len(d) \in Nat
      BY <1>0, LenProperties
    <3> QED
      BY <2>1, <3>1 DEF Past
  <2>6. HeadRound(p, d) = GoOn(q, d, g.used)
    BY <2>1, <2>4, <2>5, Zenon DEF HeadRound
  <2>7. k + g.used = e
    BY <1>0, <1>2, <2>1
  <2>8. Stands(m, q, e)
    <3>1. InHead(m, q, e)
      <4> HIDE DEF g, line
      <4>0. /\ Fresh(p) \in Parser /\ Fresh(p).savedString = <<>>
            /\ Fresh(p).readState = p.readState /\ Fresh(p).chunkState = p.chunkState
            /\ Fresh(p).start = p.start /\ Fresh(p).headers = p.headers
            /\ Fresh(p).totalBytesRead = p.totalBytesRead /\ Fresh(p).events = p.events
        BY <1>0, FreshIs
      <4>1. CASE p.readState = "line"
        <5>1. q = [Fresh(p) EXCEPT !.start = m.first, !.readState = "head"] /\ e = 4
          BY <2>3, <4>1
        <5> HIDE DEF q, e, a
        <5>2. /\ q.events = <<>> /\ q.chunkState = "size" /\ q.totalBytesRead = 0 /\ q.readState = "head"
              /\ q.start = m.first /\ q.headers = {} /\ q.savedString = <<>>
          BY <1>1, <4>0, <5>1 DEF Parser
        <5>3. CASE m.line = "none"
          <6>1. {m.line} \ {"none"} = {} /\ 4 = HeadLen(m) - 2
            BY <1>0, <5>3, MessageTypes
          <6> QED
            BY <5>1, <5>2, <6>1 DEF InHead
        <5>4. CASE m.line # "none"
          <6>1. Saves(m, q, 4, 4)
            BY <5>2, NothingSaved
          <6> QED
            BY <5>1, <5>2, <5>4, <6>1 DEF InHead
        <5> QED
          BY <5>3, <5>4
      <4>2. CASE p.readState = "head"
        <5>1. q = AddHeader(Fresh(p), line) /\ e = 8 /\ m.line # "none"
          BY <1>1, <4>2
        <5> HIDE DEF q, e, a
        <5>2. q = [Fresh(p) EXCEPT !.headers = {m.line}]
          BY <1>1, <2>2, <2>3, <4>0, <4>2, <5>1 DEF AddHeader
        <5>3. /\ q.events = <<>> /\ q.chunkState = "size" /\ q.totalBytesRead = 0 /\ q.readState = "head"
              /\ q.start = m.first /\ q.headers = {m.line} /\ q.savedString = <<>>
          BY <1>1, <4>0, <4>2, <5>2 DEF Parser
        <5>4. {m.line} \ {"none"} = {m.line} /\ 8 = HeadLen(m) - 2
          BY <1>0, <5>1, MessageTypes
        <5> QED
          BY <5>1, <5>3, <5>4 DEF InHead
      <4> QED
        BY <1>1, <4>1, <4>2
    <3> QED
      BY <3>1 DEF Stands
  <2> HIDE DEF q, g, e, a
  <2>9. Stands(m, q, k + g.used)
    BY <2>7, <2>8, Zenon
  <2> QED
    BY <2>1, <2>6, <2>9, GoForward
<1> QED
  BY <1>3, <1>4, <1>5

\* The empty line.
LEMMA HeaderEndStands ==
  ASSUME NEW m \in Message, NEW p \in Parser, p.readState = "head", p.events = <<>>,
         p.chunkState = "size", p.totalBytesRead = 0, p.savedString = <<>>,
         p.start = m.first, p.headers = {m.line} \ {"none"}
  PROVE  Stands(m, HeaderEnd(p), HeadLen(m))
<1> DEFINE q == Notify(p, <<"header">>)
           b == [q EXCEPT !.readState = "body"]
           h == HeadLen(m)
<1>1. h \in Nat /\ BodyLen \in Nat \ {0}
  BY MessageTypes, BodyFacts
<1>2. q \in Parser
  <2>1. p.events \in Seq(Event) /\ <<"header">> \in Seq(Event)
    BY DEF Parser, Event
  <2>2. p.events \o <<"header">> \in Seq(Event)
    BY <2>1, ConcatProperties
  <2> QED
    BY <2>2 DEF Notify, Parser
<1>3. /\ q.events = p.events \o <<"header">> /\ q.readState = "head" /\ q.start = m.first
      /\ q.headers = {m.line} \ {"none"} /\ q.savedString = <<>> /\ q.chunkState = "size"
      /\ q.totalBytesRead = 0
  BY DEF Notify, Parser
<1> HIDE DEF q
<1>4. /\ b \in Parser /\ b.events = q.events /\ b.readState = "body" /\ b.start = m.first
      /\ b.headers = {m.line} \ {"none"} /\ b.savedString = <<>> /\ b.chunkState = "size"
      /\ b.totalBytesRead = 0
  BY <1>2, <1>3 DEF Parser
<1>5. ~isUpgrade(q) /\ (hasBody(q) <=> m.body # "none")
  <2>1. ~isUpgrade(q)
    BY <1>3, MessageTypes DEF isUpgrade
  <2>2. hasBody(q) <=> m.body # "none"
    BY <1>3 DEF hasBody, isRequest, isChunked, hasLength, Bodyless, Message, Said
  <2> QED
    BY <2>1, <2>2
<1>6. Says(q, 0)
  BY <1>2, <1>3, SaysHeader
<1>7. CASE m.body = "none"
  <2>1. HeaderEnd(p) = Done(q)
    BY <1>5, <1>7 DEF HeaderEnd, q
  <2>2. Done(q) \in Parser /\ Done(q).readState = "done" /\ Done(q).events = q.events \o <<"complete">>
    BY <1>2, <1>3, DoneType DEF Stopped
  <2>3. SaysAll(Done(q), 0)
    BY <1>2, <1>6, <2>2, SaysEnd
  <2>4. IsDone(m, Done(q), h)
    BY <1>1, <1>7, <2>2, <2>3 DEF IsDone
  <2> QED
    BY <2>1, <2>4 DEF Stands
<1>8. CASE m.body # "none"
  <2>1. HeaderEnd(p) = b
    BY <1>5, <1>8 DEF HeaderEnd, q
  <2>2. b.headers = {m.line}
    BY <1>4, <1>8, MessageTypes
  <2> HIDE DEF b
  <2>3. Says(b, 0)
    BY <1>4, <1>6 DEF Says
  <2>4. CASE m.body = "chunked"
    <3>1. h + 6 * 0 = h /\ h \in h..(h + 1) /\ 0 \in 0..BodyLen
      BY <1>1
    <3>2. Saves(m, b, h, h)
      BY <1>1, <1>4, NothingSaved
    <3>3. InChunk(m, b, h)
      BY <1>4, <2>2, <2>3, <2>4, <3>1, <3>2 DEF InChunk
    <3> QED
      BY <2>1, <3>3 DEF Stands
  <2>5. CASE m.body # "chunked"
    <3>1. m.body \in {"length", "open"}
      BY <1>8, <2>5, MessageTypes
    <3>2. h + 0 = h /\ 0 \in 0..BodyLen /\ 0 < BodyLen
      BY <1>1
    <3>3. InPlain(m, b, h)
      BY <1>4, <2>2, <2>3, <3>1, <3>2 DEF InPlain
    <3> QED
      BY <2>1, <3>3 DEF Stands
  <2> QED
    BY <2>4, <2>5
<1> QED
  BY <1>7, <1>8

LEMMA EmptyLineForward ==
  ASSUME NEW m, NEW K, NEW p, NEW k, NEW d, Along(m, K, p, k, d), InHead(m, p, k), k = HeadLen(m) - 2
  PROVE  Forward(m, K, d, HeadRound(p, d))
<1> DEFINE g == GetLine(d)
           line == Saved(p, g.line)
           a == HeadLen(m) - 2
           e == HeadLen(m)
           q == HeaderEnd(Fresh(p))
<1>0. /\ m \in Message /\ p \in Parser /\ d \in Seq(Token) /\ d # <<>> /\ k \in Nat
      /\ Carries(m, k, d) /\ k + Len(d) = K /\ ByteAt(m, k + Len(d)) # "CR"
      /\ Len(d) \in Nat \ {0}
  BY EmptySeq DEF Along
<1>1. /\ p.events = <<>> /\ p.chunkState = "size" /\ p.totalBytesRead = 0
      /\ p.readState = "head" /\ p.start = m.first /\ p.headers = {m.line} \ {"none"}
      /\ p.savedString = <<>>
  <2>1. k # HeadLen(m) - 2 \/ (~(k <= 2) /\ (m.line # "none" => ~(k <= 6)))
    BY <1>0, MessageTypes
  <2> QED
    BY <1>0, <2>1 DEF InHead
<1>2. IsLine(m, a, e) /\ a <= k /\ k <= e - 2 /\ Saves(m, p, a, k) /\ k = a /\ e - k = 2 /\ e \in Nat
  <2>1. HeadLen(m) \in {6, 10}
    BY <1>0, MessageTypes
  <2> QED
    BY <1>0, <1>1, <2>1, HeadLines, NothingSaved
<1>3. LineFound(m, p, d, a, e, k)
  <2> HIDE DEF a, e
  <2>1. LineSaved(m, p, d, a, e, k) \/ LineFound(m, p, d, a, e, k)
    BY <1>0, <1>2, LineRead
  <2>2. ~(k + Len(d) <= e - 2)
    BY <1>0, <1>2
  <2> QED
    BY <2>1, <2>2, Zenon DEF LineSaved
<1>4. g.found /\ g.used = e - k /\ g.used \in 1..Len(d) /\ Len(line) = e - 2 - a
  BY <1>3, Zenon DEF LineFound
<1>5. line = <<>>
  <2>1. Saved(p, g.line) \in Seq(Token)
    BY <1>0, <1>4, GetLineTypes, SavedType
  <2>2. Len(line) = 0
    BY <1>2, <1>4
  <2> QED
    BY <2>1, <2>2, EmptySeq
<1>6. HeadRound(p, d) = GoOn(q, d, g.used)
  BY <1>1, <1>4, <1>5, Zenon DEF HeadRound
<1>7. Stands(m, q, k + g.used)
  <2>1. k + g.used = HeadLen(m)
    BY <1>2, <1>4
  <2>2. Stands(m, HeaderEnd(Fresh(p)), HeadLen(m))
    BY <1>0, <1>1, FreshIs, HeaderEndStands
  <2> QED
    BY <2>1, <2>2
<1> HIDE DEF q, g
<1> QED
  BY <1>4, <1>6, <1>7, GoForward

LEMMA HeadForward ==
  ASSUME NEW m, NEW K, NEW p, NEW k, NEW d, Along(m, K, p, k, d), InHead(m, p, k)
  PROVE  Forward(m, K, d, HeadRound(p, d))
<1>1. k \in Nat /\ m \in Message
  BY DEF Along
<1>2. k < HeadLen(m) - 2 \/ k = HeadLen(m) - 2
  BY <1>1, MessageTypes DEF InHead
<1> QED
  BY <1>2, HeadLineForward, EmptyLineForward

\* What parse hands on of a body of which the length is known or does not matter.
LEMMA PlainForward ==
  ASSUME NEW m, NEW K, NEW p, NEW k, NEW d, Along(m, K, p, k, d), InPlain(m, p, k),
         m.body = "open" => K <= HeadLen(m) + BodyLen
  PROVE  ~isChunked(p) /\ Forward(m, K, d, Returns(ParseBody(p, d, BodyLen)))
<1> DEFINE h == HeadLen(m)
           L == BodyLen
           j == p.totalBytesRead
           More(t, es) == Notify([p EXCEPT !.totalBytesRead = t], es)
<1>0. /\ m \in Message /\ p \in Parser /\ d \in Seq(Token) /\ d # <<>> /\ k \in Nat
      /\ Carries(m, k, d) /\ k + Len(d) = K /\ Len(d) \in Nat \ {0}
  BY EmptySeq DEF Along
<1>1. h \in Nat /\ L \in Nat \ {0}
  BY <1>0, MessageTypes, BodyFacts
<1>2. /\ p.readState = "body" /\ m.body \in {"length", "open"} /\ p.start = m.first /\ p.headers = {m.line}
      /\ j \in 0..L /\ j \in Nat /\ k = h + j /\ Says(p, j)
      /\ m.body = "length" => j < L
  BY DEF InPlain
<1>3. ~isChunked(p) /\ (hasLength(p) <=> m.body = "length")
  BY <1>0, <1>2 DEF isChunked, hasLength, isRequest, Message, Said
<1>4. \A i \in 1..Len(d) : d[i] = Body[j + i]
  <2> SUFFICES ASSUME NEW i \in 1..Len(d) PROVE d[i] = Body[j + i]
    OBVIOUS
  <2>1. d[i] = ByteAt(m, k + i)
    BY <1>0 DEF Carries
  <2>2. k + i = h + (j + i) /\ j + i \in Nat \ {0}
    BY <1>1, <1>2
  <2>3. m.body # "chunked"
    BY <1>2
  <2>4. ByteAt(m, h + (j + i)) = Body[j + i]
    BY <1>0, <2>2, <2>3, PlainBytes
  <2> QED
    BY <2>1, <2>2, <2>4
<1> HIDE DEF h, L, j
\* What is said of n more bytes.
<1>5. ASSUME NEW n \in 0..Len(d), NEW es \in Seq(Token), Len(es) = n, \A i \in 1..n : es[i] = d[i],
             NEW t \in Nat
      PROVE  /\ More(t, es) \in Parser /\ More(t, es).readState = "body" /\ More(t, es).start = m.first
             /\ More(t, es).headers = {m.line} /\ More(t, es).totalBytesRead = t
             /\ Says(More(t, es), j + n)
  <2> DEFINE q == More(t, es)
  <2>1. p.events \o es \in Seq(Event)
    BY <1>0, ConcatProperties, SeqMonotonic DEF Event, Parser
  <2>2. /\ q \in Parser /\ q.events = p.events \o es /\ q.readState = "body" /\ q.start = m.first
        /\ q.headers = {m.line} /\ q.totalBytesRead = t
    BY <1>0, <1>2, <2>1 DEF Notify, Parser
  <2> HIDE DEF q
  <2>3. n \in Nat /\ \A i \in 1..n : es[i] = Body[j + i]
    BY <1>0, <1>4, <1>5
  <2>4. Says(q, j + n)
    BY <1>0, <1>2, <1>5, <2>2, <2>3, SaysMore, Zenon
  <2> QED
    BY <2>2, <2>4 DEF q
<1> HIDE DEF More
<1>6. K \in Nat /\ K >= h
  BY <1>0, <1>1, <1>2
<1>7. CASE hasLength(p) /\ Needed(p, L) <= Len(d)
  <2> DEFINE n == L - j
             q == More(L, SubSeq(d, 1, n))
  <2>1. n \in 0..Len(d) /\ n \in Int /\ n <= Len(d) /\ 0 <= n /\ j + n = L
    BY <1>0, <1>1, <1>2, <1>7 DEF Needed, j
  <2>2. Needed(p, L) = n
    BY DEF Needed, j
  <2> HIDE DEF n
  <2>3. SubSeq(d, 1, n) \in Seq(Token) /\ Len(SubSeq(d, 1, n)) = n /\ \A i \in 1..n : SubSeq(d, 1, n)[i] = d[i]
    BY <1>0, <2>1, TakeFacts
  <2>4. q \in Parser /\ q.readState = "body" /\ Says(q, j + n)
    <3> DEFINE es == SubSeq(d, 1, n)
    <3> HIDE DEF es, q
    <3>1. L \in Nat /\ es \in Seq(Token) /\ Len(es) = n /\ \A i \in 1..n : es[i] = d[i]
      BY <1>1, <2>3 DEF es
    <3>2. More(L, es) \in Parser /\ More(L, es).readState = "body" /\ Says(More(L, es), j + n)
      BY <1>5, <2>1, <3>1, ZenonT(60)
    <3> QED
      BY <3>2 DEF es, q
  <2> HIDE DEF q
  <2>5. ParseBody(p, d, L) = Done(q)
    BY <1>7, <2>2 DEF ParseBody, More, q
  <2>6. Done(q) \in Parser /\ Done(q).readState = "done" /\ Done(q).events = q.events \o <<"complete">>
    BY <2>4, DoneType DEF Stopped
  <2>7. SaysAll(Done(q), L)
    BY <1>1, <2>1, <2>4, <2>6, SaysEnd
  <2>8. IsDone(m, Done(q), K)
    <3>1. m.body = "length"
      BY <1>3, <1>7
    <3> QED
      BY <1>6, <2>6, <2>7, <3>1 DEF IsDone, h, L
  <2>9. Stands(m, Done(q), K)
    BY <2>8 DEF Stands
  <2> QED
    BY <1>3, <2>5, <2>9, ReturnForward DEF L
<1>8. CASE ~(hasLength(p) /\ Needed(p, L) <= Len(d))
  <2> DEFINE q == More(j + Len(d), d)
  <2>1. ParseBody(p, d, L) = q
    BY <1>8 DEF ParseBody, More, j
  <2>2. j + Len(d) \in Nat /\ Len(d) \in 0..Len(d)
    BY <1>0, <1>2
  <2>3. /\ q \in Parser /\ q.readState = "body" /\ q.start = m.first /\ q.headers = {m.line}
        /\ q.totalBytesRead = j + Len(d) /\ Says(q, j + Len(d))
    BY <1>0, <1>5, <2>2
  <2> HIDE DEF q
  <2>4. /\ j + Len(d) \in 0..L /\ (m.body = "length" => j + Len(d) < L) /\ K = h + (j + Len(d))
    <3>1. K = h + (j + Len(d))
      BY <1>0, <1>1, <1>2
    <3>2. CASE m.body = "length"
      <4>1. ~(L - j <= Len(d))
        BY <1>3, <1>8, <3>2 DEF Needed, j
      <4> QED
        BY <1>0, <1>1, <1>2, <3>1, <4>1
    <3>3. CASE m.body = "open"
      <4>1. K <= h + L
        BY <3>3 DEF h, L
      <4> QED
        BY <1>0, <1>1, <1>2, <3>1, <3>3, <4>1
    <3> QED
      BY <1>2, <3>2, <3>3
  <2>5. InPlain(m, q, K)
    BY <1>2, <2>3, <2>4 DEF InPlain, h, L
  <2>6. Stands(m, q, K)
    BY <2>5 DEF Stands
  <2> QED
    BY <1>3, <2>1, <2>6, ReturnForward DEF L
<1> QED
  BY <1>7, <1>8

\* A parser in the body of a chunked request, and what it needs to stand there.
Chunks(m, p) ==
  p.readState = "body" /\ m.body = "chunked" /\ p.start = m.first /\ p.headers = {m.line}
Base(m, i) == HeadLen(m) + 6 * i

LEMMA BaseFacts ==
  ASSUME NEW m \in Message, NEW i \in 0..BodyLen
  PROVE  Base(m, i) \in Nat /\ Base(m, i) >= HeadLen(m) /\ i \in Nat /\ BodyLen \in Nat \ {0}
         /\ Base(m, i) + 6 = Base(m, i + 1) /\ HeadLen(m) \in Nat
<1>1. HeadLen(m) \in Nat /\ BodyLen \in Nat \ {0}
  BY MessageTypes, BodyFacts
<1>2. HeadLen(m) + 6 * i \in Nat /\ HeadLen(m) + 6 * i >= HeadLen(m)
      /\ (HeadLen(m) + 6 * i) + 6 = HeadLen(m) + 6 * (i + 1)
  BY <1>1
<1> QED
  BY <1>1, <1>2 DEF Base

\* The places of such a parser.
LEMMA ChunkStands ==
  ASSUME NEW m \in Message, NEW p, Chunks(m, p), NEW i \in 0..BodyLen
  PROVE  /\ \A k \in Base(m, i)..(Base(m, i) + 1) :
              p.chunkState = "size" /\ Saves(m, p, Base(m, i), k) /\ Says(p, i) => Stands(m, p, k)
         /\ p.chunkState = "data" /\ i < BodyLen /\ p.chunkSize = 1 /\ p.savedString = <<>> /\ Says(p, i)
              => Stands(m, p, Base(m, i) + 3)
         /\ p.chunkState = "data_cr" /\ i < BodyLen /\ p.savedString = <<>> /\ Says(p, i + 1)
              => Stands(m, p, Base(m, i) + 4)
         /\ p.chunkState = "data_lf" /\ i < BodyLen /\ p.savedString = <<>> /\ Says(p, i + 1)
              => Stands(m, p, Base(m, i) + 5)
         /\ p.chunkState = "trailer" /\ i = BodyLen /\ p.savedString = <<>> /\ Says(p, i)
              => Stands(m, p, Base(m, i) + 3)
BY Zenon DEF Chunks, Base, Stands, InChunk

LEMMA ChunkLines ==
  ASSUME NEW m \in Message, m.body = "chunked", NEW i \in 0..BodyLen
  PROVE  /\ IsLine(m, Base(m, i), Base(m, i) + 3)
         /\ ByteAt(m, Base(m, i) + 1) = IF i < BodyLen THEN "size1" ELSE "size0"
         /\ i < BodyLen => /\ ByteAt(m, Base(m, i) + 4) = Body[i + 1]
                           /\ ByteAt(m, Base(m, i) + 5) = "CR" /\ ByteAt(m, Base(m, i) + 6) = "LF"
         /\ i = BodyLen => IsLine(m, Base(m, i) + 3, Base(m, i) + 5)
<1> DEFINE b == Base(m, i)
<1>1. b \in Nat /\ i \in Nat /\ BodyLen \in Nat
  BY BaseFacts
<1>2. \A r \in 1..6 : ByteAt(m, b + r) = ChunkByte(i, r)
  BY <1>1, ChunkBytes DEF Base
<1> HIDE DEF b
<1>3. /\ ByteAt(m, b + 1) = ChunkByte(i, 1) /\ ByteAt(m, b + 2) = ChunkByte(i, 2)
      /\ ByteAt(m, b + 3) = ChunkByte(i, 3) /\ ByteAt(m, b + 4) = ChunkByte(i, 4)
      /\ ByteAt(m, b + 5) = ChunkByte(i, 5) /\ ByteAt(m, b + 6) = ChunkByte(i, 6)
  BY <1>2
<1>4. /\ ChunkByte(i, 1) = (IF i < BodyLen THEN "size1" ELSE "size0")
      /\ ChunkByte(i, 2) = "CR" /\ ChunkByte(i, 3) = "LF"
      /\ i < BodyLen => /\ ChunkByte(i, 4) = Body[i + 1] /\ ChunkByte(i, 5) = "CR" /\ ChunkByte(i, 6) = "LF"
      /\ i = BodyLen => ChunkByte(i, 4) = "CR" /\ ChunkByte(i, 5) = "LF"
  BY <1>1 DEF ChunkByte
<1>5. IsLine(m, b, b + 3)
  <2>1. \A x \in (b + 1)..((b + 3) - 2) : x = b + 1
    BY <1>1
  <2>2. b + 3 \in Nat /\ b <= (b + 3) - 2 /\ (b + 3) - 1 = b + 2
    BY <1>1
  <2> QED
    BY <1>1, <1>3, <1>4, <2>1, <2>2 DEF IsLine
<1>6. i = BodyLen => IsLine(m, b + 3, b + 5)
  <2>1. \A x \in ((b + 3) + 1)..((b + 5) - 2) : FALSE
    BY <1>1
  <2>2. b + 3 \in Nat /\ b + 5 \in Nat /\ b + 3 <= (b + 5) - 2 /\ (b + 5) - 1 = b + 4
    BY <1>1
  <2> QED
    BY <1>3, <1>4, <2>1, <2>2 DEF IsLine
<1>7. ByteAt(m, b + 1) = IF i < BodyLen THEN "size1" ELSE "size0"
  BY <1>3, <1>4
<1>8. i < BodyLen => ByteAt(m, b + 4) = Body[i + 1] /\ ByteAt(m, b + 5) = "CR" /\ ByteAt(m, b + 6) = "LF"
  BY <1>3, <1>4
<1> QED
  BY <1>5, <1>6, <1>7, <1>8 DEF b

LEMMA SizesAre ==
  ASSUME NEW line, Len(line) = 1
  PROVE  (line[1] = "size1" => ChunkSize(line) = {1}) /\ (line[1] = "size0" => ChunkSize(line) = {0})
<1>1. Len(SizeLine) = 3 /\ SizeLine[1] = "size0" /\ SizeLine[2] = "size1" /\ SizeLine[3] = "size2"
  BY DEF SizeLine
<1>2. SizeToken(0) = "size0" /\ SizeToken(1) = "size1" /\ SizeToken(2) = "size2"
  BY <1>1 DEF SizeToken
<1>3. /\ {n \in 0..2 : SizeToken(n) = "size1"} = {1} /\ {n \in 0..2 : SizeToken(n) = "size0"} = {0}
  <2>1. \A n \in 0..2 : n = 0 \/ n = 1 \/ n = 2
    OBVIOUS
  <2> QED
    BY <1>2, <2>1
<1>4. "size0" \in {SizeLine[i] : i \in 1..Len(SizeLine)} /\ "size1" \in {SizeLine[i] : i \in 1..Len(SizeLine)}
  BY <1>1
<1>5. Len(SizeLine) - 1 = 2
  BY <1>1
<1> QED
  BY <1>3, <1>4, <1>5 DEF ChunkSize

LEMMA SizeForward ==
  ASSUME NEW m, NEW K, NEW p, NEW k, NEW d, Along(m, K, p, k, d), Chunks(m, p),
         NEW i \in 0..BodyLen, p.chunkState = "size", k \in Base(m, i)..(Base(m, i) + 1),
         Saves(m, p, Base(m, i), k), Says(p, i)
  PROVE  Forward(m, K, d, SizeRound(p, d))
<1> DEFINE g == GetLine(d)
           line == Saved(p, g.line)
           a == Base(m, i)
           e == a + 3
<1>0. /\ m \in Message /\ p \in Parser /\ d \in Seq(Token) /\ d # <<>> /\ k \in Nat
      /\ Carries(m, k, d) /\ k + Len(d) = K /\ ByteAt(m, k + Len(d)) # "CR" /\ Len(d) \in Nat \ {0}
      /\ m.body = "chunked"
  BY EmptySeq DEF Along, Chunks
<1>1. a \in Nat /\ BodyLen \in Nat
  BY <1>0, BaseFacts
<1>2. IsLine(m, a, e) /\ ByteAt(m, a + 1) = IF i < BodyLen THEN "size1" ELSE "size0"
  BY <1>0, ChunkLines
<1>3. LineSaved(m, p, d, a, e, k) \/ LineFound(m, p, d, a, e, k)
  <2> HIDE DEF a
  <2>1. a <= k /\ k <= e - 2 /\ Saves(m, p, a, k)
    BY <1>0, <1>1 DEF a
  <2> HIDE DEF e
  <2> QED
    BY <1>0, <1>2, <2>1, LineRead
<1>4. CASE LineSaved(m, p, d, a, e, k)
  <2>1. ~g.found /\ k + Len(d) <= e - 2 /\ Saves(m, SaveData(p, d), a, k + Len(d))
    BY <1>4, Zenon DEF LineSaved
  <2>2. SizeRound(p, d) = Returns(SaveData(p, d))
    BY <2>1, Zenon DEF SizeRound
  <2>3. K \in a..(a + 1) /\ Saves(m, SaveData(p, d), a, K)
    BY <1>0, <1>1, <2>1
  <2>4. Chunks(m, SaveData(p, d)) /\ SaveData(p, d).chunkState = "size" /\ Says(SaveData(p, d), i)
    BY <1>0, SaveDataIs DEF Chunks, Says
  <2>5. Stands(m, SaveData(p, d), K)
    BY <1>0, <2>3, <2>4, ChunkStands, Zenon
  <2> QED
    BY <2>2, <2>5, ReturnForward
<1>5. CASE LineFound(m, p, d, a, e, k)
  <2>1. g.found /\ g.used = e - k /\ g.used \in 1..Len(d) /\ Carries(m, a, line) /\ Len(line) = e - 2 - a
    BY <1>5, Zenon DEF LineFound
  <2>2. Len(line) = 1 /\ line[1] = ByteAt(m, a + 1)
    <3>1. Len(line) = 1
      BY <1>1, <2>1
    <3>2. 1 \in 1..Len(line)
      BY <3>1
    <3> HIDE DEF line
    <3> QED
      BY <2>1, <3>1, <3>2, Zenon DEF Carries
  <2> DEFINE size == IF i < BodyLen THEN 1 ELSE 0
             sizes == ChunkSize(line)
             q == [Fresh(p) EXCEPT !.chunkSize = size, !.chunkState = IF size = 0 THEN "trailer" ELSE "data"]
  <2>3. sizes = {size}
    <3> HIDE DEF line
    <3> QED
      BY <1>2, <2>2, SizesAre
  <2>4. SizeRound(p, d) = GoOn(q, d, g.used)
    <3>1. (CHOOSE x \in sizes : TRUE) = size /\ sizes # {}
      <4> HIDE DEF sizes, size
      <4> QED
        BY <2>3
    <3> HIDE DEF size
    <3> QED
      BY <2>1, <3>1, Zenon DEF SizeRound
  <2>5. k + g.used = a + 3
    BY <1>0, <1>1, <2>1
  <2>6. Stands(m, q, a + 3)
    <3>1. /\ Fresh(p) \in Parser /\ Fresh(p).savedString = <<>> /\ Fresh(p).readState = p.readState
          /\ Fresh(p).start = p.start /\ Fresh(p).headers = p.headers /\ Fresh(p).events = p.events
      BY <1>0, FreshIs
    <3>2. /\ q.readState = p.readState /\ q.start = p.start /\ q.headers = p.headers /\ q.events = p.events
          /\ q.savedString = <<>> /\ q.chunkSize = size /\ q.chunkState = IF size = 0 THEN "trailer" ELSE "data"
      BY <3>1 DEF Parser
    <3> HIDE DEF q
    <3>3. Chunks(m, q) /\ Says(q, i)
      BY <3>2 DEF Chunks, Says
    <3>4. CASE i < BodyLen
      <4>1. q.chunkState = "data" /\ q.chunkSize = 1
        BY <3>2, <3>4
      <4> QED
        BY <1>0, <3>2, <3>3, <3>4, <4>1, ChunkStands, Zenon
    <3>5. CASE ~(i < BodyLen)
      <4>1. q.chunkState = "trailer" /\ i = BodyLen
        BY <1>1, <3>2, <3>5
      <4> QED
        BY <1>0, <3>2, <3>3, <4>1, ChunkStands, Zenon
    <3> QED
      BY <3>4, <3>5
  <2> HIDE DEF q, g, a
  <2>7. Stands(m, q, k + g.used)
    BY <2>5, <2>6, Zenon
  <2> QED
    BY <2>1, <2>4, <2>7, GoForward
<1> QED
  BY <1>3, <1>4, <1>5

LEMMA DataForward ==
  ASSUME NEW m, NEW K, NEW p, NEW k, NEW d, Along(m, K, p, k, d), Chunks(m, p),
         NEW i \in 0..BodyLen, i < BodyLen, p.chunkState = "data", k = Base(m, i) + 3,
         p.chunkSize = 1, p.savedString = <<>>, Says(p, i)
  PROVE  Forward(m, K, d, DataRound(p, d))
<1> DEFINE s == SubSeq(d, 1, 1)
           t == p.totalBytesRead + 1
           o == [p EXCEPT !.totalBytesRead = t, !.chunkSize = 1 - 1, !.chunkState = "data_cr"]
           q == Notify(o, s)
<1>0. /\ m \in Message /\ p \in Parser /\ d \in Seq(Token) /\ k \in Nat /\ Carries(m, k, d)
      /\ Len(d) \in Nat \ {0} /\ m.body = "chunked"
  BY EmptySeq DEF Along, Chunks
<1>1. Base(m, i) \in Nat /\ BodyLen \in Nat /\ i \in Nat
  BY <1>0, BaseFacts
<1>2. 1 \in Int /\ 1 <= Len(d) /\ 1 \in 1..Len(d) /\ t \in Nat
  BY <1>0 DEF Parser
<1>3. s \in Seq(Token) /\ Len(s) = 1 /\ s[1] = d[1]
  <2>1. s \in Seq(Token) /\ Len(s) = (IF 0 <= 1 THEN 1 ELSE 0) /\ \A x \in 1..1 : s[x] = d[x]
    BY <1>0, <1>2, TakeFacts
  <2> QED
    BY <2>1
<1>4. d[1] = Body[i + 1]
  <2>1. d[1] = ByteAt(m, k + 1)
    BY <1>0, <1>2 DEF Carries
  <2>2. k + 1 = Base(m, i) + 4
    BY <1>1
  <2> QED
    BY <1>0, <2>1, <2>2, ChunkLines
<1> HIDE DEF s, t
<1>5. DataRound(p, d) = GoOn(q, d, 1)
  <2>1. (IF p.chunkSize <= Len(d) THEN p.chunkSize ELSE Len(d)) = 1
    BY <1>2
  <2> QED
    BY <2>1 DEF DataRound, s, t
<1>6. /\ q \in Parser /\ q.events = p.events \o s /\ q.readState = p.readState /\ q.start = p.start
      /\ q.headers = p.headers /\ q.savedString = <<>> /\ q.chunkState = "data_cr"
  <2>1. p.events \o s \in Seq(Event)
    BY <1>0, <1>3, ConcatProperties, SeqMonotonic DEF Event, Parser
  <2>2. /\ o \in Parser /\ o.events = p.events /\ o.readState = p.readState /\ o.start = p.start
        /\ o.headers = p.headers /\ o.savedString = <<>> /\ o.chunkState = "data_cr"
    <3>1. 1 - 1 = 0 /\ 0 \in Nat
      OBVIOUS
    <3> QED
      BY <1>0, <1>2, <3>1 DEF Parser
  <2> HIDE DEF o
  <2> QED
    BY <2>1, <2>2 DEF Notify, Parser
<1> HIDE DEF q
<1>7. Says(q, i + 1)
  <2>1. \A x \in 1..1 : s[x] = Body[i + x]
    BY <1>3, <1>4
  <2> QED
    BY <1>0, <1>1, <1>3, <1>6, <2>1, SaysMore
<1>8. Stands(m, q, k + 1)
  <2>1. Chunks(m, q)
    BY <1>6 DEF Chunks
  <2>2. k + 1 = Base(m, i) + 4
    BY <1>1
  <2>3. Stands(m, q, Base(m, i) + 4)
    BY <1>0, <1>6, <1>7, <2>1, ChunkStands, Zenon
  <2> QED
    BY <2>2, <2>3
<1> QED
  BY <1>2, <1>5, <1>8, GoForward

LEMMA EndForward ==
  ASSUME NEW m, NEW K, NEW p, NEW k, NEW d, Along(m, K, p, k, d), Chunks(m, p),
         NEW i \in 0..BodyLen, i < BodyLen, p.savedString = <<>>, Says(p, i + 1)
  PROVE  /\ p.chunkState = "data_cr" /\ k = Base(m, i) + 4
              => Forward(m, K, d, EndRound(p, d, "CR", "data_lf"))
         /\ p.chunkState = "data_lf" /\ k = Base(m, i) + 5
              => Forward(m, K, d, EndRound(p, d, "LF", "size"))
<1> DEFINE q(next) == [p EXCEPT !.chunkState = next]
<1>0. /\ m \in Message /\ p \in Parser /\ d \in Seq(Token) /\ k \in Nat /\ Carries(m, k, d)
      /\ Len(d) \in Nat \ {0} /\ m.body = "chunked" /\ 1 \in 1..Len(d)
  BY EmptySeq DEF Along, Chunks
<1>1. Base(m, i) \in Nat /\ BodyLen \in Nat /\ i \in Nat /\ Base(m, i) + 6 = Base(m, i + 1)
  BY <1>0, BaseFacts
<1>2. d[1] = ByteAt(m, k + 1)
  BY <1>0 DEF Carries
<1>3. ByteAt(m, Base(m, i) + 5) = "CR" /\ ByteAt(m, Base(m, i) + 6) = "LF"
  BY <1>0, ChunkLines
<1>4. ASSUME NEW next
      PROVE  /\ Chunks(m, q(next)) /\ q(next).chunkState = next
             /\ q(next).savedString = <<>> /\ Says(q(next), i + 1)
  BY <1>0 DEF Parser, Chunks, Says
<1>5. \A byte, next : d[1] = byte => EndRound(p, d, byte, next) = GoOn(q(next), d, 1)
  BY DEF EndRound
<1> HIDE DEF q
<1>6. ASSUME p.chunkState = "data_cr", k = Base(m, i) + 4
      PROVE  Forward(m, K, d, EndRound(p, d, "CR", "data_lf"))
  <2>1. k + 1 = Base(m, i) + 5
    BY <1>1, <1>6
  <2>2. EndRound(p, d, "CR", "data_lf") = GoOn(q("data_lf"), d, 1)
    BY <1>2, <1>3, <1>5, <2>1
  <2>3. Stands(m, q("data_lf"), Base(m, i) + 5)
    BY <1>0, <1>4, ChunkStands, Zenon
  <2>4. Stands(m, q("data_lf"), k + 1)
    BY <2>1, <2>3
  <2> QED
    BY <1>0, <2>2, <2>4, GoForward
<1>7. ASSUME p.chunkState = "data_lf", k = Base(m, i) + 5
      PROVE  Forward(m, K, d, EndRound(p, d, "LF", "size"))
  <2>1. k + 1 = Base(m, i) + 6 /\ i + 1 \in 0..BodyLen
    BY <1>1, <1>7
  <2>2. EndRound(p, d, "LF", "size") = GoOn(q("size"), d, 1)
    BY <1>2, <1>3, <1>5, <2>1
  <2>3. Stands(m, q("size"), Base(m, i + 1))
    <3> DEFINE b == Base(m, i + 1)
    <3>1. b \in Nat
      BY <1>0, <2>1, BaseFacts
    <3>2. b \in b..(b + 1)
      BY <3>1
    <3>3. Saves(m, q("size"), b, b)
      BY <1>4, <3>1, NothingSaved
    <3> QED
      BY <1>0, <1>4, <2>1, <3>2, <3>3, ChunkStands, Zenon
  <2>4. Stands(m, q("size"), k + 1)
    BY <1>1, <2>1, <2>3
  <2> QED
    BY <1>0, <2>2, <2>4, GoForward
<1> QED
  BY <1>6, <1>7

LEMMA TrailerForward ==
  ASSUME NEW m, NEW K, NEW p, NEW k, NEW d, Along(m, K, p, k, d), Chunks(m, p),
         p.chunkState = "trailer", k = Base(m, BodyLen) + 3, p.savedString = <<>>, Says(p, BodyLen)
  PROVE  Forward(m, K, d, TrailerRound(p, d))
<1> DEFINE g == GetLine(d)
           line == Saved(p, g.line)
           a == Base(m, BodyLen) + 3
           e == Base(m, BodyLen) + 5
           q == Done(Fresh(p))
<1>0. /\ m \in Message /\ p \in Parser /\ d \in Seq(Token) /\ d # <<>> /\ k \in Nat
      /\ Carries(m, k, d) /\ k + Len(d) = K /\ ByteAt(m, k + Len(d)) # "CR" /\ Len(d) \in Nat \ {0}
      /\ m.body = "chunked"
  BY EmptySeq DEF Along, Chunks
<1>1. BodyLen \in 0..BodyLen /\ BodyLen \in Nat
  BY BodyFacts
<1>2. Base(m, BodyLen) \in Nat /\ Base(m, BodyLen) >= HeadLen(m) /\ HeadLen(m) \in Nat
  BY <1>0, <1>1, BaseFacts
<1>3. IsLine(m, a, e)
  BY <1>0, <1>1, ChunkLines
<1>4. a \in Nat /\ e \in Nat /\ e = a + 2 /\ k = a /\ K \in Nat /\ K >= HeadLen(m)
  BY <1>0, <1>2
<1> HIDE DEF a, e
<1>5. LineFound(m, p, d, a, e, k)
  <2>1. Saves(m, p, a, k) /\ a <= k /\ k <= e - 2
    BY <1>4, NothingSaved
  <2>2. LineSaved(m, p, d, a, e, k) \/ LineFound(m, p, d, a, e, k)
    BY <1>0, <1>3, <2>1, LineRead
  <2>3. ~(k + Len(d) <= e - 2)
    BY <1>0, <1>4
  <2> QED
    BY <2>2, <2>3, Zenon DEF LineSaved
<1>6. g.found /\ Len(line) = e - 2 - a
  BY <1>5, Zenon DEF LineFound
<1>7. line = <<>>
  <2>1. Saved(p, g.line) \in Seq(Token)
    BY <1>0, <1>6, GetLineTypes, SavedType
  <2>2. Len(line) = 0
    BY <1>4, <1>6
  <2> QED
    BY <2>1, <2>2, EmptySeq
<1>8. TrailerRound(p, d) = Returns(q)
  BY <1>6, <1>7, Zenon DEF TrailerRound
<1>9. Stands(m, q, K)
  <2>1. /\ Fresh(p) \in Parser /\ Fresh(p).readState = "body" /\ Fresh(p).events = p.events
    BY <1>0, FreshIs DEF Chunks
  <2>2. q \in Parser /\ q.readState = "done" /\ q.events = Fresh(p).events \o <<"complete">>
    BY <2>1, DoneType DEF Stopped
  <2>3. Says(Fresh(p), BodyLen)
    BY <2>1 DEF Says
  <2> HIDE DEF q
  <2>4. SaysAll(q, BodyLen)
    BY <1>1, <2>1, <2>2, <2>3, SaysEnd
  <2>5. IsDone(m, q, K)
    BY <1>0, <1>4, <2>2, <2>4 DEF IsDone
  <2> QED
    BY <2>5 DEF Stands
<1> QED
  BY <1>8, <1>9, ReturnForward

LEMMA ChunkForward ==
  ASSUME NEW m, NEW K, NEW p, NEW k, NEW d, Along(m, K, p, k, d), InChunk(m, p, k)
  PROVE  isChunked(p) /\ Forward(m, K, d, ChunkRound(p, d))
<1>0. Chunks(m, p) /\ m \in Message
  BY DEF InChunk, Chunks, Along
<1>1. isChunked(p)
  BY <1>0 DEF isChunked, isRequest, Chunks, Message, Said
<1>2. PICK i \in 0..BodyLen :
       \/ /\ p.chunkState = "size" /\ k \in Base(m, i)..(Base(m, i) + 1)
          /\ Saves(m, p, Base(m, i), k) /\ Says(p, i)
       \/ /\ p.chunkState = "data" /\ i < BodyLen /\ k = Base(m, i) + 3 /\ p.chunkSize = 1
          /\ p.savedString = <<>> /\ Says(p, i)
       \/ /\ p.chunkState = "data_cr" /\ i < BodyLen /\ k = Base(m, i) + 4
          /\ p.savedString = <<>> /\ Says(p, i + 1)
       \/ /\ p.chunkState = "data_lf" /\ i < BodyLen /\ k = Base(m, i) + 5
          /\ p.savedString = <<>> /\ Says(p, i + 1)
       \/ /\ p.chunkState = "trailer" /\ i = BodyLen /\ k = Base(m, i) + 3
          /\ p.savedString = <<>> /\ Says(p, i)
  BY Zenon DEF InChunk, Base
<1>3. CASE p.chunkState = "size"
  <2>1. k \in Base(m, i)..(Base(m, i) + 1) /\ Saves(m, p, Base(m, i), k) /\ Says(p, i)
    BY <1>2, <1>3
  <2>2. Forward(m, K, d, SizeRound(p, d))
    BY <1>0, <1>3, <2>1, SizeForward, Zenon
  <2> QED
    BY <1>1, <1>3, <2>2 DEF ChunkRound
<1>4. CASE p.chunkState = "data"
  <2>1. i < BodyLen /\ k = Base(m, i) + 3 /\ p.chunkSize = 1 /\ p.savedString = <<>> /\ Says(p, i)
    BY <1>2, <1>4
  <2>2. Forward(m, K, d, DataRound(p, d))
    BY <1>0, <1>4, <2>1, DataForward, Zenon
  <2> QED
    BY <1>1, <1>4, <2>2 DEF ChunkRound
<1>5. CASE p.chunkState = "data_cr"
  <2>1. i < BodyLen /\ k = Base(m, i) + 4 /\ p.savedString = <<>> /\ Says(p, i + 1)
    BY <1>2, <1>5
  <2>2. Forward(m, K, d, EndRound(p, d, "CR", "data_lf"))
    BY <1>0, <1>5, <2>1, EndForward, Zenon
  <2> QED
    BY <1>1, <1>5, <2>2 DEF ChunkRound
<1>6. CASE p.chunkState = "data_lf"
  <2>1. i < BodyLen /\ k = Base(m, i) + 5 /\ p.savedString = <<>> /\ Says(p, i + 1)
    BY <1>2, <1>6
  <2>2. Forward(m, K, d, EndRound(p, d, "LF", "size"))
    BY <1>0, <1>6, <2>1, EndForward, Zenon
  <2> QED
    BY <1>1, <1>6, <2>2 DEF ChunkRound
<1>7. CASE p.chunkState = "trailer"
  <2>1. k = Base(m, BodyLen) + 3 /\ p.savedString = <<>> /\ Says(p, BodyLen)
    BY <1>2, <1>7
  <2>2. Forward(m, K, d, TrailerRound(p, d))
    BY <1>0, <1>7, <2>1, TrailerForward, Zenon
  <2> QED
    BY <1>1, <1>7, <2>2 DEF ChunkRound
<1> QED
  BY <1>2, <1>3, <1>4, <1>5, <1>6, <1>7

\* What a reader of a whole message can come to: a body of which the end is the end of
\* the connection is no longer than Body.
LEMMA RoundForward ==
  ASSUME NEW m, NEW K, NEW p, NEW k, NEW d, Along(m, K, p, k, d), Stands(m, p, k),
         m.body = "open" => K <= HeadLen(m) + BodyLen
  PROVE  Forward(m, K, d, Round(Start(p, d), BodyLen))
<1> DEFINE r == Start(p, d)
<1>0. /\ r.parser = p /\ r.data = d /\ d # <<>> /\ k \in Nat /\ Len(d) \in Nat /\ k + Len(d) = K
      /\ m \in Message
  BY LenProperties DEF Start, Along
<1>1. CASE InHead(m, p, k)
  <2>1. p.readState \in {"line", "head"}
    BY <1>1 DEF InHead
  <2>2. Round(r, BodyLen) = HeadRound(p, d)
    BY <1>0, <2>1 DEF Round
  <2> QED
    BY <1>1, <2>2, HeadForward
<1>2. CASE InPlain(m, p, k)
  <2>1. p.readState = "body" /\ ~isChunked(p) /\ Forward(m, K, d, Returns(ParseBody(p, d, BodyLen)))
    BY <1>2, PlainForward DEF InPlain
  <2>2. Round(r, BodyLen) = Returns(ParseBody(p, d, BodyLen))
    BY <1>0, <2>1 DEF Round
  <2> QED
    BY <2>1, <2>2
<1>3. CASE InChunk(m, p, k)
  <2>1. p.readState = "body" /\ isChunked(p) /\ Forward(m, K, d, ChunkRound(p, d))
    BY <1>3, ChunkForward DEF InChunk
  <2>2. Round(r, BodyLen) = ChunkRound(p, d)
    BY <1>0, <2>1 DEF Round
  <2> QED
    BY <2>1, <2>2
<1>4. CASE IsDone(m, p, k)
  <2>1. p.readState = "done"
    BY <1>4 DEF IsDone
  <2>2. Round(r, BodyLen) = Returns(p)
    BY <1>0, <2>1 DEF Round
  <2>3. K >= HeadLen(m)
    <3>1. k >= HeadLen(m) /\ HeadLen(m) \in Nat
      BY <1>0, <1>4, MessageTypes DEF IsDone
    <3> QED
      BY <1>0, <3>1
  <2>4. IsDone(m, p, K)
    BY <1>4, <2>3 DEF IsDone
  <2>5. Stands(m, p, K)
    BY <2>4 DEF Stands
  <2> QED
    BY <2>2, <2>5, ReturnForward
<1> QED
  BY <1>1, <1>2, <1>3, <1>4 DEF Stands

\* parse brings the parser to the end of what was read, wherever that is but between
\* a CR and its LF.
LEMMA ParseForward ==
  ASSUME NEW m, NEW K, NEW p, NEW k, NEW d, Along(m, K, p, k, d), Stands(m, p, k),
         m.body = "open" => K <= HeadLen(m) + BodyLen
  PROVE  Stands(m, Parse(p, d, BodyLen), K)
<1> DEFINE L == Len(d)
           Reach(r) == \E j \in Nat : Stands(m, r.parser, j) /\ Carries(m, j, r.data) /\ j + Len(r.data) = K
<1>0. /\ m \in Message /\ p \in Parser /\ d \in Seq(Token) /\ k \in Nat /\ Carries(m, k, d)
      /\ k + L = K /\ ByteAt(m, K) # "CR" /\ L \in Nat /\ BodyLen \in Nat
  BY LenProperties, BodyFacts DEF Along
<1>1. PICK run : IsParsing(p, d, BodyLen, L, run)
  BY <1>0, ParseRounds
<1>2. /\ run[0] = Start(p, d) /\ Parse(p, d, BodyLen) = WithError(p, run[L].parser)
      /\ \A i \in 1..L : run[i] = Round(run[i - 1], BodyLen)
  BY <1>1 DEF IsParsing
<1> DEFINE S == {i \in 0..L : run[i] \in Loop /\ Reach(run[i]) /\ Len(run[i].data) <= L - i}
<1>3. 0 \in S
  <2>1. run[0].parser = p /\ run[0].data = d /\ run[0] \in Loop
    BY <1>0, <1>2 DEF Start, Loop
  <2>2. Reach(run[0])
    BY <1>0, <2>1
  <2>3. 0 \in 0..L /\ Len(run[0].data) <= L - 0
    BY <1>0, <2>1
  <2> QED
    BY <2>1, <2>2, <2>3
<1>4. ASSUME NEW i \in 0..L, i < L, i \in S PROVE i + 1 \in S
  <2> DEFINE r == run[i]
             s == run[i + 1]
  <2>1. r \in Loop /\ Reach(r) /\ Len(r.data) <= L - i
    BY <1>4
  <2>2. s = Round(r, BodyLen)
    <3>1. i + 1 \in 1..L /\ (i + 1) - 1 = i
      BY <1>0, <1>4
    <3> QED
      BY <1>2, <3>1
  <2> HIDE DEF r, s
  <2>3. s \in Loop
    BY <1>0, <2>1, <2>2, RoundMoves DEF Moves
  <2>4. r.parser \in Parser /\ r.data \in Seq(Token) /\ r = Start(r.parser, r.data) /\ Len(r.data) \in Nat
    BY <2>1, LenProperties DEF Loop, Start
  <2>5. Reach(s) /\ Len(s.data) <= L - (i + 1)
    <3>1. CASE r.data = <<>>
      <4>1. s = r /\ Len(r.data) = 0
        BY <2>2, <3>1 DEF Round
      <4>2. 0 <= L - (i + 1)
        BY <1>0, <1>4
      <4> QED
        BY <2>1, <4>1, <4>2
    <3>2. CASE r.data # <<>>
      <4>1. PICK j \in Nat : Stands(m, r.parser, j) /\ Carries(m, j, r.data) /\ j + Len(r.data) = K
        BY <2>1
      <4>2. Along(m, K, r.parser, j, r.data)
        BY <1>0, <2>4, <3>2, <4>1, Zenon DEF Along
      <4>3. Forward(m, K, r.data, Round(Start(r.parser, r.data), BodyLen))
        BY <4>1, <4>2, RoundForward, Zenon
      <4>4. Forward(m, K, r.data, s)
        BY <2>2, <2>4, <4>3
      <4>5. Reach(s) /\ Len(s.data) < Len(r.data)
        BY <4>4, Zenon DEF Forward
      <4>6. Len(s.data) \in Nat
        BY <2>3, LenProperties DEF Loop
      <4>7. \A x, y \in Nat : x < y /\ y <= L - i => x <= L - (i + 1)
        BY <1>0, <1>4
      <4>8. Len(r.data) \in Nat /\ Len(r.data) <= L - i
        BY <2>1, <2>4
      <4>9. Len(s.data) <= L - (i + 1)
        BY <4>5, <4>6, <4>7, <4>8
      <4> QED
        BY <4>5, <4>9
    <3> QED
      BY <3>1, <3>2
  <2>6. i + 1 \in 0..L
    BY <1>0, <1>4
  <2> QED
    BY <2>3, <2>5, <2>6 DEF s
<1>5. L \in S
  <2> HIDE DEF S, L
  <2>1. S \in SUBSET (0..L)
    BY DEF S
  <2>2. S = 0..L
    BY <1>0, <1>3, <1>4, <2>1, Upward
  <2> QED
    BY <1>0, <2>2
<1> DEFINE q == run[L].parser
<1>6. Stands(m, q, K)
  <2>1. run[L] \in Loop /\ Reach(run[L]) /\ Len(run[L].data) <= L - L
    BY <1>5
  <2>2. Len(run[L].data) \in Nat
    BY <2>1, LenProperties DEF Loop
  <2>3. Len(run[L].data) = 0
    BY <1>0, <2>1, <2>2
  <2>4. PICK j \in Nat : Stands(m, q, j) /\ j + Len(run[L].data) = K
    BY <2>1
  <2>5. j = K
    BY <2>3, <2>4
  <2> QED
    BY <2>4, <2>5
<1>7. q.readState # "error"
  BY <1>6 DEF Stands, InHead, InPlain, InChunk, IsDone
<1> QED
  BY <1>2, <1>6, <1>7 DEF WithError

\* The end of the connection ends a body of which the length is not known.
LEMMA EOFStands ==
  ASSUME NEW m \in Message, NEW p \in Parser, NEW k \in Nat, Stands(m, p, k)
  PROVE  Stands(m, SetEOF(p), k)
<1>1. CASE ~AtEOF(p)
  BY <1>1 DEF SetEOF
<1>2. CASE AtEOF(p)
  <2>1. SetEOF(p) = Done(p) /\ p.readState = "body" /\ p.start # "request"
    BY <1>2 DEF SetEOF, AtEOF, isRequest
  <2>2. InPlain(m, p, k) /\ m.body = "open"
    <3>1. InPlain(m, p, k) \/ InChunk(m, p, k)
      BY <2>1 DEF Stands, InHead, IsDone
    <3>2. m.body \in {"length", "chunked"} => m.first = "request"
      BY DEF Message, Said
    <3> QED
      BY <2>1, <3>1, <3>2 DEF InPlain, InChunk
  <2>3. Done(p) \in Parser /\ Done(p).readState = "done" /\ Done(p).events = p.events \o <<"complete">>
    BY <2>1, DoneType DEF Stopped
  <2>4. Says(p, p.totalBytesRead) /\ p.totalBytesRead \in 0..BodyLen /\ k >= HeadLen(m)
    <3>1. HeadLen(m) \in Nat /\ BodyLen \in Nat
      BY MessageTypes, BodyFacts
    <3> QED
      BY <2>2, <3>1 DEF InPlain
  <2>5. SaysAll(Done(p), p.totalBytesRead)
    BY <2>3, <2>4, SaysEnd
  <2>6. IsDone(m, Done(p), k)
    BY <2>2, <2>3, <2>4, <2>5, Zenon DEF IsDone
  <2> QED
    BY <2>1, <2>6 DEF Stands
<1> QED
  BY <1>1, <1>2

\* A parser that has read nothing may read any message.
LEMMA NothingRead ==
  ASSUME NEW m \in Message, NEW n \in Message, NEW p, Stands(m, p, 0)
  PROVE  Stands(n, p, 0)
<1>1. HeadLen(m) \in {6, 10} /\ BodyLen \in Nat
  BY MessageTypes, BodyFacts
<1>2. ~InPlain(m, p, 0) /\ ~IsDone(m, p, 0)
  BY <1>1 DEF InPlain, IsDone
<1>3. ~InChunk(m, p, 0)
  <2> SUFFICES ASSUME InChunk(m, p, 0) PROVE FALSE
    OBVIOUS
  <2>1. PICK i \in 0..BodyLen :
          \/ 0 \in (HeadLen(m) + 6 * i)..((HeadLen(m) + 6 * i) + 1)
          \/ 0 = (HeadLen(m) + 6 * i) + 3 \/ 0 = (HeadLen(m) + 6 * i) + 4
          \/ 0 = (HeadLen(m) + 6 * i) + 5
    BY Zenon DEF InChunk
  <2> QED
    BY <1>1, <2>1
<1>4. InHead(m, p, 0)
  BY <1>2, <1>3 DEF Stands
<1>5. /\ p.events = <<>> /\ p.chunkState = "size" /\ p.totalBytesRead = 0
      /\ p.readState = "line" /\ p.start = "none" /\ p.headers = {} /\ Len(p.savedString) = 0 - 0
  BY <1>1, <1>4 DEF InHead, Saves
<1>6. Saves(n, p, 0, 0)
  BY <1>5 DEF Saves, Carries
<1>7. InHead(n, p, 0)
  BY <1>5, <1>6 DEF InHead
<1> QED
  BY <1>7 DEF Stands

-----------------------------------------------------------------------------
(* Bytes that are given, sent and read stay what the message has.          *)

\* Of more data, what the connection does not take is left in the buffer.
LEMMA MoreFlows ==
  ASSUME NEW m, NEW p, NEW way \in Seq(Token), NEW k \in Nat, Stands(m, p, k), Carries(m, k, way),
         NEW given, k + Len(way) = given, NEW data \in Seq(Token), Carries(m, given, data),
         NEW n \in 0..Len(data), NEW f, f.buffer = Drop(data, n)
  PROVE  Flows(m, given + Len(data), p, way \o SubSeq(data, 1, n), f)
<1> DEFINE s == SubSeq(data, 1, n)
           t == Drop(data, n)
           l == Len(data)
<1>1. Len(way) \in Nat /\ l \in Nat /\ given \in Nat /\ n \in Int /\ n <= l
  BY LenProperties
<1>2. /\ Carries(m, given, s) /\ Len(s) = n /\ Carries(m, given + n, t) /\ Len(t) = l - n
  BY <1>1, CarriesFacts
<1>3. s \in Seq(Token)
  BY <1>1, TakeFacts
<1> HIDE DEF s, t, l
<1>4. Carries(m, k, way \o s) /\ Len(way \o s) = Len(way) + n
  <2>1. Carries(m, k + Len(way), s)
    BY <1>2
  <2>2. Carries(m, k, way \o s) /\ Len(way \o s) = Len(way) + Len(s)
    BY <1>3, <2>1, CarriesConcat, ZenonT(60)
  <2> QED
    BY <1>2, <2>2
<1>5. k + Len(way \o s) = given + n /\ k + Len(way \o s) <= given + l
      /\ (k + Len(way \o s)) + Len(t) = given + l
  <2> DEFINE u == Len(way \o s)
             v == Len(t)
             w == Len(way)
  <2>1. /\ u = w + n /\ v = l - n /\ w \in Nat /\ l \in Nat /\ given \in Nat /\ n \in 0..l
        /\ k + w = given /\ k \in Nat
    BY <1>1, <1>2, <1>4 DEF l
  <2> HIDE DEF u, v, w
  <2>2. k + u = given + n /\ k + u <= given + l /\ (k + u) + v = given + l
    BY <2>1
  <2> QED
    BY <2>2 DEF u, v
<1>6. Carries(m, k + Len(way \o s), t)
  BY <1>2, <1>5, Zenon
<1>7. f.buffer = t
  BY DEF t
<1>8. Flows(m, given + l, p, way \o s, f)
  BY <1>4, <1>5, <1>6, <1>7, Zenon DEF Flows
<1> QED
  BY <1>8 DEF s, l

\* The message and what was given of it do not depend on the rest of an end.
Keeps(end, e, f) ==
  /\ f.body = e.body /\ f.sent = e.sent /\ f.completed = e.completed
  /\ Begun(end, f) <=> Begun(end, e)

LEMMA KeepsHanded ==
  ASSUME NEW end, NEW e, NEW f, Keeps(end, e, f)
  PROVE  MessageOf(end, f) = MessageOf(end, e) /\ Handed(end, f) = Handed(end, e)
<1>1. MessageOf(end, f) = MessageOf(end, e)
  BY DEF Keeps, MessageOf
<1>2. \A m : Given(m, f) = Given(m, e)
  BY DEF Keeps, Given
<1> QED
  BY <1>1, <1>2, Zenon DEF Keeps, Handed

LEMMA FlowKept ==
  ASSUME NEW end, NEW e, NEW f, NEW p, NEW way, Keeps(end, e, f),
         f.up => e.up /\ f.buffer = e.buffer, FlowOf(end, e, p, way)
  PROVE  FlowOf(end, f, p, way)
<1>1. MessageOf(end, f) = MessageOf(end, e) /\ Handed(end, f) = Handed(end, e)
  BY KeepsHanded
<1> QED
  BY <1>1 DEF FlowOf, Flows

LEMMA HandedFacts ==
  ASSUME NEW end \in Sides, NEW e \in End
  PROVE  LET m == MessageOf(end, e)
         IN  /\ m \in Message /\ Handed(end, e) \in Nat
             /\ m.body = "open" => Handed(end, e) <= HeadLen(m) + BodyLen
<1> DEFINE m == MessageOf(end, e)
<1>1. m \in Message /\ e.sent \in 0..BodyLen /\ BodyLen \in Nat
  BY MessageOfType, BodyFacts DEF End
<1>2. HeadLen(m) \in Nat
  BY <1>1, MessageTypes
<1> HIDE DEF m
<1>3. Given(m, e) \in Nat /\ (m.body = "open" => Given(m, e) = e.sent)
  <2>1. 6 * e.sent + (IF e.completed THEN 5 ELSE 0) \in Nat
    BY <1>1
  <2> QED
    BY <1>1, <2>1 DEF Given
<1>4. Handed(end, e) = IF Begun(end, e) THEN HeadLen(m) + Given(m, e) ELSE 0
  BY DEF Handed, m
<1>5. CASE Begun(end, e)
  BY <1>1, <1>2, <1>3, <1>4, <1>5 DEF m
<1>6. CASE ~Begun(end, e)
  BY <1>1, <1>2, <1>4, <1>6 DEF m
<1> QED
  BY <1>5, <1>6

\* The buffer is written.
LEMMA FlowWritten ==
  ASSUME NEW end \in Sides, NEW e \in End, e.up, NEW p, NEW way \in Seq(Token), FlowOf(end, e, p, way),
         NEW n \in 0..Len(e.buffer), NEW f, Keeps(end, e, f), f.buffer = Drop(e.buffer, n)
  PROVE  FlowOf(end, f, p, way \o SubSeq(e.buffer, 1, n))
<1> DEFINE m == MessageOf(end, e)
           g == Handed(end, e)
           b == e.buffer
<1>1. b \in Seq(Token) /\ Len(b) \in Nat /\ Len(way) \in Nat
  BY LenProperties DEF End
<1>2. PICK k \in Nat : /\ Stands(m, p, k) /\ Carries(m, k, way)
                       /\ Carries(m, k + Len(way), b) /\ (k + Len(way)) + Len(b) = g
  BY Zenon DEF FlowOf, Flows
<1>3. Flows(m, (k + Len(way)) + Len(b), p, way \o SubSeq(b, 1, n), f)
  <2> HIDE DEF m, g
  <2>1. n \in 0..Len(b) /\ f.buffer = Drop(b, n)
    OBVIOUS
  <2> HIDE DEF b
  <2> QED
    BY <1>1, <1>2, <2>1, MoreFlows, Zenon
<1>4. MessageOf(end, f) = m /\ Handed(end, f) = g
  BY KeepsHanded
<1> QED
  BY <1>2, <1>3, <1>4 DEF FlowOf

\* Some of the input is read.
LEMMA FlowRead ==
  ASSUME NEW end \in Sides, NEW e \in End, NEW p \in Parser, NEW way \in Seq(Token), FlowOf(end, e, p, way),
         NEW n \in 1..Len(way), way[n] # "CR"
  PROVE  FlowOf(end, e, Parse(p, SubSeq(way, 1, n), BodyLen), Drop(way, n))
<1> DEFINE m == MessageOf(end, e)
           g == Handed(end, e)
           d == SubSeq(way, 1, n)
           q == Parse(p, d, BodyLen)
           rest == Drop(way, n)
<1>1. Len(way) \in Nat /\ n \in Nat \ {0} /\ n \in 0..Len(way) /\ n \in Int /\ n <= Len(way)
  BY LenProperties
<1>2. PICK k \in Nat : /\ Stands(m, p, k) /\ Carries(m, k, way) /\ k + Len(way) <= g
                       /\ e.up => /\ Carries(m, k + Len(way), e.buffer)
                                  /\ k + Len(way) + Len(e.buffer) = g
  BY Zenon DEF FlowOf, Flows
<1>3. m \in Message /\ g \in Nat /\ (m.body = "open" => g <= HeadLen(m) + BodyLen)
  BY HandedFacts
<1>30. HeadLen(m) + BodyLen \in Nat
  BY <1>3, MessageTypes, BodyFacts
<1> HIDE DEF m, g
<1>4. /\ Carries(m, k, d) /\ Len(d) = n /\ Carries(m, k + n, rest) /\ Len(rest) = Len(way) - n
  BY <1>1, <1>2, CarriesFacts
<1>5. d \in Seq(Token)
  BY <1>1, TakeFacts
<1>6. ByteAt(m, k + n) # "CR"
  BY <1>1, <1>2 DEF Carries
<1> HIDE DEF d, rest
<1>7. Along(m, k + n, p, k, d)
  <2>1. d # <<>>
    BY <1>1, <1>4
  <2> QED
    BY <1>3, <1>4, <1>5, <1>6, <2>1 DEF Along
<1>8. m.body = "open" => k + n <= HeadLen(m) + BodyLen
  BY <1>1, <1>2, <1>3, <1>30
<1>9. Stands(m, q, k + n)
  BY <1>2, <1>7, <1>8, ParseForward, Zenon
<1> HIDE DEF q
<1>10. /\ k + n \in Nat /\ (k + n) + Len(rest) = k + Len(way)
  BY <1>1, <1>4
<1>11. Flows(m, g, q, rest, e)
  BY <1>2, <1>4, <1>9, <1>10, Zenon DEF Flows
<1> QED
  BY <1>11 DEF FlowOf, m, g, q, d, rest

LEMMA FlowEOF ==
  ASSUME NEW end \in Sides, NEW e, NEW p \in Parser, NEW way, FlowOf(end, e, p, way)
  PROVE  FlowOf(end, e, SetEOF(p), way)
<1> DEFINE m == MessageOf(end, e)
<1>1. m \in Message
  BY MessageOfType
<1>2. \A k \in Nat : Stands(m, p, k) => Stands(m, SetEOF(p), k)
  BY <1>1, EOFStands
<1> HIDE DEF m
<1> QED
  BY <1>2, Zenon DEF FlowOf, Flows, m

\* A piece of the body, or the end of it, is sent.
LEMMA FlowSent ==
  ASSUME NEW end \in Sides, NEW e \in End, e.up, e.buffer = <<>>, e.body \in Lines, Begun(end, e),
         Due(end, e) # <<>>, Framing(end, e) = "chunked" /\ e.completed => e.sent = BodyLen,
         NEW p, NEW way \in Seq(Token), FlowOf(end, e, p, way), NEW n \in 0..Len(Due(end, e)),
         NEW f, f.body = e.body, Begun(end, f), f.sent = Counted(end, e).sent,
         f.completed = Counted(end, e).completed, f.buffer = Drop(Due(end, e), n)
  PROVE  FlowOf(end, f, p, way \o SubSeq(Due(end, e), 1, n))
<1> DEFINE m == MessageOf(end, e)
           c == Counted(end, e)
           data == Due(end, e)
           g == HeadLen(m) + Given(m, e)
<1>1. /\ g \in Nat /\ Carries(m, g, data) /\ g + Len(data) = HeadLen(m) + Given(m, c)
  BY DueCarries
<1>2. data \in Seq(Token) /\ Handed(end, e) = g
  BY SentBytes DEF Handed
<1>3. MessageOf(end, f) = m /\ Given(m, f) = Given(m, c)
  <2>1. MessageOf(end, f) = m
    BY DEF MessageOf
  <2> HIDE DEF m, c
  <2>2. Given(m, f) = Given(m, c)
    BY DEF Given, c
  <2> QED
    BY <2>1, <2>2
<1>4. Handed(end, f) = g + Len(data)
  BY <1>1, <1>3, Zenon DEF Handed
<1>5. PICK k \in Nat : Stands(m, p, k) /\ Carries(m, k, way) /\ k + Len(way) = g
  <2>1. PICK k \in Nat : /\ Stands(m, p, k) /\ Carries(m, k, way)
                         /\ (k + Len(way)) + Len(e.buffer) = g
    BY <1>2, Zenon DEF FlowOf, Flows
  <2>2. Len(e.buffer) = 0 /\ Len(way) \in Nat
    BY LenProperties
  <2>3. k + Len(way) = g
    BY <2>1, <2>2
  <2> QED
    BY <2>1, <2>3
<1>6. n \in 0..Len(data) /\ f.buffer = Drop(data, n)
  OBVIOUS
<1>7. Flows(m, g + Len(data), p, way \o SubSeq(data, 1, n), f)
  <2> HIDE DEF m, data, g, c
  <2> QED
    BY <1>1, <1>2, <1>5, <1>6, MoreFlows, Zenon
<1> QED
  BY <1>3, <1>4, <1>7 DEF FlowOf

\* Headers are sent by an end that has given nothing yet.
LEMMA FlowHeaders ==
  ASSUME NEW end \in Sides, NEW e, ~Begun(end, e), NEW p, NEW way \in Seq(Token), FlowOf(end, e, p, way),
         NEW f, Begun(end, f), f.sent = 0, f.completed = FALSE,
         NEW data, data = Headers(MessageOf(end, f).first, MessageOf(end, f).line),
         NEW n \in 0..Len(data), f.buffer = Drop(data, n)
  PROVE  FlowOf(end, f, p, way \o SubSeq(data, 1, n))
<1> DEFINE l == MessageOf(end, e)
           m == MessageOf(end, f)
<1>1. l \in Message /\ m \in Message /\ Handed(end, e) = 0
  BY MessageOfType DEF Handed
<1>2. Handed(end, f) = HeadLen(m) + Given(m, f)
  BY DEF Handed
<1> HIDE DEF l, m
<1>3. Given(m, f) = 0 /\ HeadLen(m) \in Nat
  BY <1>1, MessageTypes DEF Given
<1>4. PICK k \in Nat : Stands(l, p, k) /\ k + Len(way) <= 0
  BY <1>1, Zenon DEF FlowOf, Flows, l
<1>5. k = 0 /\ Len(way) = 0
  <2>1. Len(way) \in Nat
    BY LenProperties
  <2> QED
    BY <1>4, <2>1
<1>6. Stands(m, p, 0) /\ Carries(m, 0, way) /\ 0 + Len(way) = 0 /\ 0 \in Nat
  <2>1. Stands(m, p, 0)
    BY <1>1, <1>4, <1>5, NothingRead
  <2> QED
    BY <1>5, <2>1 DEF Carries
<1>7. Carries(m, 0, data) /\ Len(data) = HeadLen(m)
  BY <1>1, HeadersCarry DEF m
<1>8. data \in Seq(Token)
  <2>1. m.first \in {"request", "200", "204"} /\ m.line \in {"none", "length", "chunked"}
    BY <1>1, MessageTypes
  <2> QED
    BY <2>1, SentBytes DEF m
<1>9. Flows(m, 0 + Len(data), p, way \o SubSeq(data, 1, n), f)
  BY <1>6, <1>7, <1>8, MoreFlows, Zenon
<1>10. 0 + Len(data) = Handed(end, f)
  BY <1>2, <1>3, <1>7
<1> QED
  BY <1>9, <1>10 DEF FlowOf, m

\* The last byte of a read.
LEMMA LastRead ==
  ASSUME NEW way \in Seq(Token), NEW n \in 1..Len(way)
  PROVE  Last(SubSeq(way, 1, n)) = way[n]
<1>1. n \in Int /\ n <= Len(way) /\ n \in 1..n /\ 0 <= n
  BY LenProperties
<1>2. Len(SubSeq(way, 1, n)) = n /\ SubSeq(way, 1, n)[n] = way[n]
  BY <1>1, TakeFacts
<1> QED
  BY <1>2 DEF Last

-----------------------------------------------------------------------------
(* What the handlers do to an end.                                         *)

LEMMA AnnouncedIs ==
  ASSUME NEW e \in End, NEW b \in BOOLEAN, NEW next
  PROVE  LET f == Announced(e, b, next)
         IN  /\ f.body = e.body /\ f.sent = e.sent /\ f.completed = e.completed
             /\ f.up = e.up /\ f.buffer = e.buffer
             /\ f.state = e.state \/ f.state = next \/ (b /\ f.state = "sendingBody")
<1>1. CASE e.buffer # <<>>
  BY <1>1 DEF Announced
<1>2. CASE e.buffer = <<>> /\ b
  <2>1. Announced(e, b, next) = [e EXCEPT !.state = "sendingBody", !.cue = TRUE]
    BY <1>2 DEF Announced
  <2> QED
    BY <1>2, <2>1 DEF End
<1>3. CASE e.buffer = <<>> /\ ~b
  <2>1. Announced(e, b, next) = [e EXCEPT !.state = next]
    BY <1>3 DEF Announced
  <2> QED
    BY <2>1 DEF End
<1> QED
  BY <1>1, <1>2, <1>3

\* An end that goes on as the same message.
Passes(end, e, f) ==
  /\ f.body = e.body /\ f.sent = e.sent /\ f.completed = e.completed
  /\ f.up = e.up /\ f.buffer = e.buffer
  /\ f.state = e.state \/ f.state \notin {"connecting", "waitForResponse", "sendingHeader"}
  /\ f.state = "sendingBody" => e.body \in Lines

LEMMA PassesKeeps ==
  ASSUME NEW end \in Sides, NEW e, EndSound(end, e), end = "client" => e.state # "connecting",
         NEW f, Passes(end, e, f)
  PROVE  /\ Keeps(end, e, f) /\ EndSound(end, f)
         /\ f.state = "waitForResponse" => e.state = "waitForResponse"
         /\ end = "client" => f.state # "connecting"
BY DEF Passes, Keeps, EndSound, Begun, Sides

LEMMA OnSendPasses ==
  ASSUME NEW end \in Sides, NEW e \in End, EndSound(end, e)
  PROVE  Passes(end, e, OnSend(end, e))
<1> DEFINE over == IF end = "client" THEN "receivingResponse" ELSE "completed"
           b == HasBody(end, e)
<1>1. e.state = "sendingHeader" /\ b => e.body \in Lines
  BY DEF HasBody, ServerBody, EndSound, End, Lines, Sides
<1>2. b \in BOOLEAN
  BY Zenon DEF HasBody, ServerBody
<1>3. over \notin {"connecting", "waitForResponse", "sendingHeader", "sendingBody"}
  OBVIOUS
<1>4. e.state = "sendingBody" => e.body \in Lines
  BY DEF EndSound
<1> HIDE DEF over, b
<1>5. CASE e.state = "sendingHeader"
  <2> DEFINE f == Announced(e, b, over)
  <2>1. OnSend(end, e) = f
    BY <1>5 DEF OnSend, over, b
  <2>2. /\ f.body = e.body /\ f.sent = e.sent /\ f.completed = e.completed
        /\ f.up = e.up /\ f.buffer = e.buffer
        /\ f.state = e.state \/ f.state = over \/ (b /\ f.state = "sendingBody")
    BY <1>2, AnnouncedIs
  <2> HIDE DEF f
  <2>3. Passes(end, e, f)
    BY <1>1, <1>3, <1>4, <1>5, <2>2 DEF Passes
  <2> QED
    BY <2>1, <2>3
<1>6. CASE e.state = "sendingBody" /\ e.completed
  <2>1. OnSend(end, e) = [e EXCEPT !.state = over]
    BY <1>6 DEF OnSend, over
  <2> QED
    BY <1>3, <2>1 DEF Passes, End
<1>7. CASE e.state = "sendingBody" /\ ~e.completed
  <2>1. OnSend(end, e) = [e EXCEPT !.cue = TRUE]
    BY <1>7 DEF OnSend
  <2> QED
    BY <1>4, <2>1 DEF Passes, End
<1>8. CASE e.state \notin {"sendingHeader", "sendingBody"}
  <2>1. OnSend(end, e) = [e EXCEPT !.cue = e.cue \/ end = "client"]
    BY <1>8 DEF OnSend
  <2> QED
    BY <1>4, <2>1 DEF Passes, End
<1> QED
  BY <1>5, <1>6, <1>7, <1>8

-----------------------------------------------------------------------------
(* The inductive step.                                                     *)

\* A step of an end that has a connection.
LEMMA EndStep ==
  ASSUME IntactInv, HttpTyped', NEW end \in Sides, EndOf(end).up, NEW f \in End, SetEnd(end, f),
         EndSound(end, f), end = "client" => f.state # "connecting",
         parser["server"].readState = "done" => parser'["server"].readState = "done",
         end = "server" /\ (f.state = "waitForResponse" \/ f.body # "none")
           => parser'["server"].readState = "done",
         Peer(end) \notin split' => FlowOf(end, f, parser'[Peer(end)], link'[Peer(end)]),
         end \notin split' => FlowOf(Peer(end), EndOf(Peer(end)), parser'[end], link'[end])
  PROVE  IntactInv'
<1>0. cl.state # "connecting"
  BY DEF IntactInv, Before, EndOf, Sides
<1>1. CASE end = "client"
  <2>1. cl' = f /\ sv' = sv /\ Peer("client") = "server" /\ EndOf("server") = sv
    BY <1>1 DEF SetEnd, Peer, EndOf
  <2>2. EndSound("client", cl)' /\ EndSound("server", sv)' /\ Before' /\ Answering'
    BY <1>1, <2>1 DEF IntactInv, EndSound, Before, Answering
  <2>3. Flow("client")' /\ Flow("server")'
    BY <1>1, <2>1 DEF Flow, FlowOf, Flows, MessageOf, Handed, Begun, Given, EndOf, Peer
  <2> QED
    BY <2>2, <2>3 DEF IntactInv
<1>2. CASE end = "server"
  <2>1. sv' = f /\ cl' = cl /\ Peer("server") = "client" /\ EndOf("client") = cl
    BY <1>2 DEF SetEnd, Peer, EndOf
  <2>2. EndSound("client", cl)' /\ EndSound("server", sv)' /\ Before' /\ Answering'
    BY <1>0, <1>2, <2>1 DEF IntactInv, EndSound, Before, Answering
  <2>3. Flow("client")' /\ Flow("server")'
    BY <1>2, <2>1 DEF Flow, FlowOf, Flows, MessageOf, Handed, Begun, Given, EndOf, Peer
  <2> QED
    BY <2>2, <2>3 DEF IntactInv
<1> QED
  BY <1>1, <1>2 DEF Sides

\* What the invariant says of an end with a connection, and of its peer.
LEMMA IntactFacts ==
  ASSUME IntactInv, NEW end \in Sides
  PROVE  /\ EndOf(end) \in End /\ EndSound(end, EndOf(end)) /\ Peer(end) \in Sides /\ Peer(end) # end
         /\ EndOf(end).up /\ end = "client" => EndOf(end).state # "connecting"
         /\ Peer(end) \notin split => FlowOf(end, EndOf(end), parser[Peer(end)], link[Peer(end)])
         /\ end \notin split => FlowOf(Peer(end), EndOf(Peer(end)), parser[end], link[end])
         /\ parser \in [Sides -> Parser] /\ link \in [Sides -> Seq(Token)]
         /\ end = "server" /\ (EndOf(end).state = "waitForResponse" \/ EndOf(end).body # "none")
              => parser["server"].readState = "done"
BY DEF IntactInv, HttpTyped, EndOf, Peer, Sides, Before, Answering, Flow

LEMMA WriteEventIntact ==
  ASSUME IntactInv, HttpTyped', NEW end \in Sides, NEW n \in 0..Len(EndOf(end).buffer), WriteEvent(end, n)
  PROVE  IntactInv'
<1> DEFINE e == EndOf(end)
           to == Peer(end)
           w == Drained(e, n)
           f == IF w.buffer = <<>> THEN OnSend(end, w) ELSE w
<1>1. /\ e \in End /\ EndSound(end, e) /\ to \in Sides /\ to # end
      /\ to \notin split => FlowOf(end, e, parser[to], link[to])
      /\ end \notin split => FlowOf(to, EndOf(to), parser[end], link[end])
      /\ parser \in [Sides -> Parser] /\ link \in [Sides -> Seq(Token)]
      /\ end = "server" /\ (e.state = "waitForResponse" \/ e.body # "none")
              => parser["server"].readState = "done"
      /\ e.up /\ end = "client" => e.state # "connecting"
  BY IntactFacts
<1>2. /\ e.up /\ SetEnd(end, f) /\ Out(end, e.buffer, n) /\ UNCHANGED <<parser, told, split>>
  BY DEF WriteEvent, Drained
<1>3. link'[to] = link[to] \o SubSeq(e.buffer, 1, n) /\ link'[end] = link[end]
  BY <1>1, <1>2 DEF Out
<1>4. n \in Nat /\ e.buffer \in Seq(Token) /\ Len(e.buffer) \in Nat
  BY <1>1, LenProperties DEF End
<1> HIDE DEF e, to
<1>5. /\ w \in End /\ w.body = e.body /\ w.sent = e.sent /\ w.completed = e.completed
      /\ w.up = e.up /\ w.state = e.state /\ w.buffer = Drop(e.buffer, n)
  BY <1>1, <1>4, DrainedType DEF Drained, End
<1> HIDE DEF w
<1>6. EndSound(end, w)
  <2>1. e.buffer = <<>> => w.buffer = <<>>
    <3>1. Drop(<<>>, n) = <<>>
      <4> DEFINE s == <<>>
      <4>1. s \in Seq(Token) /\ n \in Nat /\ Len(s) = 0
        BY <1>4, EmptyTokens
      <4> HIDE DEF s
      <4>2. Drop(s, n) \in Seq(Token) /\ Len(Drop(s, n)) = IF n <= Len(s) THEN Len(s) - n ELSE 0
        BY <4>1, DropFacts
      <4>3. Drop(s, n) \in Seq(Token) /\ Len(Drop(s, n)) = 0
        BY <4>1, <4>2
      <4> QED
        BY <4>3, EmptySeq DEF s
    <3> QED
      BY <1>5, <3>1
  <2> QED
    BY <1>1, <1>5, <2>1 DEF EndSound
<1>7. Passes(end, w, f)
  <2>1. Passes(end, w, w)
    BY <1>6 DEF Passes, EndSound
  <2> QED
    BY <1>5, <1>6, <2>1, OnSendPasses
<1>8. f \in End
  BY <1>5, EndTypes
<1> HIDE DEF f
<1>9. end = "client" => w.state # "connecting"
  BY <1>1, <1>2, <1>5
<1>10. /\ Keeps(end, w, f) /\ EndSound(end, f) /\ (f.state = "waitForResponse" => w.state = "waitForResponse")
       /\ end = "client" => f.state # "connecting"
  BY <1>6, <1>7, <1>9, PassesKeeps
<1>11. Keeps(end, e, f) /\ f.buffer = Drop(e.buffer, n) /\ f.body = e.body
  BY <1>5, <1>7, <1>10 DEF Keeps, Begun, Passes
<1>12. to \notin split => FlowOf(end, f, parser[to], link'[to])
  <2> SUFFICES ASSUME to \notin split PROVE FlowOf(end, f, parser[to], link'[to])
    OBVIOUS
  <2>1. link[to] \in Seq(Token) /\ FlowOf(end, e, parser[to], link[to]) /\ n \in 0..Len(e.buffer)
    BY <1>1 DEF e
  <2>2. FlowOf(end, f, parser[to], link[to] \o SubSeq(e.buffer, 1, n))
    BY <1>1, <1>2, <1>11, <2>1, FlowWritten, Zenon
  <2> QED
    BY <1>3, <2>2
<1>13. /\ to \notin split' => FlowOf(end, f, parser'[to], link'[to])
       /\ end \notin split' => FlowOf(to, EndOf(to), parser'[end], link'[end])
  BY <1>1, <1>2, <1>3, <1>12
<1>14. end = "server" /\ (f.state = "waitForResponse" \/ f.body # "none") => parser'["server"].readState = "done"
  BY <1>1, <1>2, <1>5, <1>10, <1>11
<1> QED
  BY <1>2, <1>8, <1>10, <1>13, <1>14, EndStep, Zenon DEF e, to

\* A step of an end with which nothing is sent or read.
LEMMA QuietStep ==
  ASSUME IntactInv, HttpTyped', NEW end \in Sides, EndOf(end).up, NEW f \in End, SetEnd(end, f),
         Keeps(end, EndOf(end), f), EndSound(end, f), end = "client" => f.state # "connecting",
         f.state = "waitForResponse" => EndOf(end).state = "waitForResponse",
         f.up => f.buffer = EndOf(end).buffer, UNCHANGED <<parser, link, split>>
  PROVE  IntactInv'
<1> DEFINE e == EndOf(end)
           to == Peer(end)
<1>1. /\ to \notin split => FlowOf(end, e, parser[to], link[to])
      /\ end \notin split => FlowOf(to, EndOf(to), parser[end], link[end])
      /\ end = "server" /\ (e.state = "waitForResponse" \/ e.body # "none")
              => parser["server"].readState = "done"
  BY IntactFacts
<1>2. Keeps(end, e, f) /\ (f.up => e.up /\ f.buffer = e.buffer) /\ f.body = e.body
  BY DEF Keeps
<1> HIDE DEF e, to
<1>3. to \notin split => FlowOf(end, f, parser[to], link[to])
  BY <1>1, <1>2, FlowKept
<1>4. /\ to \notin split' => FlowOf(end, f, parser'[to], link'[to])
      /\ end \notin split' => FlowOf(to, EndOf(to), parser'[end], link'[end])
  BY <1>1, <1>3
<1>5. end = "server" /\ (f.state = "waitForResponse" \/ f.body # "none") => parser'["server"].readState = "done"
  BY <1>1, <1>2 DEF e
<1>6. parser["server"].readState = "done" => parser'["server"].readState = "done"
  OBVIOUS
<1> QED
  BY <1>4, <1>5, <1>6, EndStep, Zenon DEF e, to

LEMMA SendFailsIntact ==
  ASSUME IntactInv, HttpTyped', NEW end \in Sides, SendFails(end)
  PROVE  IntactInv'
<1> DEFINE e == EndOf(end)
           f == [e EXCEPT !.state = "error", !.cue = FALSE]
<1>1. e \in End /\ EndSound(end, e) /\ e.up /\ (end = "client" => e.state # "connecting")
  BY IntactFacts DEF SendFails, CanSend
<1>2. SetEnd(end, f) /\ UNCHANGED <<parser, link, split>>
  BY DEF SendFails
<1> HIDE DEF e
<1>3. f \in End /\ Passes(end, e, f)
  BY <1>1 DEF End, Passes
<1> HIDE DEF f
<1>4. /\ Keeps(end, e, f) /\ EndSound(end, f) /\ (f.state = "waitForResponse" => e.state = "waitForResponse")
      /\ end = "client" => f.state # "connecting"
  BY <1>1, <1>3, PassesKeeps
<1>5. f.buffer = e.buffer
  BY <1>3 DEF Passes
<1> QED
  BY <1>1, <1>2, <1>3, <1>4, <1>5, QuietStep DEF e

\* An end that loses its connection.
LEMMA LostStep ==
  ASSUME NEW end \in Sides, NEW e \in End, EndSound(end, e), end = "client" => e.state # "connecting",
         NEW f, f.body = e.body, f.sent = e.sent, f.completed = e.completed, f.buffer = <<>>,
         f.state \in {e.state, "completed", "error", "closed"}
  PROVE  /\ Keeps(end, e, f) /\ EndSound(end, f)
         /\ f.state = "waitForResponse" => e.state = "waitForResponse"
         /\ end = "client" => f.state # "connecting"
BY DEF Keeps, EndSound, Begun, Sides

LEMMA CloseEndIntact ==
  ASSUME IntactInv, HttpTyped', NEW end \in Sides, CloseEnd(end)
  PROVE  IntactInv'
<1> DEFINE e == EndOf(end)
           f == [e EXCEPT !.up = FALSE, !.buffer = <<>>, !.armed = FALSE, !.cue = FALSE]
<1>1. e \in End /\ EndSound(end, e) /\ e.up /\ (end = "client" => e.state # "connecting")
  BY IntactFacts DEF CloseEnd
<1>2. SetEnd(end, f) /\ UNCHANGED <<parser, link, split>>
  BY DEF CloseEnd
<1> HIDE DEF e
<1>3. /\ f \in End /\ f.up = FALSE /\ f.body = e.body /\ f.sent = e.sent /\ f.completed = e.completed
      /\ f.buffer = <<>> /\ f.state = e.state
  BY <1>1, EmptyTokens DEF End
<1> HIDE DEF f
<1>4. /\ Keeps(end, e, f) /\ EndSound(end, f) /\ (f.state = "waitForResponse" => e.state = "waitForResponse")
      /\ end = "client" => f.state # "connecting"
  BY <1>1, <1>3, LostStep
<1> QED
  BY <1>1, <1>2, <1>3, <1>4, QuietStep DEF e

LEMMA EndEventIntact ==
  ASSUME IntactInv, HttpTyped', NEW end \in Sides, EndEvent(end)
  PROVE  IntactInv'
<1> DEFINE e == EndOf(end)
           to == Peer(end)
           g == [e EXCEPT !.up = FALSE, !.buffer = <<>>, !.armed = FALSE]
<1>1. /\ e \in End /\ EndSound(end, e) /\ e.up /\ (end = "client" => e.state # "connecting")
      /\ to \in Sides /\ to # end
  BY IntactFacts DEF EndEvent
<1>2. UNCHANGED <<link, split>>
  BY DEF EndEvent
<1>3. /\ g \in End /\ g.up = FALSE /\ g.body = e.body /\ g.sent = e.sent /\ g.completed = e.completed
      /\ g.buffer = <<>> /\ g.state = e.state
  BY <1>1, EmptyTokens DEF End
<1>4. CASE EofCompletes(end, e)
  <2> DEFINE f == [g EXCEPT !.state = "completed"]
  <2>1. SetEnd(end, f) /\ parser' = [parser EXCEPT ![end] = SetEOF(@)] /\ end = "client"
    BY <1>4, Zenon DEF EndEvent, EofCompletes
  <2>2. /\ to \notin split => FlowOf(end, e, parser[to], link[to])
        /\ end \notin split => FlowOf(to, EndOf(to), parser[end], link[end])
        /\ parser \in [Sides -> Parser]
    BY IntactFacts
  <2> HIDE DEF e, g, to
  <2>3. /\ f \in End /\ f.up = FALSE /\ f.body = e.body /\ f.sent = e.sent /\ f.completed = e.completed
        /\ f.buffer = <<>> /\ f.state = "completed"
    BY <1>3 DEF End
  <2> HIDE DEF f
  <2>4. /\ Keeps(end, e, f) /\ EndSound(end, f) /\ (f.state = "waitForResponse" => e.state = "waitForResponse")
        /\ end = "client" => f.state # "connecting"
    BY <1>1, <2>3, LostStep
  <2>5. /\ parser[end] \in Parser /\ parser'[end] = SetEOF(parser[end]) /\ parser'[to] = parser[to]
        /\ parser'["server"] = parser["server"]
    BY <1>1, <2>1, <2>2 DEF Sides
  <2>6. to \notin split => FlowOf(end, f, parser[to], link[to])
    BY <2>2, <2>3, <2>4, FlowKept
  <2>7. end \notin split => FlowOf(to, EndOf(to), SetEOF(parser[end]), link[end])
    BY <1>1, <2>2, <2>5, FlowEOF
  <2>8. /\ to \notin split' => FlowOf(end, f, parser'[to], link'[to])
        /\ end \notin split' => FlowOf(to, EndOf(to), parser'[end], link'[end])
        /\ parser["server"].readState = "done" => parser'["server"].readState = "done"
        /\ end # "server"
    BY <1>2, <2>1, <2>5, <2>6, <2>7
  <2> QED
    BY <1>1, <2>1, <2>3, <2>4, <2>8, EndStep, Zenon DEF e, to
<1>5. CASE ~EofCompletes(end, e)
  <2> DEFINE f == Failed(g)
  <2>1. SetEnd(end, f) /\ UNCHANGED parser
    BY <1>5, Zenon DEF EndEvent
  <2> HIDE DEF e, g, to
  <2>2. /\ f \in End /\ f.up = FALSE /\ f.body = e.body /\ f.sent = e.sent /\ f.completed = e.completed
        /\ f.buffer = <<>> /\ f.state \in {"closed", "error"}
    BY <1>3 DEF End, Failed
  <2> HIDE DEF f
  <2>3. /\ Keeps(end, e, f) /\ EndSound(end, f) /\ (f.state = "waitForResponse" => e.state = "waitForResponse")
        /\ end = "client" => f.state # "connecting"
    BY <1>1, <2>2, LostStep
  <2>4. UNCHANGED <<parser, link, split>>
    BY <1>2, <2>1
  <2> QED
    BY <1>1, <2>1, <2>2, <2>3, <2>4, QuietStep DEF e
<1> QED
  BY <1>4, <1>5

LEMMA ReadEventIntact ==
  ASSUME IntactInv, HttpTyped', NEW end \in Sides, NEW n \in 0..Len(link[end]), ReadEvent(end, n),
         Parsed(parser[end], Parse(parser[end], SubSeq(link[end], 1, n), BodyLen))
  PROVE  IntactInv'
<1> DEFINE e == EndOf(end)
           to == Peer(end)
           way == link[end]
           p == parser[end]
           d == SubSeq(way, 1, n)
           q == Parse(p, d, BodyLen)
           news == News(p, q)
           f == AfterRead(end, e, news)
<1>1. /\ e \in End /\ EndSound(end, e) /\ to \in Sides /\ to # end
      /\ to \notin split => FlowOf(end, e, parser[to], link[to])
      /\ end \notin split => FlowOf(to, EndOf(to), p, way)
      /\ parser \in [Sides -> Parser] /\ link \in [Sides -> Seq(Token)]
      /\ end = "server" /\ (e.state = "waitForResponse" \/ e.body # "none")
              => parser["server"].readState = "done"
  BY IntactFacts
<1>2. /\ CanRead(end, n) /\ link' = [link EXCEPT ![end] = Drop(@, n)]
      /\ parser' = [parser EXCEPT ![end] = q] /\ SetEnd(end, f)
      /\ split' = IF Last(d) = "CR" THEN split \cup {end} ELSE split
  BY ReadEventIs, Zenon
<1>3. e.up /\ n \in 1..Len(way) /\ (end = "client" => e.state # "connecting")
  BY <1>2, IntactFacts DEF CanRead
<1>4. /\ p \in Parser /\ way \in Seq(Token) /\ EndOf(to) \in End
  BY <1>1, IntactFacts
<1>5. /\ link'[end] = Drop(way, n) /\ link'[to] = link[to] /\ parser'[end] = q /\ parser'[to] = parser[to]
  BY <1>1, <1>2
<1>6. /\ "complete" \in news => q.readState = "done" /\ p.readState \notin Stopped
      /\ p.readState \in Stopped => q = p
  BY DEF Parsed
<1>7. Last(d) = way[n]
  BY <1>3, <1>4, LastRead
<1>8. to \notin split' => FlowOf(end, e, parser'[to], link'[to])
  BY <1>1, <1>2, <1>5
<1>9. end \notin split' => FlowOf(to, EndOf(to), parser'[end], link'[end])
  <2> SUFFICES ASSUME end \notin split' PROVE FlowOf(to, EndOf(to), q, Drop(way, n))
    BY <1>5
  <2> HIDE DEF d, q, news, f
  <2>1. end \notin split /\ Last(d) # "CR"
    BY <1>2
  <2>2. FlowOf(to, EndOf(to), p, way) /\ way[n] # "CR"
    BY <1>1, <1>7, <2>1
  <2> HIDE DEF way, p, to, e
  <2>3. FlowOf(to, EndOf(to), Parse(p, SubSeq(way, 1, n), BodyLen), Drop(way, n))
    BY <1>1, <1>3, <1>4, <2>2, FlowRead, Zenon
  <2> QED
    BY <2>3 DEF q, d
<1>10. /\ f \in End /\ f.body = e.body /\ f.sent = e.sent /\ f.completed = e.completed
       /\ f.up = e.up /\ f.buffer = e.buffer
       /\ f.state \in {e.state, "completed", "closed", "error", "waitForResponse"}
       /\ f.state = "waitForResponse" => e.state = "waitForResponse" \/ ("complete" \in news /\ end = "server")
  <2>1. e \in End
    BY <1>1
  <2> HIDE DEF e, news, f
  <2>2. \/ f = e \/ f = [e EXCEPT !.state = "closed"] \/ f = [e EXCEPT !.state = "error"]
        \/ f = [e EXCEPT !.state = "completed"]
        \/ f = [e EXCEPT !.state = "waitForResponse"] /\ "complete" \in news /\ end = "server"
    <3> USE DEF f
    <3>1. CASE "complete" \in news
      BY <3>1 DEF AfterRead, Sides
    <3>2. CASE "complete" \notin news
      BY <3>2 DEF AfterRead, Failed
    <3> QED
      BY <3>1, <3>2
  <2> QED
    BY <2>1, <2>2, SMTT(60) DEF End
<1>11. end = "server" => (p.readState = "done" => q.readState = "done")
  BY <1>6 DEF Stopped
<1>12. end = "server" /\ "complete" \in news => e.body = "none" /\ q.readState = "done"
  BY <1>1, <1>6 DEF Stopped
<1> HIDE DEF f, news, q, d
<1>13. EndSound(end, f) /\ Keeps(end, e, f) /\ (end = "client" => f.state # "connecting")
  BY <1>1, <1>3, <1>10, <1>12 DEF EndSound, Keeps, Begun, Sides
<1>14. to \notin split' => FlowOf(end, f, parser'[to], link'[to])
  BY <1>8, <1>10, <1>13, FlowKept
<1>15. parser["server"].readState = "done" => parser'["server"].readState = "done"
  <2>1. CASE end = "server"
    BY <1>5, <1>11, <2>1
  <2>2. CASE end # "server"
    BY <1>1, <1>2, <2>2 DEF Sides
  <2> QED
    BY <2>1, <2>2
<1>16. end = "server" /\ (f.state = "waitForResponse" \/ f.body # "none") => parser'["server"].readState = "done"
  BY <1>1, <1>5, <1>10, <1>12, <1>15
<1> QED
  BY <1>2, <1>3, <1>9, <1>10, <1>13, <1>14, <1>15, <1>16, EndStep, Zenon DEF e, to

LEMMA FlowNext ==
  ASSUME NEW f, NEW s, cl' = f, sv' = s,
         "server" \notin split' => FlowOf("client", f, parser'["server"], link'["server"]),
         "client" \notin split' => FlowOf("server", s, parser'["client"], link'["client"])
  PROVE  Flow("client")' /\ Flow("server")'
<1>1. Peer("client") = "server" /\ Peer("server") = "client"
  BY DEF Peer
<1>2. Flow("client")'
  BY <1>1 DEF Flow, FlowOf, Flows, MessageOf, Handed, Begun, Given, EndOf, Peer
<1>3. Flow("server")'
  BY <1>1 DEF Flow, FlowOf, Flows, MessageOf, Handed, Begun, Given, EndOf, Peer
<1> QED
  BY <1>2, <1>3

\* Of the bytes of some headers the socket takes at least one.
LEMMA SomeHeaders ==
  ASSUME NEW m \in Message, NEW n \in Some(Headers(m.first, m.line))
  PROVE  LET data == Headers(m.first, m.line)
         IN  data \in Seq(Token) /\ n \in 0..Len(data) /\ n \in Nat /\ n # 0
<1> DEFINE data == Headers(m.first, m.line)
<1>1. data \in Seq(Token)
  <2>1. m.first \in {"request", "200", "204"} /\ m.line \in {"none", "length", "chunked"}
    BY MessageTypes
  <2> QED
    BY <2>1, SentBytes
<1>2. Len(data) \in {6, 10}
  BY HeadersCarry, MessageTypes
<1> HIDE DEF data
<1>3. n \in {x \in 1..Len(data) : x \in Cuts} \cup {Len(data)}
  BY DEF Some, data
<1>4. n \in 0..Len(data) /\ n # 0
  BY <1>2, <1>3
<1> QED
  BY <1>1, <1>2, <1>4 DEF data

LEMMA ConnectErrorIntact ==
  ASSUME IntactInv, HttpTyped', ConnectError
  PROVE  IntactInv'
<1> DEFINE f == [cl EXCEPT !.state = "error"]
<1>1. cl.state = "connecting" /\ cl' = f /\ UNCHANGED <<sv, parser, link, split>>
  BY DEF ConnectError
<1>2. cl \in End /\ EndSound("client", cl) /\ ~cl.up
  BY <1>1 DEF IntactInv, HttpTyped, Before
<1>3. f \in End /\ f.state = "error" /\ f.body = cl.body /\ f.sent = cl.sent /\ f.completed = cl.completed /\ ~f.up
  BY <1>2 DEF End
<1> HIDE DEF f
<1>4. EndSound("client", f)
  BY <1>2, <1>3 DEF EndSound
<1>5. ASSUME NEW p, NEW way \in Seq(Token), FlowOf("client", cl, p, way)
      PROVE  FlowOf("client", f, p, way)
  <2> DEFINE m == MessageOf("client", cl)
             g == Handed("client", f)
  <2>1. MessageOf("client", f) = m /\ Handed("client", cl) = 0
    BY <1>1, <1>3 DEF MessageOf, Handed, Begun
  <2>2. g \in Nat
    BY <1>3, HandedFacts DEF Sides
  <2> HIDE DEF m, g
  <2>3. PICK k \in Nat : Stands(m, p, k) /\ Carries(m, k, way) /\ k + Len(way) <= 0
    BY <1>5, <2>1, Zenon DEF FlowOf, Flows, m
  <2>4. k + Len(way) <= g
    BY <2>2, <2>3, LenProperties
  <2>5. Flows(m, g, p, way, f)
    BY <1>3, <2>3, <2>4, Zenon DEF Flows
  <2> QED
    BY <2>1, <2>5 DEF FlowOf, g
<1>6. Peer("client") = "server" /\ Peer("server") = "client" /\ EndOf("client") = cl /\ EndOf("server") = sv
      /\ link["server"] \in Seq(Token)
  BY DEF Peer, EndOf, IntactInv, HttpTyped, Sides
<1>7. "server" \notin split => FlowOf("client", f, parser["server"], link["server"])
  BY <1>5, <1>6 DEF IntactInv, Flow
<1>8. "client" \notin split => FlowOf("server", sv, parser["client"], link["client"])
  BY <1>6 DEF IntactInv, Flow
<1>9. Flow("client")' /\ Flow("server")'
  <2>1. /\ "server" \notin split' => FlowOf("client", f, parser'["server"], link'["server"])
        /\ "client" \notin split' => FlowOf("server", sv, parser'["client"], link'["client"])
    BY <1>1, <1>7, <1>8
  <2> QED
    BY <1>1, <2>1, FlowNext
<1>10. EndSound("client", cl)' /\ EndSound("server", sv)' /\ Before' /\ Answering'
  BY <1>1, <1>3, <1>4 DEF IntactInv, EndSound, Before, Answering
<1> QED
  BY <1>9, <1>10 DEF IntactInv

\* The socket takes n bytes of headers.
LEMMA WrittenIs ==
  ASSUME NEW e \in End, NEW data \in Seq(Token), NEW n \in Nat, n # 0
  PROVE  LET w == Written(e, data, n)
         IN  /\ w \in End /\ w.body = e.body /\ w.sent = e.sent /\ w.completed = e.completed
             /\ w.up = e.up /\ w.buffer = Drop(data, n) /\ w.state = e.state
<1> DEFINE w == Written(e, data, n)
<1>1. w \in End
  BY EndTypes DEF Sides
<1>2. /\ w.body = e.body /\ w.sent = e.sent /\ w.completed = e.completed
      /\ w.up = e.up /\ w.buffer = Drop(data, n) /\ w.state = e.state
  <2>1. w = [e EXCEPT !.buffer = Drop(data, n), !.armed = e.armed \/ n < Len(data)]
    BY DEF Written, Buffered
  <2> QED
    BY <2>1 DEF End
<1> QED
  BY <1>1, <1>2

LEMMA ConnectedIntact ==
  ASSUME IntactInv, HttpTyped', NEW body \in Bodies, NEW n \in Some(Headers("request", body)),
         Connected(body, n)
  PROVE  IntactInv'
<1> DEFINE data == Headers("request", body)
           e == [cl EXCEPT !.state = "sendingHeader", !.up = TRUE, !.armed = TRUE,
                          !.body = body]
           b == body # "none"
           f == Announced(Written(e, data, n), b, "receivingResponse")
           s == [sv EXCEPT !.state = "receivingRequest", !.up = TRUE, !.armed = TRUE]
           m == MessageOf("client", f)
<1>1. /\ cl.state = "connecting" /\ cl' = f /\ sv' = s /\ Out("client", data, n)
      /\ UNCHANGED <<parser, told, split>>
  BY DEF Connected
<1>2. /\ cl \in End /\ sv \in End /\ link \in [Sides -> Seq(Token)] /\ EndSound("server", sv)
      /\ cl.sent = 0 /\ ~cl.completed /\ sv.body = "none"
  BY <1>1 DEF IntactInv, HttpTyped, Before
<1>3. /\ e \in End /\ e.body = body /\ e.sent = 0 /\ ~e.completed /\ e.up /\ e.state = "sendingHeader"
  BY <1>2 DEF Bodies, End
<1>4. /\ data \in Seq(Token) /\ n \in 0..Len(data) /\ n \in Nat /\ n # 0
  <2>1. Said("request", body, body) \in Message
        /\ Said("request", body, body).first = "request" /\ Said("request", body, body).line = body
    BY DEF Bodies, Message, Said
  <2> QED
    BY <2>1, SomeHeaders
<1> HIDE DEF e, data
<1>5. /\ f.body = body /\ f.sent = 0 /\ f.completed = FALSE /\ f.up /\ f.buffer = Drop(data, n)
      /\ f.state \in {"sendingHeader", "receivingResponse", "sendingBody"}
      /\ f.state = "sendingBody" => body # "none"
  <2> DEFINE w == Written(e, data, n)
  <2>1. /\ w \in End /\ w.body = e.body /\ w.sent = e.sent /\ w.completed = e.completed
        /\ w.up = e.up /\ w.buffer = Drop(data, n) /\ w.state = e.state
    BY <1>3, <1>4, WrittenIs
  <2>2. b \in BOOLEAN /\ f = Announced(w, b, "receivingResponse")
    OBVIOUS
  <2> HIDE DEF b, f, w
  <2>3. /\ f.body = w.body /\ f.sent = w.sent /\ f.completed = w.completed
        /\ f.up = w.up /\ f.buffer = w.buffer
        /\ f.state = w.state \/ f.state = "receivingResponse" \/ (b /\ f.state = "sendingBody")
    BY <2>1, <2>2, AnnouncedIs
  <2>4. e.completed = FALSE
    BY <1>3 DEF End
  <2> QED
    BY <1>3, <2>1, <2>3, <2>4 DEF b
<1> HIDE DEF f
<1>6. /\ s.body = "none" /\ s.sent = sv.sent /\ s.completed = sv.completed /\ s.buffer = sv.buffer
      /\ s.state = "receivingRequest"
  BY <1>2 DEF End
<1> HIDE DEF s
<1>7. EndSound("client", f) /\ EndSound("server", s)
  BY <1>2, <1>5, <1>6 DEF EndSound, Bodies, Lines
<1>8. m.first = "request" /\ m.line = body
  BY <1>5 DEF MessageOf, Said, Bodies, Lines
<1> HIDE DEF m
<1>9. /\ Peer("client") = "server" /\ Peer("server") = "client" /\ EndOf("client") = cl /\ EndOf("server") = sv
      /\ link["server"] \in Seq(Token) /\ "client" \in Sides /\ "server" \in Sides
      /\ link'["server"] = link["server"] \o SubSeq(data, 1, n) /\ link'["client"] = link["client"]
  BY <1>1, <1>2 DEF Peer, EndOf, Sides, Out
<1>10. "server" \notin split => FlowOf("client", f, parser["server"], link'["server"])
  <2> SUFFICES ASSUME "server" \notin split
               PROVE  FlowOf("client", f, parser["server"], link["server"] \o SubSeq(data, 1, n))
    BY <1>9
  <2>1. FlowOf("client", cl, parser["server"], link["server"])
    BY <1>9 DEF IntactInv, Flow
  <2>2. ~Begun("client", cl) /\ Begun("client", f)
    BY <1>1, <1>5 DEF Begun
  <2>3. data = Headers(MessageOf("client", f).first, MessageOf("client", f).line)
    BY <1>8 DEF m, data
  <2> QED
    BY <1>4, <1>5, <1>9, <2>1, <2>2, <2>3, FlowHeaders, Zenon
<1>11. "client" \notin split => FlowOf("server", s, parser["client"], link["client"])
  <2> SUFFICES ASSUME "client" \notin split PROVE FlowOf("server", s, parser["client"], link["client"])
    OBVIOUS
  <2>1. FlowOf("server", sv, parser["client"], link["client"])
    BY <1>9 DEF IntactInv, Flow
  <2>2. Keeps("server", sv, s) /\ ~Begun("server", sv) /\ ~Begun("server", s)
    BY <1>2, <1>6 DEF Keeps, Begun
  <2>3. MessageOf("server", s) = MessageOf("server", sv) /\ Handed("server", s) = 0 /\ Handed("server", sv) = 0
    BY <2>2, KeepsHanded DEF Handed
  <2> DEFINE l == MessageOf("server", sv)
             p == parser["client"]
             way == link["client"]
  <2>4. PICK k \in Nat : Stands(l, p, k) /\ Carries(l, k, way) /\ k + Len(way) <= 0
    BY <2>1, <2>3, Zenon DEF FlowOf, Flows
  <2>5. s.buffer = <<>> /\ Len(s.buffer) = 0
    BY <1>2, <1>6 DEF EndSound
  <2>6. way \in Seq(Token)
    BY <1>2 DEF Sides
  <2> HIDE DEF l, p, way
  <2>7. Len(way) \in Nat
    BY <2>6, LenProperties
  <2>8. (k + Len(way)) + Len(s.buffer) = 0 /\ Carries(l, k + Len(way), s.buffer)
    BY <2>4, <2>5, <2>7 DEF Carries
  <2>9. Flows(l, 0, p, way, s)
    BY <2>4, <2>8, Zenon DEF Flows
  <2> QED
    BY <2>3, <2>9 DEF FlowOf, l, p, way
<1>12. Flow("client")' /\ Flow("server")'
  <2>1. /\ "server" \notin split' => FlowOf("client", f, parser'["server"], link'["server"])
        /\ "client" \notin split' => FlowOf("server", s, parser'["client"], link'["client"])
    BY <1>1, <1>9, <1>10, <1>11
  <2> QED
    BY <1>1, <2>1, FlowNext
<1>13. EndSound("client", cl)' /\ EndSound("server", sv)' /\ Before' /\ Answering'
  BY <1>1, <1>5, <1>6, <1>7 DEF IntactInv, EndSound, Before, Answering
<1> QED
  BY <1>12, <1>13 DEF IntactInv

LEMMA SendResponseIntact ==
  ASSUME IntactInv, HttpTyped', NEW rsp \in Answer, NEW n \in Some(Headers(rsp[1], rsp[2])),
         SendResponse(rsp[1], rsp[2], n)
  PROVE  IntactInv'
<1> DEFINE data == Headers(rsp[1], rsp[2])
           body == IF rsp[1] \in Bodyless THEN "bodyless" ELSE rsp[2]
           e == [sv EXCEPT !.state = "sendingHeader", !.body = body]
           w == Written(e, data, n)
           b == ServerBody(w)
           f == Announced(w, b, "completed")
           m == MessageOf("server", f)
<1>1. /\ sv.up /\ sv.state = "waitForResponse" /\ sv' = f /\ cl' = cl /\ Out("server", data, n)
      /\ UNCHANGED <<parser, told, split>>
  BY DEF SendResponse
<1>2. /\ sv \in End /\ link \in [Sides -> Seq(Token)] /\ EndSound("client", cl)
      /\ sv.body = "none" /\ sv.sent = 0 /\ ~sv.completed /\ parser["server"].readState = "done"
      /\ cl.state # "connecting"
  BY <1>1 DEF IntactInv, HttpTyped, EndSound, Before, Answering
<1>3. /\ body \in {"length", "chunked", "bodyless"}
      /\ body = "bodyless" => rsp[1] = "204" /\ rsp[2] = "none"
      /\ body # "bodyless" => rsp[1] = "200" /\ rsp[2] = body
  BY DEF Answer, Bodyless
<1> HIDE DEF body
<1>4. /\ e \in End /\ e.body = body /\ e.sent = 0 /\ e.completed = FALSE /\ e.up /\ e.state = "sendingHeader"
  BY <1>1, <1>2, <1>3 DEF End
<1>5. data \in Seq(Token) /\ n \in 0..Len(data) /\ n \in Nat /\ n # 0
  <2>1. PICK x \in Message : x.first = rsp[1] /\ x.line = rsp[2]
    <3>1. Said("204", "none", "none") \in Message /\ Said("200", "length", "open") \in Message
          /\ Said("200", "chunked", "open") \in Message
      BY DEF Message
    <3>2. \A r \in Answer : \E x \in Message : x.first = r[1] /\ x.line = r[2]
      BY <3>1 DEF Answer, Said
    <3> QED
      BY <3>2
  <2>2. data = Headers(x.first, x.line)
    BY <2>1
  <2> HIDE DEF data
  <2> QED
    BY <2>2, SomeHeaders DEF data
<1> HIDE DEF e, data
<1>6. /\ w \in End /\ w.body = e.body /\ w.sent = e.sent /\ w.completed = e.completed
      /\ w.up = e.up /\ w.buffer = Drop(data, n) /\ w.state = e.state
  BY <1>4, <1>5, WrittenIs
<1> HIDE DEF w
<1>7. /\ f.body = w.body /\ f.sent = w.sent /\ f.completed = w.completed
      /\ f.up = w.up /\ f.buffer = w.buffer
      /\ f.state = w.state \/ f.state = "completed" \/ (b /\ f.state = "sendingBody")
  <2>1. b \in BOOLEAN
    BY Zenon DEF ServerBody
  <2> HIDE DEF b
  <2> QED
    BY <1>6, <2>1, AnnouncedIs
<1> HIDE DEF f
<1>8. /\ f.body = body /\ f.sent = 0 /\ f.completed = FALSE /\ f.up /\ f.buffer = Drop(data, n)
      /\ f.state \in {"sendingHeader", "completed", "sendingBody"}
      /\ f.state = "sendingBody" => body # "bodyless"
  BY <1>4, <1>6, <1>7 DEF ServerBody
<1>9. EndSound("server", f)
  BY <1>3, <1>8 DEF EndSound, Lines
<1>10. m.first = rsp[1] /\ m.line = rsp[2]
  BY <1>3, <1>8 DEF MessageOf, Said, Lines
<1> HIDE DEF m
<1>11. /\ Peer("client") = "server" /\ Peer("server") = "client" /\ EndOf("client") = cl /\ EndOf("server") = sv
       /\ link["client"] \in Seq(Token) /\ "client" \in Sides /\ "server" \in Sides
       /\ link'["client"] = link["client"] \o SubSeq(data, 1, n) /\ link'["server"] = link["server"]
  BY <1>1, <1>2 DEF Peer, EndOf, Sides, Out
<1>12. "client" \notin split => FlowOf("server", f, parser["client"], link'["client"])
  <2> SUFFICES ASSUME "client" \notin split
               PROVE  FlowOf("server", f, parser["client"], link["client"] \o SubSeq(data, 1, n))
    BY <1>11
  <2>1. FlowOf("server", sv, parser["client"], link["client"])
    BY <1>11 DEF IntactInv, Flow
  <2>2. ~Begun("server", sv) /\ Begun("server", f)
    BY <1>2, <1>3, <1>8 DEF Begun
  <2>3. data = Headers(MessageOf("server", f).first, MessageOf("server", f).line)
    BY <1>10 DEF m, data
  <2> QED
    BY <1>5, <1>8, <1>11, <2>1, <2>2, <2>3, FlowHeaders, Zenon
<1>13. "server" \notin split => FlowOf("client", cl, parser["server"], link["server"])
  BY <1>11 DEF IntactInv, Flow
<1>14. Flow("client")' /\ Flow("server")'
  <2>1. /\ "server" \notin split' => FlowOf("client", cl, parser'["server"], link'["server"])
        /\ "client" \notin split' => FlowOf("server", f, parser'["client"], link'["client"])
    BY <1>1, <1>11, <1>12, <1>13
  <2> QED
    BY <1>1, <2>1, FlowNext
<1>15. EndSound("client", cl)' /\ EndSound("server", sv)' /\ Before' /\ Answering'
  BY <1>1, <1>2, <1>9 DEF EndSound, Before, Answering
<1> QED
  BY <1>14, <1>15 DEF IntactInv

\* An application that was told to wait.
LEMMA WaitsIntact ==
  ASSUME IntactInv, HttpTyped', NEW end \in Sides, SetEnd(end, [EndOf(end) EXCEPT !.cue = FALSE]),
         UNCHANGED <<parser, link, split>>
  PROVE  IntactInv'
<1> DEFINE f == [cl EXCEPT !.cue = FALSE]
           s == [sv EXCEPT !.cue = FALSE]
<1>1. /\ cl \in End /\ sv \in End
      /\ f.state = cl.state /\ f.up = cl.up /\ f.buffer = cl.buffer /\ f.body = cl.body
      /\ f.sent = cl.sent /\ f.completed = cl.completed
      /\ s.state = sv.state /\ s.up = sv.up /\ s.buffer = sv.buffer /\ s.body = sv.body
      /\ s.sent = sv.sent /\ s.completed = sv.completed
  BY DEF IntactInv, HttpTyped, End
<1>2. cl' \in {cl, f} /\ sv' \in {sv, s}
  BY DEF SetEnd, EndOf, Sides
<1> HIDE DEF f, s
<1>3. Keeps("client", cl, cl') /\ Keeps("server", sv, sv')
  BY <1>1, <1>2 DEF Keeps, Begun
<1>4. cl'.up = cl.up /\ cl'.buffer = cl.buffer /\ sv'.up = sv.up /\ sv'.buffer = sv.buffer
  BY <1>1, <1>2
<1>5. /\ "server" \notin split => FlowOf("client", cl, parser["server"], link["server"])
      /\ "client" \notin split => FlowOf("server", sv, parser["client"], link["client"])
  BY DEF IntactInv, Flow, Peer, EndOf
<1>6. /\ "server" \notin split => FlowOf("client", cl', parser["server"], link["server"])
      /\ "client" \notin split => FlowOf("server", sv', parser["client"], link["client"])
  BY <1>3, <1>4, <1>5, FlowKept
<1>7. Flow("client")' /\ Flow("server")'
  BY <1>6, FlowNext
<1>8. EndSound("client", cl)' /\ EndSound("server", sv)' /\ Before' /\ Answering'
  BY <1>1, <1>2 DEF IntactInv, EndSound, Before, Answering
<1> QED
  BY <1>7, <1>8 DEF IntactInv

LEMMA SendDataIntact ==
  ASSUME IntactInv, HttpTyped', NEW end \in Sides, NEW n \in 0..Len(Due(end, EndOf(end))), SendData(end, n)
  PROVE  IntactInv'
<1> DEFINE e == EndOf(end)
           to == Peer(end)
           data == Due(end, e)
           chunk == Framing(end, e) = "chunked" /\ e.sent < BodyLen
<1>1. CASE ~(CanSend(e) /\ data # <<>>)
  <2>1. SetEnd(end, [e EXCEPT !.cue = FALSE]) /\ UNCHANGED <<link, parser, split>>
    BY <1>1 DEF SendData
  <2> QED
    BY <2>1, WaitsIntact
<1>2. CASE CanSend(e) /\ data # <<>> /\ n = 0 /\ ~chunk
  <2> DEFINE f == [[e EXCEPT !.armed = TRUE] EXCEPT !.cue = FALSE]
  <2>1. /\ SetEnd(end, [Written(e, data, n) EXCEPT !.cue = FALSE]) /\ Out(end, data, n)
        /\ UNCHANGED <<parser, split>>
    BY <1>2 DEF SendData
  <2>2. Written(e, data, n) = [e EXCEPT !.armed = TRUE]
    BY <1>2 DEF Written
  <2>3. /\ e \in End /\ EndSound(end, e) /\ e.up /\ (end = "client" => e.state # "connecting")
        /\ to \in Sides /\ link \in [Sides -> Seq(Token)]
    BY <1>2, IntactFacts DEF CanSend
  <2>4. link' = link
    <3>1. data \in Seq(Token) /\ link[to] \in Seq(Token)
      BY <2>3, SentBytes
    <3> HIDE DEF data, to
    <3>2. SubSeq(data, 1, n) = <<>>
      <4>1. n \in Int /\ n <= Len(data) /\ ~(1 <= n) /\ ~(0 < n)
        BY <1>2, <3>1, LenProperties
      <4>2. SubSeq(data, 1, n) \in Seq(Token) /\ Len(SubSeq(data, 1, n)) = IF 0 <= n THEN n ELSE 0
        BY <3>1, <4>1, TakeFacts
      <4> QED
        BY <1>2, <4>2, EmptySeq
    <3>3. link[to] \o <<>> = link[to]
      BY <3>1, ConcatEmptySeq
    <3> QED
      BY <2>1, <2>3, <3>2, <3>3 DEF Out, to
  <2>5. SetEnd(end, f)
    BY <2>1, <2>2
  <2> HIDE DEF e, chunk, data, to
  <2>6. f \in End /\ Passes(end, e, f)
    BY <2>3 DEF End, Passes, EndSound
  <2> HIDE DEF f
  <2>7. /\ Keeps(end, e, f) /\ EndSound(end, f) /\ (f.state = "waitForResponse" => e.state = "waitForResponse")
        /\ end = "client" => f.state # "connecting"
    BY <2>3, <2>6, PassesKeeps
  <2>8. f.buffer = e.buffer /\ UNCHANGED <<parser, link, split>>
    BY <2>1, <2>4, <2>6 DEF Passes
  <2> QED
    BY <2>3, <2>5, <2>6, <2>7, <2>8, QuietStep DEF e
<1>3. CASE CanSend(e) /\ data # <<>> /\ ~(n = 0 /\ ~chunk)
  <2> DEFINE b == Buffered(e, data, n)
             c == Counted(end, b)
             f == AfterSend(end, c)
  <2>1. SetEnd(end, f) /\ Out(end, data, n) /\ UNCHANGED <<parser, split>>
    BY <1>3 DEF SendData
  <2>2. /\ e \in End /\ EndSound(end, e) /\ e.up /\ (end = "client" => e.state # "connecting")
        /\ e.buffer = <<>> /\ e.state = "sendingBody" /\ e.body \in Lines
        /\ to \in Sides /\ to # end /\ link \in [Sides -> Seq(Token)]
        /\ to \notin split => FlowOf(end, e, parser[to], link[to])
        /\ end \notin split => FlowOf(to, EndOf(to), parser[end], link[end])
        /\ end = "server" => parser["server"].readState = "done"
    <3>1. e.body # "none"
      BY <1>3, IntactFacts DEF CanSend, EndSound, Lines
    <3> QED
      BY <1>3, <3>1, IntactFacts DEF CanSend, EndSound
  <2>3. data \in Seq(Token) /\ n \in Nat /\ n \in 0..Len(data)
    BY <2>2, SentBytes, LenProperties
  <2>4. link'[to] = link[to] \o SubSeq(data, 1, n) /\ link'[end] = link[end]
    BY <2>1, <2>2 DEF Out
  <2>5. Framing(end, e) = "chunked" /\ e.completed => e.sent = BodyLen
    BY <2>2 DEF EndSound, Framing, Sides
  <2>6. Framing(end, e) = "chunked" /\ Counted(end, e).completed => Counted(end, e).sent = BodyLen
    BY <1>3, <2>2, <2>5, DueCarries
  <2> HIDE DEF e, to, data, chunk
  <2>7. /\ b \in End /\ b.body = e.body /\ b.sent = e.sent /\ b.completed = e.completed
        /\ b.up = e.up /\ b.state = e.state /\ b.buffer = Drop(data, n)
    <3>1. b \in End
      BY <2>2, <2>3, EndTypes
    <3>2. b = [e EXCEPT !.buffer = Drop(data, n), !.armed = e.armed \/ n < Len(data)]
      BY DEF Buffered
    <3> QED
      BY <2>2, <3>1, <3>2 DEF End
  <2> HIDE DEF b
  <2>8. /\ c \in End /\ c.body = e.body /\ c.up /\ c.buffer = Drop(data, n) /\ c.state = e.state
        /\ c.sent = Counted(end, e).sent /\ c.completed = Counted(end, e).completed
    <3>1. c \in End /\ c.body = b.body /\ c.up = b.up /\ c.buffer = b.buffer /\ c.state = b.state
      BY <2>7, EndTypes, CountedIs, ZenonT(60)
    <3>2. c.sent = Counted(end, e).sent /\ c.completed = Counted(end, e).completed
      <4>1. Framing(end, b) = Framing(end, e)
        BY <2>7 DEF Framing
      <4> QED
        BY <2>2, <2>7, <4>1 DEF Counted, End
    <3> QED
      BY <2>2, <2>7, <3>1, <3>2
  <2> HIDE DEF c
  <2>9. /\ f \in End /\ f.body = e.body /\ f.up /\ f.buffer = Drop(data, n)
        /\ f.sent = Counted(end, e).sent /\ f.completed = Counted(end, e).completed
        /\ f.state \in {"sendingBody", "receivingResponse", "completed"}
    <3>1. f \in End
      BY <2>8, EndTypes
    <3>2. f = c \/ f = [c EXCEPT !.state = IF end = "client" THEN "receivingResponse" ELSE "completed"]
      BY DEF AfterSend
    <3> QED
      BY <2>2, <2>8, <3>1, <3>2 DEF End
  <2> HIDE DEF f
  <2>10. EndSound(end, f) /\ Begun(end, e) /\ Begun(end, f)
    BY <2>2, <2>6, <2>9 DEF EndSound, Begun, Framing, Lines, Sides
  <2>11. to \notin split => FlowOf(end, f, parser[to], link'[to])
    <3> SUFFICES ASSUME to \notin split PROVE FlowOf(end, f, parser[to], link[to] \o SubSeq(data, 1, n))
      BY <2>4
    <3>1. FlowOf(end, e, parser[to], link[to]) /\ link[to] \in Seq(Token)
      BY <2>2
    <3>2. Due(end, e) # <<>> /\ n \in 0..Len(Due(end, e)) /\ f.buffer = Drop(Due(end, e), n)
      BY <1>3, <2>3, <2>9 DEF data
    <3>3. FlowOf(end, f, parser[to], link[to] \o SubSeq(Due(end, e), 1, n))
      BY <2>2, <2>5, <2>9, <2>10, <3>1, <3>2, FlowSent, Zenon
    <3> QED
      BY <3>3 DEF data
  <2>12. /\ to \notin split' => FlowOf(end, f, parser'[to], link'[to])
         /\ end \notin split' => FlowOf(to, EndOf(to), parser'[end], link'[end])
         /\ end = "server" => parser'["server"].readState = "done"
         /\ parser["server"].readState = "done" => parser'["server"].readState = "done"
         /\ end = "client" => f.state # "connecting"
    BY <2>1, <2>2, <2>4, <2>9, <2>11
  <2> QED
    BY <2>1, <2>2, <2>9, <2>10, <2>12, EndStep, Zenon DEF e, to
<1> QED
  BY <1>1, <1>2, <1>3

-----------------------------------------------------------------------------
(* The invariant holds.                                                    *)

LEMMA IntactInit == HttpInit => IntactInv
<1> SUFFICES ASSUME HttpInit PROVE IntactInv
  OBVIOUS
<1>1. HttpTyped
  BY HttpInitOnce DEF OnceInv
<1>2. /\ cl = NewEnd("connecting") /\ sv = NewEnd("idle")
      /\ parser["client"] = Idle /\ parser["server"] = Idle
      /\ link["client"] = <<>> /\ link["server"] = <<>>
  BY DEF HttpInit, Sides
<1>3. /\ cl.state = "connecting" /\ cl.body = "none" /\ cl.sent = 0 /\ cl.completed = FALSE
      /\ cl.buffer = <<>> /\ cl.up = FALSE
      /\ sv.state = "idle" /\ sv.body = "none" /\ sv.sent = 0 /\ sv.completed = FALSE
      /\ sv.buffer = <<>> /\ sv.up = FALSE
  BY <1>2 DEF NewEnd
<1>4. EndSound("client", cl) /\ EndSound("server", sv) /\ Before /\ Answering
  BY <1>3 DEF EndSound, Before, Answering
<1>5. ASSUME NEW m \in Message PROVE Stands(m, Idle, 0)
  <2>1. Saves(m, Idle, 0, 0)
    BY EmptySeq DEF Saves, Carries, Idle
  <2>2. InHead(m, Idle, 0)
    BY <2>1 DEF InHead, Idle
  <2> QED
    BY <2>2 DEF Stands
<1>6. ASSUME NEW end \in Sides, NEW e \in End, ~e.up, ~Begun(end, e)
      PROVE  FlowOf(end, e, Idle, <<>>)
  <2>1. Handed(end, e) = 0
    BY <1>6 DEF Handed
  <2>2. Stands(MessageOf(end, e), Idle, 0)
    BY <1>5, MessageOfType, Zenon
  <2>3. Carries(MessageOf(end, e), 0, <<>>) /\ Len(<<>>) = 0
    BY EmptySeq DEF Carries
  <2> QED
    BY <1>6, <2>1, <2>2, <2>3 DEF FlowOf, Flows
<1>7. ~Begun("client", cl) /\ ~Begun("server", sv)
  BY <1>3 DEF Begun
<1>8. FlowOf("client", cl, Idle, <<>>) /\ FlowOf("server", sv, Idle, <<>>)
  BY <1>1, <1>3, <1>6, <1>7 DEF HttpTyped, Sides
<1>9. Flow("client") /\ Flow("server")
  BY <1>2, <1>8 DEF Flow, Peer, EndOf
<1> QED
  BY <1>1, <1>4, <1>9 DEF IntactInv

LEMMA IntactStep == IntactInv /\ [HttpNext]_httpVars => IntactInv'
<1> SUFFICES ASSUME IntactInv, [HttpNext]_httpVars PROVE IntactInv'
  OBVIOUS
<1>0. HttpTyped
  BY DEF IntactInv
<1>1. CASE Connects
  <2>1. CASE ConnectError
    BY <1>0, <2>1, ConnectErrorTyped, ConnectErrorIntact
  <2>2. CASE \E body \in Bodies : \E n \in Some(Headers("request", body)) : Connected(body, n)
    BY <1>0, <2>2, ConnectedTyped, ConnectedIntact
  <2> QED
    BY <1>1, <2>1, <2>2 DEF Connects
<1>2. CASE Responds
  <2>1. PICK rsp \in Answer : \E n \in Some(Headers(rsp[1], rsp[2])) : SendResponse(rsp[1], rsp[2], n)
    BY <1>2, Zenon DEF Responds, Answer
  <2> QED
    BY <1>0, <2>1, SendResponseTyped, SendResponseIntact
<1>3. ASSUME NEW end \in Sides,
             Reads(end) \/ Writes(end) \/ EndEvent(end) \/ SendsSome(end) \/ SendData(end, 0) \/ CloseEnd(end)
      PROVE  IntactInv'
  <2>1. ASSUME NEW n \in 0..Len(link[end]), ReadEvent(end, n) PROVE IntactInv'
    <3>1. HttpTyped' /\ Parsed(parser[end], Parse(parser[end], SubSeq(link[end], 1, n), BodyLen))
      BY <1>0, <2>1, ReadEventTyped, Zenon
    <3> QED
      BY <2>1, <3>1, ReadEventIntact, Zenon
  <2>2. ASSUME NEW n \in 0..Len(EndOf(end).buffer), WriteEvent(end, n) PROVE IntactInv'
    <3>1. n \in Nat
      OBVIOUS
    <3>2. HttpTyped'
      BY <1>0, <2>2, <3>1, WriteEventTyped
    <3> QED
      BY <2>2, <3>1, <3>2, WriteEventIntact, Zenon
  <2>3. ASSUME EndEvent(end) PROVE IntactInv'
    BY <1>0, <2>3, EndEventTyped, EndEventIntact
  <2>4. ASSUME SendFails(end) PROVE IntactInv'
    BY <1>0, <2>4, SendFailsTyped, SendFailsIntact
  <2>5. ASSUME NEW n \in 0..Len(Due(end, EndOf(end))), SendData(end, n) PROVE IntactInv'
    BY <1>0, <2>5, SendDataTyped, SendDataIntact, Zenon
  <2>6. ASSUME CloseEnd(end) PROVE IntactInv'
    BY <1>0, <2>6, CloseEndTyped, CloseEndIntact
  <2> QED
    BY <1>0, <1>3, <2>1, <2>2, <2>3, <2>4, <2>5, <2>6, StepsTake, Zenon
<1>4. CASE UNCHANGED httpVars
  <2>1. UNCHANGED <<cl, sv, parser, link, told, split>>
    BY <1>4 DEF httpVars
  <2>2. HttpTyped'
    BY <1>0, <2>1 DEF HttpTyped
  <2>3. /\ "server" \notin split => FlowOf("client", cl, parser["server"], link["server"])
        /\ "client" \notin split => FlowOf("server", sv, parser["client"], link["client"])
    BY DEF IntactInv, Flow, Peer, EndOf
  <2>4. Flow("client")' /\ Flow("server")'
    BY <2>1, <2>3, FlowNext
  <2>5. EndSound("client", cl)' /\ EndSound("server", sv)' /\ Before' /\ Answering'
    BY <2>1 DEF IntactInv, EndSound, Before, Answering
  <2> QED
    BY <2>2, <2>4, <2>5 DEF IntactInv
<1> QED
  BY <1>1, <1>2, <1>3, <1>4 DEF HttpNext

\* What the two ends have in flight is always what was sent and not yet read.
THEOREM ExchangeInvariant == HttpSpec => []IntactInv
BY IntactInit, IntactStep, PTL DEF HttpSpec

-----------------------------------------------------------------------------
(* What the applications have seen.                                        *)

LEMMA PrefixByIndex ==
  ASSUME NEW S, NEW s \in Seq(S), NEW t \in Seq(S), Len(s) <= Len(t),
         \A i \in 1..Len(s) : s[i] = t[i]
  PROVE  IsPrefix(s, t)
<1>1. Len(s) \in Nat /\ Len(t) \in Nat
  BY LenProperties
<1>2. /\ SubSeq(s, 1, Len(s)) \in Seq(S) /\ Len(SubSeq(s, 1, Len(s))) = Len(s)
      /\ \A i \in 1..Len(s) : SubSeq(s, 1, Len(s))[i] = s[i]
  BY <1>1
<1>3. /\ SubSeq(t, 1, Len(s)) \in Seq(S) /\ Len(SubSeq(t, 1, Len(s))) = Len(s)
      /\ \A i \in 1..Len(s) : SubSeq(t, 1, Len(s))[i] = t[i]
  BY <1>1
<1>4. SubSeq(s, 1, Len(s)) = SubSeq(t, 1, Len(s))
  BY <1>2, <1>3, SeqEqual
<1> QED
  BY <1>4 DEF IsPrefix

\* Wherever a parser stands in a message, it has said a part of it from the start.
LEMMA StandingSays ==
  ASSUME NEW m \in Message, NEW p, NEW k, Stands(m, p, k)
  PROVE  \/ p.events = <<>>
         \/ m.body # "none" /\ \E j \in 0..BodyLen : Says(p, j)
         \/ m.body = "none" /\ SaysAll(p, 0)
         \/ m.body \in {"length", "chunked"} /\ SaysAll(p, BodyLen)
         \/ m.body = "open" /\ \E j \in 0..BodyLen : SaysAll(p, j)
<1>1. BodyLen \in Nat /\ m.body \in {"none", "length", "chunked", "open"}
  BY MessageTypes, BodyFacts
<1>2. CASE InHead(m, p, k)
  BY <1>2 DEF InHead
<1>3. CASE InPlain(m, p, k)
  <2>1. p.totalBytesRead \in 0..BodyLen /\ Says(p, p.totalBytesRead) /\ m.body # "none"
    BY <1>3 DEF InPlain
  <2> QED
    BY <2>1, Zenon
<1>4. CASE InChunk(m, p, k)
  <2>1. m.body # "none"
    BY <1>4 DEF InChunk
  <2>2. PICK i \in 0..BodyLen : Says(p, i) \/ (i < BodyLen /\ Says(p, i + 1))
    BY <1>4, Zenon DEF InChunk
  <2>3. i < BodyLen => i + 1 \in 0..BodyLen
    BY <1>1
  <2> QED
    BY <2>1, <2>2, <2>3, Zenon
<1>5. CASE IsDone(m, p, k)
  BY <1>1, <1>5, Zenon DEF IsDone
<1> QED
  BY <1>2, <1>3, <1>4, <1>5 DEF Stands

\* A message as its application sees it.
LEMMA Seen ==
  ASSUME NEW b \in Seq(Token)
  PROVE  /\ <<"header">> \o b \in Seq(Event) /\ Len(<<"header">> \o b) = 1 + Len(b)
         /\ (<<"header">> \o b)[1] = "header"
         /\ \A i \in 1..Len(b) : (<<"header">> \o b)[1 + i] = b[i]
         /\ <<"header">> \o b \o <<"complete">> \in Seq(Event)
         /\ Len(<<"header">> \o b \o <<"complete">>) = 2 + Len(b)
         /\ (<<"header">> \o b \o <<"complete">>)[1] = "header"
         /\ \A i \in 1..Len(b) : (<<"header">> \o b \o <<"complete">>)[1 + i] = b[i]
         /\ (<<"header">> \o b \o <<"complete">>)[2 + Len(b)] = "complete"
<1> DEFINE h == <<"header">>
           c == <<"complete">>
<1>1. /\ h \in Seq(Event) /\ c \in Seq(Event) /\ b \in Seq(Event) /\ Len(b) \in Nat
      /\ Len(h) = 1 /\ Len(c) = 1 /\ h[1] = "header" /\ c[1] = "complete"
  <2>1. b \in Seq(Event)
    BY SeqMonotonic DEF Event
  <2> QED
    BY <2>1, LenProperties DEF Event
<1> HIDE DEF h, c
<1> DEFINE a == h \o b
<1>2. a \in Seq(Event) /\ Len(a) = 1 + Len(b) /\ a[1] = "header" /\ \A i \in 1..Len(b) : a[1 + i] = b[i]
  <2>1. /\ a \in Seq(Event) /\ Len(a) = Len(h) + Len(b)
        /\ \A i \in 1..(Len(h) + Len(b)) : a[i] = IF i <= Len(h) THEN h[i] ELSE b[i - Len(h)]
    BY <1>1, ConcatProperties
  <2> HIDE DEF a
  <2>2. a[1] = "header"
    BY <1>1, <2>1
  <2>3. ASSUME NEW i \in 1..Len(b) PROVE a[1 + i] = b[i]
    <3>1. 1 + i \in 1..(1 + Len(b)) /\ ~(1 + i <= 1) /\ (1 + i) - 1 = i
      BY <1>1
    <3> QED
      BY <1>1, <2>1, <3>1
  <2> QED
    BY <1>1, <2>1, <2>2, <2>3
<1> HIDE DEF a
<1>3. /\ a \o c \in Seq(Event) /\ Len(a \o c) = 2 + Len(b) /\ (a \o c)[1] = "header"
      /\ \A i \in 1..Len(b) : (a \o c)[1 + i] = b[i]
      /\ (a \o c)[2 + Len(b)] = "complete"
  <2>1. /\ a \o c \in Seq(Event) /\ Len(a \o c) = Len(a) + Len(c)
        /\ \A i \in 1..(Len(a) + Len(c)) : (a \o c)[i] = IF i <= Len(a) THEN a[i] ELSE c[i - Len(a)]
    BY <1>1, <1>2, ConcatProperties, ZenonT(60)
  <2> DEFINE u == a \o c
  <2> HIDE DEF u
  <2>2. /\ u \in Seq(Event) /\ Len(u) = 2 + Len(b)
        /\ \A i \in 1..(2 + Len(b)) : u[i] = IF i <= 1 + Len(b) THEN a[i] ELSE c[i - (1 + Len(b))]
    BY <1>1, <1>2, <2>1 DEF u
  <2>3. u[1] = "header"
    BY <1>1, <1>2, <2>2
  <2>4. ASSUME NEW i \in 1..Len(b) PROVE u[1 + i] = b[i]
    <3>1. 1 + i \in 1..(2 + Len(b)) /\ 1 + i <= 1 + Len(b)
      BY <1>1
    <3> QED
      BY <1>2, <2>2, <3>1
  <2>5. u[2 + Len(b)] = "complete"
    <3>1. 2 + Len(b) \in 1..(2 + Len(b)) /\ ~(2 + Len(b) <= 1 + Len(b)) /\ (2 + Len(b)) - (1 + Len(b)) = 1
      BY <1>1
    <3> QED
      BY <1>1, <2>2, <3>1
  <2> QED
    BY <2>2, <2>3, <2>4, <2>5 DEF u
<1> QED
  BY <1>2, <1>3, Zenon DEF a, h, c

LEMMA NothingIsPrefix ==
  ASSUME NEW t \in Seq(Event)
  PROVE  IsPrefix(<<>>, t)
<1>1. <<>> \in Seq(Event) /\ Len(<<>>) = 0 /\ Len(t) \in Nat
  BY EmptySeq, LenProperties
<1>2. ASSUME NEW s \in Seq(Event), Len(s) = 0 PROVE IsPrefix(s, t)
  <2>1. Len(s) <= Len(t) /\ \A i \in 1..Len(s) : s[i] = t[i]
    BY <1>1, <1>2
  <2> QED
    BY <2>1, PrefixByIndex, Zenon
<1> QED
  BY <1>1, <1>2, Zenon

LEMMA IntactRequest == IntactInv => RequestIntact
<1> SUFFICES ASSUME IntactInv, "server" \notin split
             PROVE  IsPrefix(parser["server"].events,
                             <<"header">> \o (IF cl.body = "none" THEN <<>> ELSE Body) \o <<"complete">>)
  BY DEF RequestIntact
<1> DEFINE p == parser["server"]
           m == MessageOf("client", cl)
           b == IF cl.body = "none" THEN <<>> ELSE Body
           t == <<"header">> \o b \o <<"complete">>
<1>1. /\ cl \in End /\ cl.body \in {"none", "length", "chunked"} /\ p \in Parser
      /\ p.events \in Seq(Event)
  BY DEF IntactInv, HttpTyped, EndSound, End, Parser, Sides
<1>2. m \in Message /\ m.body = cl.body
  BY <1>1, MessageOfType DEF MessageOf, Said, Lines, Sides
<1>3. PICK k \in Nat : Stands(m, p, k)
  BY DEF IntactInv, Flow, FlowOf, Flows, Peer, EndOf
<1> HIDE DEF m, p
<1>4. /\ b \in Seq(Token) /\ BodyLen \in Nat
      /\ cl.body = "none" => Len(b) = 0
      /\ cl.body # "none" => Len(b) = BodyLen /\ \A i \in 1..BodyLen : b[i] = Body[i]
  BY BodyFacts, EmptyTokens, EmptySeq DEF BodyLen
<1> HIDE DEF b
<1>5. /\ t \in Seq(Event) /\ Len(t) = 2 + Len(b) /\ t[1] = "header"
      /\ \A i \in 1..Len(b) : t[1 + i] = b[i]
      /\ t[2 + Len(b)] = "complete" /\ Len(b) \in Nat
  <2>1. Len(b) \in Nat /\ b \in Seq(Token)
    BY <1>4, LenProperties
  <2> QED
    BY <2>1, Seen, Zenon
<1> HIDE DEF t
<1>6. CASE p.events = <<>>
  BY <1>5, <1>6, NothingIsPrefix DEF p, t, b
<1>7. ASSUME m.body # "none", NEW j \in 0..BodyLen, Says(p, j) PROVE IsPrefix(p.events, t)
  <2>1. /\ Len(p.events) = 1 + j /\ p.events[1] = "header"
        /\ \A i \in 1..j : p.events[1 + i] = Body[i]
    BY <1>7 DEF Says
  <2>2. Len(b) = BodyLen /\ \A i \in 1..BodyLen : t[1 + i] = Body[i]
    BY <1>2, <1>4, <1>5, <1>7
  <2>3. ASSUME NEW x \in 1..Len(p.events) PROVE p.events[x] = t[x]
    <3>1. CASE x = 1
      BY <1>5, <2>1, <3>1
    <3>2. CASE x # 1
      <4>1. x - 1 \in 1..j /\ x - 1 \in 1..BodyLen /\ 1 + (x - 1) = x
        BY <1>4, <1>7, <2>1, <2>3, <3>2
      <4> QED
        BY <2>1, <2>2, <4>1
    <3> QED
      BY <3>1, <3>2
  <2>4. Len(p.events) <= Len(t)
    BY <1>4, <1>5, <1>7, <2>1, <2>2
  <2> QED
    BY <1>1, <1>5, <2>3, <2>4, PrefixByIndex
<1>8. ASSUME SaysAll(p, Len(b)), m.body # "none" => Len(b) = BodyLen PROVE IsPrefix(p.events, t)
  <2>1. /\ Len(p.events) = 2 + Len(b) /\ p.events[1] = "header" /\ p.events[2 + Len(b)] = "complete"
        /\ \A i \in 1..Len(b) : p.events[1 + i] = Body[i]
    BY <1>8 DEF SaysAll
  <2>2. \A i \in 1..Len(b) : t[1 + i] = Body[i]
    BY <1>2, <1>4, <1>5
  <2>3. ASSUME NEW x \in 1..Len(p.events) PROVE p.events[x] = t[x]
    <3>1. CASE x = 1
      BY <1>5, <2>1, <3>1
    <3>2. CASE x = 2 + Len(b)
      BY <1>5, <2>1, <3>2
    <3>3. CASE x # 1 /\ x # 2 + Len(b)
      <4>1. x - 1 \in 1..Len(b) /\ 1 + (x - 1) = x
        <5>1. \A l \in Nat : \A y \in 1..(2 + l) : y # 1 /\ y # 2 + l => y - 1 \in 1..l /\ 1 + (y - 1) = y
          OBVIOUS
        <5>2. Len(b) \in Nat /\ x \in 1..(2 + Len(b))
          BY <1>5, <2>1
        <5> QED
          BY <3>3, <5>1, <5>2, Zenon
      <4> QED
        BY <2>1, <2>2, <4>1, ZenonT(60)
    <3> QED
      BY <3>1, <3>2, <3>3
  <2>4. Len(p.events) <= Len(t)
    BY <1>5, <2>1
  <2> QED
    BY <1>1, <1>5, <2>3, <2>4, PrefixByIndex
<1>9. m.body # "open"
  BY <1>1, <1>2
<1>10. m.body = "none" /\ SaysAll(p, 0) => IsPrefix(p.events, t)
  BY <1>2, <1>4, <1>8
<1>11. m.body \in {"length", "chunked"} /\ SaysAll(p, BodyLen) => IsPrefix(p.events, t)
  BY <1>2, <1>4, <1>8
<1> QED
  BY <1>2, <1>3, <1>6, <1>7, <1>9, <1>10, <1>11, StandingSays, Zenon DEF p, t, b

LEMMA IntactResponse == IntactInv => ResponseIntact
<1> SUFFICES ASSUME IntactInv, "client" \notin split PROVE ResponseIntact
  BY DEF ResponseIntact
<1> DEFINE p == parser["client"]
           seen == p.events
           m == MessageOf("server", sv)
           t == <<"header">> \o Body
<1>1. sv \in End /\ p \in Parser /\ seen \in Seq(Event) /\ Len(seen) \in Nat
  BY LenProperties DEF IntactInv, HttpTyped, Parser, Sides
<1>2. m \in Message /\ m.body \in {"none", "open"}
  BY <1>1, MessageOfType DEF MessageOf, Said, Sides
<1>3. PICK k \in Nat : Stands(m, p, k)
  BY DEF IntactInv, Flow, FlowOf, Flows, Peer, EndOf
<1> HIDE DEF m, p
<1>4. /\ t \in Seq(Event) /\ Len(t) = 1 + BodyLen /\ t[1] = "header" /\ BodyLen \in Nat
      /\ \A i \in 1..BodyLen : t[1 + i] = Body[i]
  BY BodyFacts, Seen, Zenon DEF BodyLen
<1> HIDE DEF t, seen
<1>5. ASSUME NEW s \in Seq(Event), NEW j \in 0..BodyLen, Len(s) = 1 + j, s[1] = "header",
             \A i \in 1..j : s[1 + i] = Body[i]
      PROVE  IsPrefix(s, t)
  <2>1. ASSUME NEW x \in 1..Len(s) PROVE s[x] = t[x]
    <3>1. CASE x = 1
      BY <1>4, <1>5, <3>1
    <3>2. CASE x # 1
      <4>1. x - 1 \in 1..j /\ x - 1 \in 1..BodyLen /\ 1 + (x - 1) = x
        BY <1>4, <1>5, <2>1, <3>2
      <4> QED
        BY <1>4, <1>5, <4>1
    <3> QED
      BY <3>1, <3>2
  <2>2. Len(s) <= Len(t)
    BY <1>4, <1>5
  <2> QED
    BY <1>4, <1>5, <2>1, <2>2, PrefixByIndex
<1>6. seen = <<>> => IsPrefix(seen, t)
  BY <1>4, NothingIsPrefix
<1>7. ASSUME NEW j \in 0..BodyLen, Says(p, j) PROVE IsPrefix(seen, t)
  BY <1>1, <1>5, <1>7 DEF Says, seen
<1>8. ASSUME NEW j \in 0..BodyLen, SaysAll(p, j)
      PROVE  seen # <<>> /\ Last(seen) = "complete" /\ Len(seen) > 1 /\ IsPrefix(Front(seen), t)
  <2>1. /\ Len(seen) = 2 + j /\ seen[1] = "header" /\ seen[2 + j] = "complete"
        /\ \A i \in 1..j : seen[1 + i] = Body[i] /\ j \in Nat
    BY <1>8 DEF SaysAll, seen
  <2>2. seen # <<>> /\ Last(seen) = "complete" /\ Len(seen) > 1 /\ Len(seen) - 1 = 1 + j
    BY <1>1, <2>1, <1>8 DEF Last
  <2> DEFINE s == SubSeq(seen, 1, 1 + j)
  <2>3. Front(seen) = s
    BY <2>2 DEF Front
  <2>4. s \in Seq(Event) /\ Len(s) = 1 + j /\ \A i \in 1..(1 + j) : s[i] = seen[i]
    BY <1>1, <1>8, <2>1
  <2> HIDE DEF s
  <2>5. s[1] = "header" /\ \A i \in 1..j : s[1 + i] = Body[i]
    BY <1>8, <2>1, <2>4
  <2> QED
    BY <1>5, <2>2, <2>3, <2>4, <2>5
<1>9. 0 \in 0..BodyLen
  BY <1>4
<1>10. \/ IsPrefix(seen, t)
       \/ seen # <<>> /\ Last(seen) = "complete" /\ Len(seen) > 1 /\ IsPrefix(Front(seen), t)
  <2>1. seen = <<>> \/ (\E j \in 0..BodyLen : Says(p, j)) \/ (\E j \in 0..BodyLen : SaysAll(p, j))
    BY <1>2, <1>3, <1>9, StandingSays, Zenon DEF seen
  <2> QED
    BY <1>6, <1>7, <1>8, <2>1, Zenon
<1> QED
  BY <1>10, Zenon DEF ResponseIntact, seen, t, p

\* Whatever the sockets take and bring at a time, the server's application sees the
\* request that was sent, in order and no more.
THEOREM RequestStaysIntact == HttpSpec => []RequestIntact
BY ExchangeInvariant, IntactRequest, PTL

\* The client's application sees the headers of the response, its body from the start,
\* and an end only after the headers.
THEOREM ResponseStaysIntact == HttpSpec => []ResponseIntact
BY ExchangeInvariant, IntactResponse, PTL
=============================================================================
