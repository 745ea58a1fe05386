-------------------------- MODULE GameSessionProofs --------------------------
(***************************************************************************)
(* Proofs about GameSession, for any number of users, of reads and of      *)
(* changes of the document.                                                *)
(*                                                                         *)
(* The invariant counts: until the count is disturbed, it is the number of *)
(* writes of this session that are out and that no thread has still to     *)
(* count, and every load of it that is not stored yet is up to date.  That *)
(* keeps the unsigned count from wrapping, and a tap that is noted while   *)
(* the count is above zero has an answer that will look at it.             *)
(***************************************************************************)
EXTENDS GameSession, TLAPS

-----------------------------------------------------------------------------
(* The invariant. *)

Numbers == 0..MaxNumber
Results == Numbers \union {Failed}
Counts == 0..(CountRange - 1)
Write == [status : {"none", "sent", "served", "current", "loaded"}, id : Nat,
          result : Results, refused : BOOLEAN, for : {"none"} \union Writes, count : Counts]
Read == [status : {"none", "sent", "served"}, id : Nat, result : Results,
         refused : BOOLEAN, for : {"none", "tap"} \union Writes, count : {0}]
Counter == [step : {"none", "due", "loaded"}, for : {"none"} \union Writes,
            count : Counts, locked : BOOLEAN]
Sessions == [number : Numbers, asked : Nat] \union {NoSession}

Types ==
    /\ number \in Numbers /\ taps \subseteq 1..MaxNumber
    /\ session \in Sessions
    /\ id \in Nat /\ writes \in Counts
    /\ counting \in [Threads -> Counter] /\ disturbed \in BOOLEAN /\ heard \in 0..MaxResyncs
    /\ tapReceived \in BOOLEAN /\ resyncs \in BOOLEAN /\ resyncInProgress \in BOOLEAN
    /\ requests \in BOOLEAN /\ commit \in BOOLEAN /\ properties \in BOOLEAN
    /\ tapNumber \in 0..(MaxNumber + 1)
    /\ join \in 0..NumUsers /\ leave \in 0..NumUsers
    /\ calls \in [Writes -> Write]
    /\ gets \in [1..MaxGets -> Read]

\* A write is out for the session there is, and nobody has still to count it.
IsOut(k) == calls[k] # NoCall /\ calls[k].id = id
IsCounted(k) == IsOut(k) /\ \A t \in Threads : Free(t) \/ counting[t].for # k
Counted(k) == IF IsCounted(k) THEN 1 ELSE 0

CountIsExact == writes = Counted("commit") + Counted("join")

\* A write that is not counted yet is out and its answer is not handled, and
\* one thread counts it.
CountingHasWrite ==
    /\ \A t \in Threads : ~Free(t) =>
        \E k \in Writes : counting[t].for = k /\ IsOut(k) /\ calls[k].status # "loaded"
    /\ \A t, u \in Threads :
        ~Free(t) /\ ~Free(u) /\ counting[t].for = counting[u].for => t = u

\* Answers are handled for the session there is.
CurrentHasId ==
    \A k \in Writes : calls[k].status \in {"current", "loaded"} => calls[k].id = id

\* The count does not change between a load and its store, nor is it loaded twice.
LoadIsFresh ==
    /\ \A k \in Writes : calls[k].status = "loaded" =>
        /\ calls[k].count = writes
        /\ \A t \in Threads : counting[t].step # "loaded"
    /\ \A t \in Threads : counting[t].step = "loaded" => counting[t].count = writes
    /\ \A t, u \in Threads :
        counting[t].step = "loaded" /\ counting[u].step = "loaded" => t = u

\* The lock keeps two answers from counting down at a time.
OneLoaded ==
    \A j, k \in Writes : calls[j].status = "loaded" /\ calls[k].status = "loaded" => j = k

CountInv ==
    ~disturbed => /\ CountIsExact /\ CountingHasWrite /\ CurrentHasId
                  /\ LoadIsFresh /\ TapHasWrite

\* A write is made by the commit or the join in progress, and no later than now.
WriteHasCommand ==
    /\ calls["commit"] # NoCall => commit
    /\ calls["join"] # NoCall => join > 0
    /\ \A k \in Writes : calls[k].id <= id /\ (calls[k] # NoCall => calls[k].for = k)

\* A read for a write is made when its answer is in, and only one.
ReadFollowsWrite ==
    /\ \A i \in 1..MaxGets :
        /\ gets[i].for = "commit" => commit
        /\ gets[i].for = "join" => join > 0
        /\ \A k \in Writes : gets[i].for = k => calls[k] = NoCall
    /\ \A i, j \in 1..MaxGets : gets[i].for \in Writes /\ gets[i].for = gets[j].for => i = j

Inv == Types /\ WriteHasCommand /\ ReadFollowsWrite /\ OneLoaded /\ CountInv

-----------------------------------------------------------------------------
(* What the operators the actions share do. *)

\* What stands for no call has the type of a call.
LEMMA NoCallTypes == NoCall \in Write /\ NoCall \in Read
BY BoundsAssumption DEF NoCall, Call, Write, Read, Results, Counts

LEMMA NoCallFields ==
    NoCall.status = "none" /\ NoCall.id = 0 /\ NoCall.for = "none"
BY DEF NoCall, Call

\* A call that is made is a call, of this session.
LEMMA SentTypes ==
    ASSUME id \in Nat, NEW for \in {"tap"} \union Writes
    PROVE  /\ Sent(for) \in Read /\ (for \in Writes => Sent(for) \in Write)
           /\ Sent(for) # NoCall /\ Sent(for).id = id /\ Sent(for).for = for
           /\ Sent(for).status = "sent"
<1>1. Sent(for) = [status |-> "sent", id |-> id, result |-> Failed, refused |-> FALSE,
                   for |-> for, count |-> 0]
    BY DEF Sent, Call
<1> QED
    BY <1>1, BoundsAssumption DEF NoCall, Call, Write, Read, Results, Counts

\* A thread that starts to count is not free.
LEMMA CounterTypes ==
    /\ NotCounting \in Counter
    /\ \A k \in Writes, locked \in BOOLEAN :
        /\ Counting(k, locked) \in Counter /\ Counting(k, locked) # NotCounting
        /\ Counting(k, locked).for = k /\ Counting(k, locked).step = "due"
BY BoundsAssumption DEF Counting, NotCounting, Counter, Counts

\* The threads that count are as before, but for t, which has begun to count k.
Begins(t, k) ==
    /\ t \in Threads /\ Free(t) /\ counting' \in [Threads -> Counter]
    /\ counting'[t] # NotCounting /\ counting'[t].for = k /\ counting'[t].step = "due"
    /\ \A u \in Threads : u # t => counting'[u] = counting[u]

\* StartWrite makes one call and begins to count it, or does neither.
LEMMA StartWriteEffect ==
    ASSUME Types, NEW t \in Threads, NEW k \in Writes, NEW callsNow \in [Writes -> Write],
           NEW locked \in BOOLEAN, StartWrite(t, k, callsNow, locked)
    PROVE  /\ calls' \in [Writes -> Write] /\ counting' \in [Threads -> Counter]
           /\ \A j \in Writes : j # k => calls'[j] = callsNow[j]
           /\ \/ calls'[k] = Sent(k) /\ Begins(t, k)
              \/ calls'[k] = NoCall /\ counting' = counting
<1>1. PICK started \in Attempts :
        /\ calls' = [callsNow EXCEPT ![k] = IF started THEN Sent(k) ELSE NoCall]
        /\ counting' = IF started THEN [counting EXCEPT ![t] = Counting(k, locked)] ELSE counting
    BY DEF StartWrite
<1>2. started \in BOOLEAN /\ Free(t)
    BY BoundsAssumption DEF Attempts, StartWrite
<1>3. NoCall \in Write /\ Sent(k) \in Write
    BY NoCallTypes, SentTypes DEF Types
<1>4. counting \in [Threads -> Counter]
    BY DEF Types
<1>5. CASE started
    <2>1. counting' = [counting EXCEPT ![t] = Counting(k, locked)]
        BY <1>1, <1>5
    <2>2. Begins(t, k)
        BY <1>2, <1>4, <2>1, CounterTypes DEF Begins
    <2> QED
        BY <1>1, <1>3, <1>5, <2>2 DEF Begins
<1>6. CASE ~started
    BY <1>1, <1>3, <1>4, <1>6
<1> QED
    BY <1>2, <1>5, <1>6

\* GetCurrentSession makes one read where none is out, or none at all.
LEMMA GetEffect ==
    ASSUME Types, NEW for \in {"tap"} \union Writes, GetCurrentSession(for)
    PROVE  /\ gets' \in [1..MaxGets -> Read]
           /\ \E i \in 1..MaxGets :
               /\ gets[i] = NoCall
               /\ gets' = gets \/ gets' = [gets EXCEPT ![i] = Sent(for)]
<1>1. PICK i \in FreeGets, started \in Attempts :
        gets' = IF started THEN [gets EXCEPT ![i] = Sent(for)] ELSE gets
    BY DEF GetCurrentSession
<1>2. i \in 1..MaxGets /\ gets[i] = NoCall
    BY DEF FreeGets
<1>3. Sent(for) \in Read /\ gets \in [1..MaxGets -> Read]
    BY SentTypes DEF Types
<1>4. started \in BOOLEAN
    BY BoundsAssumption DEF Attempts
<1> QED
    BY <1>1, <1>2, <1>3, <1>4

\* The callback ends the commit, or the join unless it goes on, and only a join
\* that goes on makes another write.
LEMMA CallbackEffect ==
    ASSUME Types, NEW for \in {"none", "tap"} \union Writes, NEW succeeded \in BOOLEAN,
           NEW callsNow \in [Writes -> Write], NEW locked \in BOOLEAN,
           Callback(for, succeeded, callsNow, locked)
    PROVE  /\ calls' \in [Writes -> Write] /\ counting' \in [Threads -> Counter]
           /\ commit' = (commit /\ for # "commit") /\ join' \in 0..NumUsers
           /\ calls'["commit"] = callsNow["commit"]
           /\ \/ /\ join' = IF for = "join" THEN 0 ELSE join
                 /\ calls'["join"] = callsNow["join"] /\ counting' = counting
              \/ /\ for = "join" /\ succeeded /\ join' > 0
                 /\ \/ calls'["join"] = Sent("join") /\ \E t \in Threads : Begins(t, "join")
                    \/ calls'["join"] = NoCall /\ counting' = counting
<1> DEFINE joinsNext == for = "join" /\ succeeded /\ join > 1
<1>1. commit' = (commit /\ for # "commit")
    BY DEF Callback
<1>2. join' \in 0..NumUsers
    <2>1. CASE joinsNext
        <3>1. join' = join - 1
            BY <2>1 DEF Callback
        <3> QED
            BY <3>1, <2>1, BoundsAssumption DEF Types
    <2>2. CASE for = "join" /\ ~joinsNext
        <3>1. join' = 0
            BY <2>2 DEF Callback
        <3> QED
            BY <3>1, BoundsAssumption
    <2>3. CASE for # "join"
        <3>1. join' = join
            BY <2>3 DEF Callback
        <3> QED
            BY <3>1 DEF Types
    <2> QED
        BY <2>1, <2>2, <2>3
<1>3. CASE joinsNext
    <2>1. PICK t \in Threads : StartWrite(t, "join", callsNow, locked)
        BY <1>3 DEF Callback, Threads
    <2>2. "join" \in Writes /\ "commit" \in Writes /\ "commit" # "join"
        BY DEF Writes
    <2>3. /\ calls' \in [Writes -> Write] /\ counting' \in [Threads -> Counter]
          /\ calls'["commit"] = callsNow["commit"]
          /\ \/ calls'["join"] = Sent("join") /\ Begins(t, "join")
             \/ calls'["join"] = NoCall /\ counting' = counting
        BY <2>1, <2>2, StartWriteEffect
    <2>4. join' = join - 1
        BY <1>3 DEF Callback
    <2>5. join' > 0
        BY <1>3, <2>4 DEF Types
    <2> QED
        BY <1>1, <1>2, <1>3, <2>3, <2>5
<1>4. CASE ~joinsNext
    <2>1. /\ calls' = callsNow /\ counting' = counting
          /\ join' = IF for = "join" THEN 0 ELSE join
        BY <1>4 DEF Callback
    <2> QED
        BY <1>1, <1>2, <2>1 DEF Types
<1> QED
    BY <1>3, <1>4

\* A tap makes a read, or is noted while a write is in progress, or is dropped.
LEMMA OnSessionChangedEffect ==
    ASSUME Types, NEW n \in 0..(MaxNumber + 1), OnSessionChanged(n)
    PROVE  /\ tapReceived' \in BOOLEAN /\ tapNumber' \in 0..(MaxNumber + 1)
           /\ tapReceived' => tapReceived \/ writes > 0
           /\ UNCHANGED gets \/ GetCurrentSession("tap")
<1>1. CASE session = NoSession
    BY <1>1 DEF OnSessionChanged, Types
<1>2. CASE session # NoSession /\ IsWriteInProgress
    <2>1. /\ tapReceived' = (tapReceived \/ n > tapNumber)
          /\ tapNumber' = IF n > tapNumber THEN n ELSE tapNumber
          /\ UNCHANGED gets
        BY <1>2 DEF OnSessionChanged
    <2> QED
        BY <1>2, <2>1 DEF IsWriteInProgress, Types
<1>3. CASE session # NoSession /\ ~IsWriteInProgress
    BY <1>3 DEF OnSessionChanged, Types
<1> QED
    BY <1>1, <1>2, <1>3

\* A read that is lost, a session that is held and one that is asked for are what
\* the session can be.
LEMMA SessionTypes ==
    ASSUME Types, NEW result \in Results, NEW at \in Nat, UpdateSession(result, at)
    PROVE  session' \in Sessions /\ (session # NoSession => session' # NoSession)
           /\ (result # Failed => session' # NoSession)
<1>1. CASE result = Failed
    BY <1>1 DEF UpdateSession, Types
<1>2. CASE result # Failed
    <2>1. result \in Numbers
        BY <1>2 DEF Results
    <2>2. session' = [number |-> result, asked |-> at]
        BY <1>2 DEF UpdateSession
    <2>3. session' \in [number : Nat, asked : Nat]
        BY <2>1, <2>2, BoundsAssumption DEF Numbers
    <2> QED
        BY <2>1, <2>2, <2>3, NoSessionAssumption DEF Sessions
<1> QED
    BY <1>1, <1>2

\* Resync is a change of the session, or none.
LEMMA ResyncEffect ==
    ASSUME Types, NEW resyncsNow \in BOOLEAN, NEW inProgressNow \in BOOLEAN,
           Resync(resyncsNow, inProgressNow)
    PROVE  /\ resyncs' \in BOOLEAN /\ resyncInProgress' \in BOOLEAN
           /\ tapReceived' \in BOOLEAN /\ tapNumber' \in 0..(MaxNumber + 1)
           /\ tapReceived' => tapReceived \/ writes > 0
           /\ UNCHANGED gets \/ GetCurrentSession("tap")
<1>1. CASE session # NoSession /\ resyncsNow /\ ~inProgressNow
    <2>1. session.number + 1 \in 0..(MaxNumber + 1)
        BY <1>1, BoundsAssumption DEF Types, Sessions, Numbers
    <2>2. OnSessionChanged(session.number + 1)
        BY <1>1 DEF Resync
    <2>3. resyncInProgress' = TRUE /\ resyncs' = FALSE
        BY <1>1 DEF Resync
    <2> QED
        BY <2>1, <2>2, <2>3, OnSessionChangedEffect
<1>2. CASE ~(session # NoSession /\ resyncsNow /\ ~inProgressNow)
    BY <1>2 DEF Resync, Types
<1> QED
    BY <1>1, <1>2

-----------------------------------------------------------------------------
(* The calls, and the commands they belong to. *)

CallInv == WriteHasCommand /\ ReadFollowsWrite

\* A read for a tap, or none, disturbs nothing.
LEMMA TapReadKeepsReads ==
    ASSUME Types, ReadFollowsWrite, UNCHANGED gets \/ GetCurrentSession("tap"),
           UNCHANGED <<calls, commit, join>>
    PROVE  ReadFollowsWrite'
<1>1. CASE UNCHANGED gets
    BY <1>1 DEF ReadFollowsWrite
<1>2. CASE GetCurrentSession("tap")
    <2>1. PICK i \in 1..MaxGets :
            gets' = gets \/ gets' = [gets EXCEPT ![i] = Sent("tap")]
        BY <1>2, GetEffect
    <2>2. Sent("tap").for = "tap" /\ "tap" \notin Writes
        BY SentTypes DEF Types, Writes
    <2>3. gets \in [1..MaxGets -> Read]
        BY DEF Types
    <2>4. \A j \in 1..MaxGets : gets'[j].for \in Writes => gets'[j].for = gets[j].for
        BY <2>1, <2>2, <2>3
    <2>5. "commit" \in Writes /\ "join" \in Writes
        BY DEF Writes
    <2> QED
        BY <2>4, <2>5 DEF ReadFollowsWrite
<1> QED
    BY <1>1, <1>2

-----------------------------------------------------------------------------
(* Every variable keeps its type. *)

\* There are two writes.
LEMMA TwoWrites ==
    /\ "commit" \in Writes /\ "join" \in Writes /\ "commit" # "join"
    /\ \A k \in Writes : k = "commit" \/ k = "join"
BY DEF Writes

\* A write that is served is a call.
Served(w, refused, result) ==
    [[[w EXCEPT !.status = "served"] EXCEPT !.refused = refused] EXCEPT !.result = result]

LEMMA ServedTypes ==
    ASSUME NEW w \in Write, NEW refused \in BOOLEAN, NEW result \in Results
    PROVE  /\ Served(w, refused, result) \in Write
           /\ Served(w, refused, result).status = "served"
           /\ Served(w, refused, result).id = w.id
           /\ Served(w, refused, result).for = w.for
           /\ Served(w, refused, result).count = w.count
<1>1. [w EXCEPT !.status = "served"] \in Write
    BY DEF Write
<1>2. \A v \in Write : [v EXCEPT !.refused = refused] \in Write
    BY DEF Write
<1>3. \A v \in Write : [v EXCEPT !.result = result] \in Write
    BY DEF Write
<1>4. Served(w, refused, result) \in Write
    BY <1>1, <1>2, <1>3 DEF Served
<1> QED
    BY <1>4 DEF Served, Write

\* What becomes of the document and of the call when a write is served.
LEMMA ServeWriteEffect ==
    ASSUME Types, NEW k \in Writes, ServeWrite(k)
    PROVE  /\ number' \in Numbers /\ taps' \subseteq 1..MaxNumber
           /\ calls[k].status = "sent"
           /\ \E refused \in BOOLEAN, result \in Results :
                calls' = [calls EXCEPT ![k] = Served(calls[k], refused, result)]
<1>1. PICK changed \in BOOLEAN, result \in {Failed, "document"} :
        /\ changed => number < MaxNumber /\ result = "document"
        /\ number' = IF changed THEN number + 1 ELSE number
        /\ taps' = IF changed THEN taps \union {number + 1} ELSE taps
        /\ \E refused \in {FALSE, ~changed /\ result = "document"} :
            calls' = [calls EXCEPT ![k].status = "served", ![k].refused = refused,
                   ![k].result = IF result = Failed THEN Failed ELSE number']
    BY DEF ServeWrite
<1>2. number' \in Numbers /\ taps' \subseteq 1..MaxNumber
    <2>1. CASE changed
        BY <1>1, <2>1, BoundsAssumption DEF Types, Numbers
    <2>2. CASE ~changed
        BY <1>1, <2>2 DEF Types
    <2> QED
        BY <2>1, <2>2
<1> DEFINE r == IF result = Failed THEN Failed ELSE number'
<1>3. r \in Results
    BY <1>2 DEF Results
<1>4. PICK refused \in {FALSE, ~changed /\ result = "document"} :
        calls' = [calls EXCEPT ![k].status = "served", ![k].refused = refused, ![k].result = r]
    BY <1>1
<1> HIDE DEF r
<1>5. calls \in [Writes -> Write]
    BY DEF Types
<1>6. calls' = [calls EXCEPT ![k] = Served(calls[k], refused, r)]
    BY <1>4, <1>5 DEF Served
<1> QED
    BY <1>2, <1>3, <1>6 DEF ServeWrite

\* The steps of the directory keep the types.
LEMMA DirectoryTypes ==
    ASSUME Types,
           \/ \E k \in Writes : ServeWrite(k)
           \/ \E i \in 1..MaxGets : ServeGet(i)
           \/ OthersChange
    PROVE  Types'
<1>1. ASSUME NEW k \in Writes, ServeWrite(k)
      PROVE  Types'
    <2>1. PICK refused \in BOOLEAN, result \in Results :
            /\ number' \in Numbers /\ taps' \subseteq 1..MaxNumber
            /\ calls' = [calls EXCEPT ![k] = Served(calls[k], refused, result)]
        BY <1>1, ServeWriteEffect
    <2>2. calls \in [Writes -> Write]
        BY DEF Types
    <2>3. calls' \in [Writes -> Write]
        BY <2>1, <2>2, ServedTypes
    <2>4. UNCHANGED <<writerVars, resyncVars, titleVars, commit, join, leave, gets>>
        BY <1>1 DEF ServeWrite
    <2> QED
        BY <2>1, <2>3, <2>4 DEF Types, writerVars, countVars, resyncVars, titleVars
<1>2. ASSUME NEW i \in 1..MaxGets, ServeGet(i)
      PROVE  Types'
    <2>1. PICK result \in {Failed, number} :
            gets' = [gets EXCEPT ![i].status = "served", ![i].result = result]
        BY <1>2 DEF ServeGet
    <2>2. result \in Results
        BY <2>1 DEF Types, Results
    <2>3. gets \in [1..MaxGets -> Read]
        BY DEF Types
    <2>4. gets' \in [1..MaxGets -> Read]
        BY <2>1, <2>2, <2>3 DEF Read
    <2>5. UNCHANGED <<directoryVars, writerVars, resyncVars, titleVars,
                      commit, join, leave, calls>>
        BY <1>2 DEF ServeGet
    <2> QED
        BY <2>4, <2>5 DEF Types, directoryVars, writerVars, countVars, resyncVars, titleVars
<1>3. CASE OthersChange
    <2>1. number' \in Numbers /\ taps' \subseteq 1..MaxNumber
        BY <1>3, BoundsAssumption DEF OthersChange, Types, Numbers
    <2>2. UNCHANGED <<writerVars, resyncVars, titleVars, commit, join, leave, calls, gets>>
        BY <1>3 DEF OthersChange
    <2> QED
        BY <2>1, <2>2 DEF Types, writerVars, countVars, resyncVars, titleVars
<1> QED
    BY <1>1, <1>2, <1>3

\* The two steps that count a write keep the types: the store wraps at most.
LEMMA CountTypes ==
    ASSUME Types, NEW t \in Threads, CountLoads(t) \/ CountStores(t)
    PROVE  Types'
<1> USE BoundsAssumption DEF directoryVars, resyncVars, titleVars
<1>1. CASE CountLoads(t)
    <2>1. counting' = [counting EXCEPT ![t].step = "loaded", ![t].count = writes]
        BY <1>1 DEF CountLoads
    <2>2. counting' \in [Threads -> Counter]
        BY <2>1 DEF Types, Counter
    <2>3. disturbed' \in BOOLEAN
        BY <1>1 DEF CountLoads, Types
    <2> QED
        BY <1>1, <2>2, <2>3 DEF CountLoads, Types
<1>2. CASE CountStores(t)
    <2>1. counting' = [counting EXCEPT ![t] = NotCounting]
        BY <1>2 DEF CountStores
    <2>2. counting' \in [Threads -> Counter]
        BY <2>1, CounterTypes DEF Types
    <2>3. counting[t].count + 1 \in Nat
        BY DEF Types, Counter, Counts
    <2>4. writes' \in Counts
        BY <1>2, <2>3 DEF CountStores, Counts
    <2> QED
        BY <1>2, <2>2, <2>4 DEF CountStores, Types
<1> QED
    BY <1>1, <1>2

\* The steps that hear of a change keep the types.
LEMMA TapTypes ==
    ASSUME Types,
           \/ OnResyncMessageReceived \/ ResyncTask
           \/ \E n \in 1..MaxNumber : TapArrives(n)
    PROVE  Types'
<1> USE DEF directoryVars, titleVars, countVars
<1>2. ASSUME UNCHANGED gets \/ GetCurrentSession("tap")
      PROVE  gets' \in [1..MaxGets -> Read]
    BY <1>2, GetEffect DEF Types
<1>3. CASE OnResyncMessageReceived
    <2>1. Resync(TRUE, resyncInProgress)
        BY <1>3 DEF OnResyncMessageReceived
    <2>2. resyncInProgress \in BOOLEAN
        BY DEF Types
    <2>3. /\ resyncs' \in BOOLEAN /\ resyncInProgress' \in BOOLEAN
          /\ tapReceived' \in BOOLEAN /\ tapNumber' \in 0..(MaxNumber + 1)
          /\ gets' \in [1..MaxGets -> Read]
        BY <2>1, <2>2, <1>2, ResyncEffect
    <2> QED
        BY <1>3, <2>3, BoundsAssumption DEF OnResyncMessageReceived, Types
<1>4. CASE ResyncTask
    <2>1. Resync(resyncs, FALSE)
        BY <1>4 DEF ResyncTask
    <2>2. resyncs \in BOOLEAN
        BY DEF Types
    <2>3. /\ resyncs' \in BOOLEAN /\ resyncInProgress' \in BOOLEAN
          /\ tapReceived' \in BOOLEAN /\ tapNumber' \in 0..(MaxNumber + 1)
          /\ gets' \in [1..MaxGets -> Read]
        BY <2>1, <2>2, <1>2, ResyncEffect
    <2> QED
        BY <1>4, <2>3 DEF ResyncTask, Types
<1>5. ASSUME NEW n \in 1..MaxNumber, TapArrives(n)
      PROVE  Types'
    <2>1. n \in 0..(MaxNumber + 1)
        BY BoundsAssumption
    <2>2. OnSessionChanged(n) /\ taps' = taps \ {n}
        BY <1>5 DEF TapArrives
    <2>3. /\ tapReceived' \in BOOLEAN /\ tapNumber' \in 0..(MaxNumber + 1)
          /\ gets' \in [1..MaxGets -> Read]
        BY <2>1, <2>2, <1>2, OnSessionChangedEffect
    <2> QED
        BY <1>5, <2>2, <2>3 DEF TapArrives, Types, resyncVars
<1> QED
    BY <1>3, <1>4, <1>5

\* The calls that are left when one has been answered are calls.
LEMMA AnsweredTypes ==
    ASSUME Types, NEW k \in Writes
    PROVE  /\ Answered(k) \in [Writes -> Write] /\ Answered(k)[k] = NoCall
           /\ \A j \in Writes : j # k => Answered(k)[j] = calls[j]
BY NoCallTypes DEF Answered, Types

\* What a callback is told of a write, and the count that comes down.
LEMMA HandledTypes ==
    ASSUME Types, NEW k \in Writes
    PROVE  /\ calls[k] \in Write /\ calls[k].result \in Results /\ calls[k].id \in Nat
           /\ (calls[k].result # Failed /\ ~calls[k].refused) \in BOOLEAN
           /\ (calls[k].count - 1) % CountRange \in Counts
           /\ k \in {"none", "tap"} \union Writes
<1>1. calls[k] \in Write
    BY DEF Types
<1>2. calls[k].count \in Int
    BY <1>1, BoundsAssumption DEF Write, Counts
<1> QED
    BY <1>1, <1>2, BoundsAssumption DEF Write, Counts

\* An answer keeps the types.
LEMMA AnswerTypes ==
    ASSUME Types,
           \/ \E k \in Writes : \/ IgnoreWrite(k) \/ IsCurrent(k)
                                \/ HandleWriteSessionResult(k) \/ WriteHandled(k)
           \/ \E i \in 1..MaxGets : AnswerGet(i)
    PROVE  Types'
<1> USE DEF directoryVars, titleVars, resyncVars
<1>1. ASSUME NEW k \in Writes, IgnoreWrite(k)
      PROVE  Types'
    <2>1. Callback(k, FALSE, Answered(k), FALSE) /\ k \in {"none", "tap"} \union Writes
        BY <1>1 DEF IgnoreWrite
    <2>2. /\ calls' \in [Writes -> Write] /\ counting' \in [Threads -> Counter]
          /\ join' \in 0..NumUsers /\ commit' \in BOOLEAN
        BY <2>1, AnsweredTypes, CallbackEffect DEF Types
    <2> QED
        BY <1>1, <2>2 DEF IgnoreWrite, Types, tapVars
<1>2. ASSUME NEW k \in Writes, IsCurrent(k)
      PROVE  Types'
    <2>1. calls' \in [Writes -> Write]
        BY <1>2 DEF IsCurrent, Types, Write
    <2> QED
        BY <1>2, <2>1 DEF IsCurrent, Types, writerVars, countVars
<1>3. ASSUME NEW k \in Writes, HandleWriteSessionResult(k)
      PROVE  Types'
    <2>1. session' \in Sessions
        BY <1>3, HandledTypes, SessionTypes DEF HandleWriteSessionResult
    <2>2. calls' \in [Writes -> Write]
        BY <1>3 DEF HandleWriteSessionResult, Types, Write
    <2>3. disturbed' \in BOOLEAN
        BY <1>3 DEF HandleWriteSessionResult, Types
    <2> QED
        BY <1>3, <2>1, <2>2, <2>3 DEF HandleWriteSessionResult, Types, tapVars
<1>4. ASSUME NEW k \in Writes, WriteHandled(k)
      PROVE  Types'
    <2> DEFINE succeeded == calls[k].result # Failed /\ ~calls[k].refused
    <2>1. writes' \in Counts
        BY <1>4, HandledTypes DEF WriteHandled
    <2>2. /\ tapReceived' = FALSE
          /\ UNCHANGED <<number, taps, id, disturbed, tapNumber, resyncs, resyncInProgress,
                         heard, requests, properties, leave>>
        BY <1>4 DEF WriteHandled
    <2>3. CASE /\ GetCurrentSession(k) /\ calls' = Answered(k)
               /\ UNCHANGED <<session, commit, join, counting>>
        <3>1. gets' \in [1..MaxGets -> Read]
            BY <2>3, GetEffect
        <3>2. calls' \in [Writes -> Write]
            BY <2>3, AnsweredTypes
        <3> QED
            BY <2>1, <2>2, <2>3, <3>1, <3>2 DEF Types
    <2>4. CASE /\ Callback(k, succeeded, Answered(k), TRUE) /\ UNCHANGED gets
               /\ \E result \in Results : UpdateSession(result, calls[k].id)
        <3>1. session' \in Sessions
            BY <2>4, HandledTypes, SessionTypes
        <3>2. succeeded \in BOOLEAN /\ Answered(k) \in [Writes -> Write]
            BY HandledTypes, AnsweredTypes
        <3>3. /\ calls' \in [Writes -> Write] /\ counting' \in [Threads -> Counter]
              /\ join' \in 0..NumUsers /\ commit' \in BOOLEAN
            <4> HIDE DEF succeeded
            <4> QED
                BY <2>4, <3>2, HandledTypes, CallbackEffect DEF Types
        <3> QED
            BY <2>1, <2>2, <2>4, <3>1, <3>3 DEF Types
    <2>5. calls[k].result \in Results /\ Failed \in Results
        BY HandledTypes DEF Results
    <2> QED
        BY <1>4, <2>3, <2>4, <2>5 DEF WriteHandled
<1>5. ASSUME NEW i \in 1..MaxGets, AnswerGet(i)
      PROVE  Types'
    <2>1. /\ gets[i] \in Read /\ gets[i].result \in Results /\ gets[i].id \in Nat
          /\ gets[i].for \in {"none", "tap"} \union Writes
          /\ calls \in [Writes -> Write]
        BY DEF Types, Read
    <2>2. session' \in Sessions
        BY <1>5, <2>1, SessionTypes DEF AnswerGet
    <2>3. /\ calls' \in [Writes -> Write] /\ counting' \in [Threads -> Counter]
          /\ join' \in 0..NumUsers /\ commit' \in BOOLEAN
        BY <1>5, <2>1, CallbackEffect DEF AnswerGet, Types
    <2>4. gets' \in [1..MaxGets -> Read]
        BY <1>5, NoCallTypes DEF AnswerGet, Types
    <2> QED
        BY <1>5, <2>2, <2>3, <2>4 DEF AnswerGet, Types, tapVars
<1> QED
    BY <1>1, <1>2, <1>3, <1>4, <1>5

\* A reset starts from nothing.
LEMMA DestroyTypes ==
    ASSUME Types, Destroy
    PROVE  /\ id' \in Nat /\ id' = id + 1 /\ session' \in Sessions /\ tapReceived' \in BOOLEAN
           /\ writes' \in Counts /\ tapNumber' \in 0..(MaxNumber + 1)
           /\ disturbed' \in BOOLEAN
<1>1. 0 \in Counts /\ 0 \in 0..(MaxNumber + 1) /\ id + 1 \in Nat
    BY BoundsAssumption DEF Types, Counts
<1> QED
    BY <1>1 DEF Destroy, Disturbs, Sessions

\* Leaving and joining keep the types.
LEMMA ResetTypes ==
    ASSUME Types, LeaveUser \/ JoinGame \/ LeaveGame
    PROVE  Types'
<1> USE BoundsAssumption DEF directoryVars, titleVars, resyncVars
<1>1. CASE LeaveUser
    <2>1. PICK left \in BOOLEAN :
            /\ left => number < MaxNumber
            /\ number' = IF left THEN number + 1 ELSE number
            /\ taps' = IF left THEN taps \union {number + 1} ELSE taps
            /\ IF left /\ leave > 1
               THEN /\ leave' = leave - 1
                    /\ UNCHANGED <<id, session, tapReceived, writes, disturbed, tapNumber>>
               ELSE leave' = 0 /\ Destroy
        BY <1>1 DEF LeaveUser
    <2>2. number' \in Numbers /\ taps' \subseteq 1..MaxNumber
        <3>1. CASE left
            BY <2>1, <3>1 DEF Types, Numbers
        <3>2. CASE ~left
            BY <2>1, <3>2 DEF Types
        <3> QED
            BY <3>1, <3>2
    <2>3. /\ leave' \in 0..NumUsers /\ id' \in Nat /\ session' \in Sessions
          /\ tapReceived' \in BOOLEAN /\ writes' \in Counts
          /\ tapNumber' \in 0..(MaxNumber + 1) /\ disturbed' \in BOOLEAN
        <3>1. CASE left /\ leave > 1
            BY <2>1, <3>1 DEF Types
        <3>2. CASE ~(left /\ leave > 1)
            BY <2>1, <3>2, DestroyTypes
        <3> QED
            BY <3>1, <3>2
    <2>4. UNCHANGED <<counting, resyncVars, titleVars, commit, join, calls, gets>>
        BY <1>1 DEF LeaveUser
    <2> QED
        BY <2>2, <2>3, <2>4 DEF Types
<1>2. CASE JoinGame
    <2>1. PICK started \in Attempts :
            /\ calls' = [calls EXCEPT !["join"] =
                   IF started THEN Call("sent", id', "join") ELSE NoCall]
            /\ counting' = IF started
                           THEN [counting EXCEPT !["title"] = Counting("join", FALSE)]
                           ELSE counting
        BY <1>2 DEF JoinGame
    <2>2. /\ id' \in Nat /\ session' \in Sessions /\ tapReceived' \in BOOLEAN
          /\ writes' \in Counts /\ tapNumber' \in 0..(MaxNumber + 1) /\ disturbed' \in BOOLEAN
        BY <1>2, DestroyTypes DEF JoinGame
    <2>3. NoCall \in Write
        BY NoCallTypes
    <2>4. Call("sent", id', "join") \in Write
        BY <2>2, TwoWrites DEF Call, Write, Results, Counts
    <2>5. calls' \in [Writes -> Write]
        BY <2>1, <2>3, <2>4 DEF Types
    <2>6. counting' \in [Threads -> Counter]
        BY <2>1, CounterTypes, TwoWrites DEF Types
    <2>7. leave' \in 0..NumUsers /\ join' \in 0..NumUsers
        BY <1>2 DEF JoinGame, Types
    <2>8. UNCHANGED <<number, taps, resyncVars, requests, properties, commit, gets>>
        BY <1>2 DEF JoinGame
    <2> QED
        BY <2>2, <2>5, <2>6, <2>7, <2>8 DEF Types
<1>3. CASE LeaveGame
    BY <1>3 DEF LeaveGame, Types, writerVars, countVars
<1> QED
    BY <1>1, <1>2, <1>3

\* The commits, and the requests for them, keep the types.
LEMMA CommitTypes ==
    ASSUME Types, AddRequest \/ DoWork \/ SetLocalMemberProperties \/ RunSetProperties
    PROVE  Types'
<1> USE DEF directoryVars, tapVars, resyncVars
<1>1. CASE AddRequest
    BY <1>1 DEF AddRequest, Types, writerVars, countVars
<1>2. calls \in [Writes -> Write]
    BY DEF Types
<1>3. ASSUME NEW t \in Threads, StartWrite(t, "commit", calls, FALSE)
      PROVE  calls' \in [Writes -> Write] /\ counting' \in [Threads -> Counter]
    BY <1>2, <1>3, StartWriteEffect, TwoWrites
<1>4. CASE DoWork
    <2>1. "title" \in Threads
        BY DEF Threads
    <2>2. /\ calls' \in [Writes -> Write] /\ counting' \in [Threads -> Counter]
          /\ commit' \in BOOLEAN
        BY <1>3, <1>4, <2>1 DEF DoWork, Types
    <2> QED
        BY <1>4, <2>2 DEF DoWork, Types
<1>5. ASSUME NEW t \in Threads, Run(t)
      PROVE  Types'
    <2>1. /\ calls' \in [Writes -> Write] /\ counting' \in [Threads -> Counter]
          /\ commit' \in BOOLEAN /\ properties' \in BOOLEAN
        BY <1>3, <1>5 DEF Run, Types
    <2> QED
        BY <1>5, <2>1 DEF Run, Types
<1>6. CASE SetLocalMemberProperties
    BY <1>5, <1>6 DEF SetLocalMemberProperties, Threads
<1>7. CASE RunSetProperties
    BY <1>5, <1>7 DEF RunSetProperties, Threads
<1> QED
    BY <1>1, <1>4, <1>6, <1>7

-----------------------------------------------------------------------------
(* Calls and reads stay with the command they were made for. *)

\* The calls are the same ones, but for how far they are.
SameCalls ==
    \A j \in Writes :
        /\ calls'[j].id = calls[j].id /\ calls'[j].for = calls[j].for
        /\ (calls[j] = NoCall <=> calls'[j] = NoCall)

\* Serving a write changes neither whose it is nor when it was made.
LEMMA ServeEffect ==
    ASSUME Types, NEW k \in Writes, ServeWrite(k)
    PROVE  /\ SameCalls
           /\ \A j \in Writes : calls'[j].status \in {"current", "loaded"} => calls'[j] = calls[j]
           /\ \A j \in Writes : calls[j].status \in {"current", "loaded"} => calls'[j] = calls[j]
<1>1. PICK refused \in BOOLEAN, result \in Results :
        calls' = [calls EXCEPT ![k] = Served(calls[k], refused, result)]
    BY ServeWriteEffect
<1>2. calls \in [Writes -> Write] /\ calls[k].status = "sent"
    BY DEF Types, ServeWrite
<1>3. /\ calls'[k].status = "served"
      /\ calls'[k].id = calls[k].id /\ calls'[k].for = calls[k].for
    BY <1>1, <1>2, ServedTypes
<1>4. \A j \in Writes : j # k => calls'[j] = calls[j]
    BY <1>1, <1>2
<1>5. calls[k] # NoCall /\ calls'[k] # NoCall
    BY <1>2, <1>3 DEF NoCall, Call
<1> QED
    BY <1>2, <1>3, <1>4, <1>5 DEF SameCalls

\* Nor does the thread that begins to handle its answer, or takes the lock for it.
LEMMA BeginsToHandle ==
    ASSUME Types, NEW k \in Writes, IsCurrent(k) \/ HandleWriteSessionResult(k)
    PROVE  /\ SameCalls
           /\ \A j \in Writes : j # k => calls'[j] = calls[j]
           /\ IsCurrent(k) => calls'[k].status = "current" /\ calls[k].id = id
           /\ HandleWriteSessionResult(k) =>
                /\ calls'[k].status = "loaded" /\ calls[k].status = "current"
                /\ calls'[k].count = writes
<1>1. calls \in [Writes -> Write]
    BY DEF Types
<1>2. CASE IsCurrent(k)
    <2>1. /\ calls' = [calls EXCEPT ![k].status = "current"] /\ calls[k].status = "served"
          /\ calls[k].id = id
        BY <1>2 DEF IsCurrent
    <2>2. calls'[k] = [calls[k] EXCEPT !.status = "current"]
        BY <1>1, <2>1
    <2>3. /\ calls'[k].status = "current" /\ calls'[k].id = calls[k].id
          /\ calls'[k].for = calls[k].for
        BY <1>1, <2>2 DEF Write
    <2>4. calls[k] # NoCall /\ calls'[k] # NoCall
        BY <2>1, <2>3, NoCallFields
    <2>5. ~HandleWriteSessionResult(k)
        BY <2>1 DEF HandleWriteSessionResult
    <2> QED
        BY <1>1, <2>1, <2>3, <2>4, <2>5 DEF SameCalls
<1>3. CASE HandleWriteSessionResult(k)
    <2>1. /\ calls' = [calls EXCEPT ![k].status = "loaded", ![k].count = writes]
          /\ calls[k].status = "current"
        BY <1>3 DEF HandleWriteSessionResult
    <2>2. calls'[k] = [[calls[k] EXCEPT !.status = "loaded"] EXCEPT !.count = writes]
        BY <1>1, <2>1
    <2>3. /\ calls'[k].status = "loaded" /\ calls'[k].id = calls[k].id
          /\ calls'[k].for = calls[k].for /\ calls'[k].count = writes
        BY <1>1, <2>2 DEF Write
    <2>4. calls[k] # NoCall /\ calls'[k] # NoCall
        BY <2>1, <2>3, NoCallFields
    <2>5. ~IsCurrent(k)
        BY <2>1 DEF IsCurrent
    <2> QED
        BY <1>1, <2>1, <2>3, <2>4, <2>5 DEF SameCalls
<1> QED
    BY <1>2, <1>3

\* Serving a read does not change whose it is.
LEMMA ServeGetEffect ==
    ASSUME Types, NEW i \in 1..MaxGets, ServeGet(i)
    PROVE  \A j \in 1..MaxGets : gets'[j].for = gets[j].for
<1>1. PICK r : gets' = [gets EXCEPT ![i].status = "served", ![i].result = r]
    BY DEF ServeGet
<1> QED
    BY <1>1 DEF Types, Read

\* What neither makes nor takes a call leaves them with their commands.
LEMMA SameCallsKeepCommands ==
    ASSUME Types, CallInv, SameCalls, UNCHANGED <<id, gets, commit, join>>
    PROVE  CallInv'
BY TwoWrites DEF SameCalls, CallInv, WriteHasCommand, ReadFollowsWrite

\* Nor does a reset.
LEMMA SameCallsKeepCallInv ==
    ASSUME Types, CallInv, UNCHANGED <<calls, gets, commit, join>>, id' \in Nat, id' >= id
    PROVE  CallInv'
<1>1. \A k \in Writes : calls[k].id \in Nat /\ id \in Nat
    BY DEF Types, Write
<1>2. \A k \in Writes : calls'[k].id <= id'
    BY <1>1 DEF CallInv, WriteHasCommand
<1> QED
    BY <1>2 DEF CallInv, WriteHasCommand, ReadFollowsWrite

\* No step of the directory takes a call from its command.
LEMMA DirectoryKeepsCallInv ==
    ASSUME Types, CallInv,
           \/ \E k \in Writes : ServeWrite(k)
           \/ \E i \in 1..MaxGets : ServeGet(i)
           \/ OthersChange
    PROVE  CallInv'
<1>1. ASSUME NEW k \in Writes, ServeWrite(k)
      PROVE  CallInv'
    <2>1. UNCHANGED <<id, commit, join, gets>>
        BY <1>1 DEF ServeWrite, writerVars
    <2> QED
        BY <1>1, <2>1, ServeEffect, SameCallsKeepCommands
<1>2. ASSUME NEW i \in 1..MaxGets, ServeGet(i)
      PROVE  CallInv'
    <2>1. UNCHANGED <<id, commit, join, calls>>
        BY <1>2 DEF ServeGet, writerVars
    <2> QED
        BY <1>2, <2>1, ServeGetEffect DEF CallInv, WriteHasCommand, ReadFollowsWrite
<1>3. CASE OthersChange
    BY <1>3, SameCallsKeepCallInv DEF OthersChange, writerVars, Types
<1> QED
    BY <1>1, <1>2, <1>3

\* Counting does not, and no tap.
LEMMA TapKeepsCallInv ==
    ASSUME Types, CallInv,
           \/ \E t \in Threads : CountLoads(t) \/ CountStores(t)
           \/ OnResyncMessageReceived \/ ResyncTask
           \/ \E n \in 1..MaxNumber : TapArrives(n)
    PROVE  CallInv'
<1>1. ASSUME NEW t \in Threads, CountLoads(t) \/ CountStores(t)
      PROVE  CallInv'
    <2>1. id' = id /\ id \in Nat /\ UNCHANGED <<calls, gets, commit, join>>
        BY <1>1 DEF CountLoads, CountStores, Types
    <2> QED
        BY <2>1, SameCallsKeepCallInv
<1>2. ASSUME UNCHANGED gets \/ GetCurrentSession("tap"), UNCHANGED <<id, calls, commit, join>>
      PROVE  CallInv'
    <2>1. ReadFollowsWrite'
        BY <1>2, TapReadKeepsReads DEF CallInv
    <2> QED
        BY <1>2, <2>1 DEF CallInv, WriteHasCommand
<1>3. CASE OnResyncMessageReceived
    BY <1>2, <1>3, ResyncEffect DEF OnResyncMessageReceived, Types
<1>4. CASE ResyncTask
    BY <1>2, <1>4, ResyncEffect DEF ResyncTask, Types
<1>5. ASSUME NEW n \in 1..MaxNumber, TapArrives(n)
      PROVE  CallInv'
    <2>1. n \in 0..(MaxNumber + 1)
        BY BoundsAssumption
    <2> QED
        BY <1>2, <1>5, <2>1, OnSessionChangedEffect DEF TapArrives
<1> QED
    BY <1>1, <1>3, <1>4, <1>5

\* An answer to a write that needs no read ends the command or goes on with it.
LEMMA CallbackKeepsCallInv ==
    ASSUME Types, CallInv, NEW k \in Writes, NEW succeeded \in BOOLEAN,
           NEW locked \in BOOLEAN, calls[k] # NoCall,
           Callback(k, succeeded, Answered(k), locked), UNCHANGED <<id, gets>>
    PROVE  CallInv'
<1>1. /\ Answered(k) \in [Writes -> Write] /\ Answered(k)[k] = NoCall
      /\ \A j \in Writes : j # k => Answered(k)[j] = calls[j]
    BY AnsweredTypes
<1> DEFINE now == Answered(k)
<1>2. /\ commit' = (commit /\ k # "commit") /\ calls'["commit"] = now["commit"]
      /\ \/ /\ join' = IF k = "join" THEN 0 ELSE join
            /\ calls'["join"] = now["join"]
         \/ /\ k = "join" /\ join' > 0
            /\ calls'["join"] = Sent("join") \/ calls'["join"] = NoCall
    BY <1>1, CallbackEffect, TwoWrites
<1>3. \A i \in 1..MaxGets : gets[i].for # k
    BY DEF CallInv, ReadFollowsWrite
<1>4. /\ Sent("join") # NoCall /\ Sent("join").id = id /\ Sent("join").for = "join"
      /\ NoCall.id = 0 /\ id \in Nat /\ \A j \in Writes : calls[j].id \in Nat
    BY SentTypes, TwoWrites DEF Types, NoCall, Call, Write
<1> HIDE DEF now
<1>5. now[k] = NoCall /\ \A j \in Writes : j # k => now[j] = calls[j]
    BY <1>1 DEF now
<1>6. CASE k = "commit"
    <2>1. /\ commit' = FALSE /\ join' = join
          /\ calls'["commit"] = NoCall /\ calls'["join"] = calls["join"]
        BY <1>2, <1>5, <1>6, TwoWrites
    <2>2. WriteHasCommand'
        BY <2>1, <1>4, TwoWrites DEF CallInv, WriteHasCommand
    <2>3. ReadFollowsWrite'
        BY <2>1, <1>3, <1>6, TwoWrites DEF CallInv, ReadFollowsWrite
    <2> QED
        BY <2>2, <2>3 DEF CallInv
<1>7. CASE k = "join"
    <2>1. /\ (commit => commit') /\ calls'["commit"] = calls["commit"]
          /\ \/ calls'["join"] = NoCall
             \/ calls'["join"] = Sent("join") /\ join' > 0
        BY <1>2, <1>5, <1>7, TwoWrites
    <2>2. WriteHasCommand'
        BY <2>1, <1>4, TwoWrites DEF CallInv, WriteHasCommand
    <2>3. ReadFollowsWrite'
        BY <2>1, <1>3, <1>7, TwoWrites DEF CallInv, ReadFollowsWrite
    <2> QED
        BY <2>2, <2>3 DEF CallInv
<1> QED
    BY <1>6, <1>7, TwoWrites

\* An answer to a write that makes a read hands its command to the read.
LEMMA ReadKeepsCallInv ==
    ASSUME Types, CallInv, NEW k \in Writes, calls[k] # NoCall, GetCurrentSession(k),
           calls' = Answered(k), UNCHANGED <<id, commit, join>>
    PROVE  CallInv'
<1>1. /\ calls'[k] = NoCall
      /\ \A j \in Writes : j # k => calls'[j] = calls[j]
    BY AnsweredTypes
<1>2. PICK i \in 1..MaxGets :
        gets' = gets \/ gets' = [gets EXCEPT ![i] = Sent(k)]
    BY GetEffect
<1>3. gets \in [1..MaxGets -> Read] /\ Sent(k).for = k
    BY SentTypes DEF Types
<1>4. \A j \in 1..MaxGets : gets[j].for # k
    BY DEF CallInv, ReadFollowsWrite
<1>5. \A j \in 1..MaxGets :
        gets'[j].for = gets[j].for \/ (j = i /\ gets'[j].for = k)
    BY <1>2, <1>3
<1>6. (k = "commit" => commit) /\ (k = "join" => join > 0)
    BY DEF CallInv, WriteHasCommand
<1>7. WriteHasCommand'
    <2>1. id' = id /\ id \in Nat /\ NoCall.id <= id
        BY NoCallFields DEF Types
    <2> QED
        BY <1>1, <2>1, TwoWrites DEF CallInv, WriteHasCommand
<1>8. ReadFollowsWrite'
    <2>1. ASSUME NEW j \in 1..MaxGets
          PROVE  /\ gets'[j].for = "commit" => commit'
                 /\ gets'[j].for = "join" => join' > 0
                 /\ \A m \in Writes : gets'[j].for = m => calls'[m] = NoCall
        BY <1>1, <1>5, <1>6 DEF CallInv, ReadFollowsWrite
    <2>2. ASSUME NEW j \in 1..MaxGets, NEW m \in 1..MaxGets,
                 gets'[j].for \in Writes, gets'[j].for = gets'[m].for
          PROVE  j = m
        BY <1>4, <1>5, <2>2 DEF CallInv, ReadFollowsWrite
    <2> QED
        BY <2>1, <2>2 DEF ReadFollowsWrite
<1> QED
    BY <1>7, <1>8 DEF CallInv

\* The answer to a read ends the command it was made for, or goes on with it.
LEMMA AnswerGetKeepsCallInv ==
    ASSUME Types, CallInv, NEW i \in 1..MaxGets, AnswerGet(i)
    PROVE  CallInv'
<1> DEFINE for == gets[i].for
           succeeded == gets[i].result # Failed
<1>1. /\ for \in {"none", "tap"} \union Writes /\ calls \in [Writes -> Write]
      /\ Callback(for, succeeded, calls, FALSE) /\ gets' = [gets EXCEPT ![i] = NoCall]
      /\ id' = id
    BY DEF AnswerGet, Types, Read
<1>2. /\ commit' = (commit /\ for # "commit") /\ calls'["commit"] = calls["commit"]
      /\ \/ /\ join' = IF for = "join" THEN 0 ELSE join
            /\ calls'["join"] = calls["join"]
         \/ /\ for = "join" /\ join' > 0
            /\ calls'["join"] = Sent("join") \/ calls'["join"] = NoCall
    <2> HIDE DEF for, succeeded
    <2>1. succeeded \in BOOLEAN
        BY DEF succeeded
    <2> QED
        BY <1>1, <2>1, CallbackEffect
<1>3. \A j \in 1..MaxGets :
        gets'[j].for \in Writes => gets'[j].for = gets[j].for /\ j # i
    BY <1>1 DEF Types, NoCall, Call, Writes
<1>4. \A j \in 1..MaxGets : j # i /\ gets[j].for \in Writes => gets[j].for # for
    BY DEF CallInv, ReadFollowsWrite
<1>5. for \in Writes => calls[for] = NoCall
    BY DEF CallInv, ReadFollowsWrite
<1>6. /\ Sent("join") # NoCall /\ Sent("join").id = id /\ Sent("join").for = "join"
      /\ NoCall.id = 0 /\ id \in Nat
    BY SentTypes, TwoWrites DEF Types, NoCall, Call
<1> HIDE DEF for, succeeded
<1>7. WriteHasCommand'
    <2>1. calls'["commit"] # NoCall => commit'
        BY <1>2, <1>5, TwoWrites DEF CallInv, WriteHasCommand
    <2>2. calls'["join"] # NoCall => join' > 0
        BY <1>2, <1>5, TwoWrites DEF CallInv, WriteHasCommand
    <2>3. calls'["commit"].id <= id' /\ (calls'["commit"] # NoCall => calls'["commit"].for = "commit")
        BY <1>1, <1>2, TwoWrites DEF CallInv, WriteHasCommand
    <2>4. calls'["join"].id <= id' /\ (calls'["join"] # NoCall => calls'["join"].for = "join")
        BY <1>1, <1>2, <1>6, TwoWrites DEF CallInv, WriteHasCommand
    <2> QED
        BY <2>1, <2>2, <2>3, <2>4, TwoWrites DEF WriteHasCommand
<1>8. ReadFollowsWrite'
    <2>1. ASSUME NEW j \in 1..MaxGets, gets'[j].for = "commit"
          PROVE  commit' /\ calls'["commit"] = NoCall
        BY <1>2, <1>3, <1>4, <2>1, TwoWrites DEF CallInv, ReadFollowsWrite
    <2>2. ASSUME NEW j \in 1..MaxGets, gets'[j].for = "join"
          PROVE  join' > 0 /\ calls'["join"] = NoCall
        <3>1. gets[j].for = "join" /\ for # "join"
            BY <1>3, <1>4, <2>2, TwoWrites
        <3> QED
            BY <1>2, <3>1, TwoWrites DEF CallInv, ReadFollowsWrite
    <2>3. ASSUME NEW j \in 1..MaxGets, NEW m \in 1..MaxGets,
                 gets'[j].for \in Writes, gets'[j].for = gets'[m].for
          PROVE  j = m
        BY <1>3, <2>3 DEF CallInv, ReadFollowsWrite
    <2> QED
        BY <2>1, <2>2, <2>3, TwoWrites DEF ReadFollowsWrite
<1> QED
    BY <1>7, <1>8 DEF CallInv

\* Leaving and joining leave what is out with its command, or begin one.
LEMMA ResetKeepsCallInv ==
    ASSUME Types, CallInv, LeaveUser \/ JoinGame \/ LeaveGame
    PROVE  CallInv'
<1>1. id \in Nat /\ \A k \in Writes : calls[k].id \in Nat
    BY DEF Types, Write
<1>2. CASE LeaveUser
    <2>1. id' \in Nat /\ id' >= id /\ UNCHANGED <<calls, gets, commit, join>>
        BY <1>1, <1>2 DEF LeaveUser, Destroy
    <2> QED
        BY <2>1, SameCallsKeepCallInv
<1>3. CASE LeaveGame
    BY <1>1, <1>3, SameCallsKeepCallInv DEF LeaveGame, writerVars, countVars
<1>4. CASE JoinGame
    <2>1. PICK started \in Attempts :
            calls' = [calls EXCEPT !["join"] =
                   IF started THEN Call("sent", id', "join") ELSE NoCall]
        BY <1>4 DEF JoinGame
    <2>2. /\ join = 0 /\ calls["join"] = NoCall /\ join' = NumUsers /\ join' > 0
          /\ id' = id + 1 /\ UNCHANGED <<commit, gets>>
        BY <1>4, BoundsAssumption DEF JoinGame, Destroy
    <2>3. calls \in [Writes -> Write]
        BY DEF Types
    <2>4. Call("sent", id', "join").id = id' /\ Call("sent", id', "join").for = "join"
        BY DEF Call
    <2>5. calls'["join"].id <= id' /\ (calls'["join"] # NoCall => calls'["join"].for = "join")
        BY <1>1, <2>1, <2>2, <2>3, <2>4, TwoWrites DEF NoCall, Call
    <2>6. calls'["commit"] = calls["commit"]
        BY <2>1, <2>3, TwoWrites
    <2>7. WriteHasCommand'
        BY <1>1, <2>2, <2>5, <2>6, TwoWrites DEF CallInv, WriteHasCommand
    <2>8. \A i \in 1..MaxGets : gets[i].for # "join"
        BY <2>2 DEF CallInv, ReadFollowsWrite
    <2>9. ReadFollowsWrite'
        BY <2>2, <2>6, <2>8, TwoWrites DEF CallInv, ReadFollowsWrite
    <2> QED
        BY <2>7, <2>9 DEF CallInv
<1> QED
    BY <1>2, <1>3, <1>4

\* A commit begins when none is in progress, and its write is the only one.
LEMMA CommitKeepsCallInv ==
    ASSUME Types, CallInv, AddRequest \/ DoWork \/ SetLocalMemberProperties \/ RunSetProperties
    PROVE  CallInv'
<1>1. id \in Nat /\ calls \in [Writes -> Write] /\ "title" \in Threads
    BY DEF Types, Threads
<1>2. CASE AddRequest
    BY <1>1, <1>2, SameCallsKeepCallInv DEF AddRequest, writerVars
<1>3. ASSUME NEW t \in Threads, ~commit, commit' = TRUE, StartWrite(t, "commit", calls, FALSE),
             UNCHANGED <<id, join, gets>>
      PROVE  CallInv'
    <2>1. /\ calls'["join"] = calls["join"]
          /\ calls'["commit"] = Sent("commit") \/ calls'["commit"] = NoCall
        BY <1>1, <1>3, StartWriteEffect, TwoWrites
    <2>2. /\ Sent("commit").id = id /\ Sent("commit").for = "commit"
          /\ NoCall.id = 0
        BY <1>1, SentTypes, TwoWrites DEF NoCall, Call
    <2>3. WriteHasCommand'
        BY <1>1, <1>3, <2>1, <2>2, TwoWrites DEF CallInv, WriteHasCommand
    <2>4. ReadFollowsWrite'
        BY <1>3, <2>1, TwoWrites DEF CallInv, ReadFollowsWrite
    <2> QED
        BY <2>3, <2>4 DEF CallInv
<1>4. ASSUME UNCHANGED <<id, calls, join, gets>>, commit => commit'
      PROVE  CallInv'
    BY <1>4 DEF CallInv, WriteHasCommand, ReadFollowsWrite
<1>5. CASE DoWork
    BY <1>1, <1>3, <1>4, <1>5 DEF DoWork
<1>6. ASSUME NEW t \in Threads, Run(t)
      PROVE  CallInv'
    BY <1>3, <1>4, <1>6 DEF Run
<1>7. CASE SetLocalMemberProperties
    BY <1>1, <1>6, <1>7 DEF SetLocalMemberProperties
<1>8. CASE RunSetProperties
    BY <1>6, <1>8 DEF RunSetProperties, Threads
<1> QED
    BY <1>2, <1>5, <1>7, <1>8

-----------------------------------------------------------------------------
(* The count of the writes in progress, and the taps that wait for them. *)

\* Only the answers that held the lock hold it, and with what they had loaded.
SameLoads ==
    \A j \in Writes : calls'[j].status = "loaded" =>
        calls[j].status = "loaded" /\ calls'[j].count = calls[j].count

\* Only answers of this session begin to be handled.
CurrentStays ==
    \A j \in Writes : calls'[j].status = "current" => calls[j].status = "current" \/ calls[j].id = id

\* While the count is above zero a write is out that has been counted.
LEMMA CountedIsOut ==
    ASSUME Types, CountIsExact
    PROVE  /\ \A k \in Writes : Counted(k) \in {0, 1}
           /\ writes <= 2 /\ (writes > 0 => \E k \in Writes : IsOut(k))
<1>1. \A k \in Writes : Counted(k) \in {0, 1} /\ (Counted(k) = 1 => IsOut(k))
    BY DEF Counted, IsCounted
<1>2. Counted("commit") \in {0, 1} /\ Counted("join") \in {0, 1}
    BY <1>1, TwoWrites
<1>3. writes <= 2
    BY <1>2 DEF CountIsExact
<1>4. writes > 0 => Counted("commit") = 1 \/ Counted("join") = 1
    BY <1>2 DEF CountIsExact
<1> QED
    BY <1>1, <1>3, <1>4, TwoWrites

\* A step that leaves the writes, their count and the threads that count alone,
\* and notes a tap only while the count is above zero.
LEMMA SameCallsKeepCountInv ==
    ASSUME Types, CountInv, SameCalls, SameLoads, CurrentStays,
           UNCHANGED <<id, writes, counting>>, disturbed => disturbed',
           tapReceived' => tapReceived \/ writes > 0
    PROVE  CountInv'
<1> SUFFICES ASSUME ~disturbed'
             PROVE  /\ CountIsExact' /\ CountingHasWrite' /\ CurrentHasId'
                    /\ LoadIsFresh' /\ TapHasWrite'
    BY DEF CountInv
<1>1. CountIsExact /\ CountingHasWrite /\ CurrentHasId /\ LoadIsFresh /\ TapHasWrite
    BY DEF CountInv
<1>2. \A j \in Writes : IsOut(j)' <=> IsOut(j)
    BY DEF IsOut, SameCalls
<1>3. \A j \in Writes : IsCounted(j)' <=> IsCounted(j)
    BY <1>2 DEF IsCounted, Free
<1>4. CountIsExact'
    BY <1>1, <1>3, TwoWrites DEF CountIsExact, Counted
<1>5. CountingHasWrite'
    BY <1>1, <1>2 DEF CountingHasWrite, Free, SameLoads
<1>6. CurrentHasId'
    BY <1>1 DEF CurrentHasId, SameCalls, SameLoads, CurrentStays
<1>7. LoadIsFresh'
    BY <1>1 DEF LoadIsFresh, SameLoads
<1>8. TapHasWrite'
    BY <1>1, <1>2, CountedIsOut DEF TapHasWrite, IsOut
<1> QED
    BY <1>4, <1>5, <1>6, <1>7, <1>8

\* A write that begins where none was is out, and not counted yet.
LEMMA BeginKeepsCountInv ==
    ASSUME Types, CountInv, NEW k \in Writes, calls[k] = NoCall,
           UNCHANGED <<id, writes, disturbed, tapReceived>>,
           \A j \in Writes : j # k => calls'[j] = calls[j],
           \/ calls'[k] = Sent(k) /\ \E t \in Threads : Begins(t, k)
           \/ calls'[k] = NoCall /\ counting' = counting
    PROVE  CountInv'
<1>1. CASE calls'[k] = NoCall /\ counting' = counting
    <2>1. \A j \in Writes : calls'[j] = calls[j]
        BY <1>1
    <2> QED
        BY <1>1, <2>1, SameCallsKeepCountInv DEF SameCalls, SameLoads, CurrentStays
<1>2. ASSUME calls'[k] = Sent(k), NEW t \in Threads, Begins(t, k)
      PROVE  CountInv'
    <2> SUFFICES ASSUME ~disturbed'
                 PROVE  /\ CountIsExact' /\ CountingHasWrite' /\ CurrentHasId'
                        /\ LoadIsFresh' /\ TapHasWrite'
        BY DEF CountInv
    <2>1. CountIsExact /\ CountingHasWrite /\ CurrentHasId /\ LoadIsFresh /\ TapHasWrite
        BY DEF CountInv
    <2>2. /\ Free(t) /\ ~Free(t)' /\ counting'[t].for = k /\ counting'[t].step = "due"
          /\ \A u \in Threads : u # t => counting'[u] = counting[u]
        BY <1>2 DEF Begins, Free
    <2>3. /\ calls'[k] # NoCall /\ calls'[k].id = id /\ calls'[k].status = "sent"
        BY <1>2, SentTypes DEF Types
    <2>4. \A u \in Threads : ~Free(u) => counting[u].for # k
        BY <2>1 DEF CountingHasWrite, IsOut
    <2>5. IsOut(k)' /\ ~IsOut(k)
        BY <2>3 DEF IsOut
    <2>6. \A j \in Writes : j # k => (IsOut(j)' <=> IsOut(j))
        BY DEF IsOut
    <2>7. ~IsCounted(k)' /\ ~IsCounted(k)
        BY <2>2, <2>5 DEF IsCounted
    <2>8. \A u \in Threads : u # t => (Free(u)' <=> Free(u))
        BY <2>2 DEF Free
    <2>9. \A j \in Writes : j # k => (IsCounted(j)' <=> IsCounted(j))
        BY <2>2, <2>6, <2>8 DEF IsCounted
    <2>10. CountIsExact'
        BY <2>1, <2>7, <2>9, TwoWrites DEF CountIsExact, Counted
    <2>11. CountingHasWrite'
        <3>1. ASSUME NEW u \in Threads, ~Free(u)'
              PROVE  \E j \in Writes : /\ counting'[u].for = j /\ IsOut(j)'
                                      /\ calls'[j].status # "loaded"
            <4>1. CASE u = t
                BY <4>1, <2>2, <2>3, <2>5
            <4>2. CASE u # t
                <5>1. counting'[u] = counting[u] /\ ~Free(u)
                    BY <2>2, <2>8, <3>1, <4>2
                <5>2. PICK j \in Writes :
                        counting[u].for = j /\ IsOut(j) /\ calls[j].status # "loaded"
                    BY <2>1, <5>1 DEF CountingHasWrite
                <5>3. j # k
                    BY <2>4, <5>1, <5>2
                <5> QED
                    BY <2>6, <5>1, <5>2, <5>3
            <4> QED
                BY <4>1, <4>2
        <3>2. ASSUME NEW u \in Threads, NEW v \in Threads, ~Free(u)', ~Free(v)',
                     counting'[u].for = counting'[v].for
              PROVE  u = v
            <4>1. \A w \in Threads : w # t /\ ~Free(w)' => ~Free(w) /\ counting'[w].for # k
                BY <2>2, <2>4, <2>8
            <4>2. CASE u = t \/ v = t
                BY <2>2, <3>2, <4>1, <4>2
            <4>3. CASE u # t /\ v # t
                BY <2>1, <2>2, <3>2, <4>1, <4>3 DEF CountingHasWrite
            <4> QED
                BY <4>2, <4>3
        <3> QED
            BY <3>1, <3>2 DEF CountingHasWrite
    <2>12. CurrentHasId'
        BY <2>1, <2>3 DEF CurrentHasId
    <2>13. LoadIsFresh'
        BY <2>1, <2>2, <2>3 DEF LoadIsFresh
    <2>14. TapHasWrite'
        BY <2>1, <2>6, <2>5 DEF TapHasWrite, IsOut
    <2> QED
        BY <2>10, <2>11, <2>12, <2>13, <2>14
<1> QED
    BY <1>1, <1>2

\* A thread that loads the count while no other is at it loads what it is.
LEMMA CountLoadsKeepsCountInv ==
    ASSUME Types, CountInv, NEW t \in Threads, CountLoads(t)
    PROVE  CountInv'
<1> SUFFICES ASSUME ~disturbed'
             PROVE  /\ CountIsExact' /\ CountingHasWrite' /\ CurrentHasId'
                    /\ LoadIsFresh' /\ TapHasWrite'
    BY DEF CountInv
<1>1. /\ ~disturbed /\ \A u \in Threads : counting[u].step # "loaded"
      /\ \A k \in Writes : calls[k].status # "loaded"
      /\ UNCHANGED <<id, writes, calls, tapReceived>> /\ counting[t].step = "due"
      /\ counting' = [counting EXCEPT ![t].step = "loaded", ![t].count = writes]
    BY DEF CountLoads
<1>2. CountIsExact /\ CountingHasWrite /\ CurrentHasId /\ LoadIsFresh /\ TapHasWrite
    BY <1>1 DEF CountInv
<1>3. /\ counting \in [Threads -> Counter] /\ counting[t] \in Counter
    BY DEF Types
<1>4. counting'[t] = [[counting[t] EXCEPT !.step = "loaded"] EXCEPT !.count = writes]
    BY <1>1, <1>3
<1>5. /\ counting'[t].step = "loaded" /\ counting'[t].count = writes
      /\ counting'[t].for = counting[t].for
    BY <1>3, <1>4 DEF Counter
<1>6. \A u \in Threads : u # t => counting'[u] = counting[u]
    BY <1>1, <1>3
<1>7. ~Free(t) /\ ~Free(t)'
    <2>1. counting[t].step = "due" /\ NotCounting.step = "none"
        BY <1>1 DEF NotCounting
    <2> QED
        BY <1>5, <2>1 DEF Free
<1>8. \A u \in Threads : (Free(u)' <=> Free(u)) /\ counting'[u].for = counting[u].for
    BY <1>5, <1>6, <1>7 DEF Free
<1>9. \A j \in Writes : (IsOut(j)' <=> IsOut(j)) /\ (IsCounted(j)' <=> IsCounted(j))
    BY <1>1, <1>8 DEF IsOut, IsCounted
<1>10. CountIsExact'
    BY <1>1, <1>2, <1>9, TwoWrites DEF CountIsExact, Counted
<1>11. CountingHasWrite'
    BY <1>1, <1>2, <1>8, <1>9 DEF CountingHasWrite
<1>12. CurrentHasId' /\ TapHasWrite'
    BY <1>1, <1>2 DEF CurrentHasId, TapHasWrite
<1>13. LoadIsFresh'
    BY <1>1, <1>5, <1>6 DEF LoadIsFresh
<1> QED
    BY <1>10, <1>11, <1>12, <1>13

\* A store that is up to date counts one write more.
LEMMA CountStoresKeepsCountInv ==
    ASSUME Types, CountInv, NEW t \in Threads, CountStores(t)
    PROVE  CountInv'
<1> SUFFICES ASSUME ~disturbed'
             PROVE  /\ CountIsExact' /\ CountingHasWrite' /\ CurrentHasId'
                    /\ LoadIsFresh' /\ TapHasWrite'
    BY DEF CountInv
<1>1. /\ ~disturbed /\ UNCHANGED <<id, calls, tapReceived>> /\ counting[t].step = "loaded"
      /\ counting' = [counting EXCEPT ![t] = NotCounting]
      /\ writes' = (counting[t].count + 1) % CountRange
    BY DEF CountStores
<1>2. CountIsExact /\ CountingHasWrite /\ CurrentHasId /\ LoadIsFresh /\ TapHasWrite
    BY <1>1 DEF CountInv
<1>3. counting \in [Threads -> Counter]
    BY DEF Types
<1>4. Free(t)' /\ ~Free(t) /\ \A u \in Threads : u # t => counting'[u] = counting[u]
    BY <1>1, <1>3 DEF Free, NotCounting
<1>5. \A u \in Threads : u # t => (Free(u)' <=> Free(u))
    BY <1>4 DEF Free
<1>6. PICK k \in Writes : k = counting[t].for /\ IsOut(k)
    BY <1>2, <1>4 DEF CountingHasWrite
<1>7. \A j \in Writes : IsOut(j)' <=> IsOut(j)
    BY <1>1 DEF IsOut
<1>8. \A u \in Threads : u # t /\ ~Free(u) => counting[u].for # k
    BY <1>2, <1>4, <1>6 DEF CountingHasWrite
<1>9. ~IsCounted(k) /\ IsCounted(k)'
    BY <1>4, <1>5, <1>6, <1>7, <1>8 DEF IsCounted
<1>10. \A j \in Writes : j # k => (IsCounted(j)' <=> IsCounted(j))
    BY <1>4, <1>5, <1>6, <1>7 DEF IsCounted
<1>11. counting[t].count = writes
    BY <1>1, <1>2 DEF LoadIsFresh
<1>12. Counted(k) = 0 /\ Counted(k)' = 1 /\ \A j \in Writes : j # k => Counted(j)' = Counted(j)
    BY <1>9, <1>10 DEF Counted
<1>13. writes <= 1 /\ writes \in Nat
    BY <1>2, <1>12, CountedIsOut, TwoWrites, BoundsAssumption DEF CountIsExact, Types, Counts
<1>14. writes' = writes + 1
    BY <1>1, <1>11, <1>13, BoundsAssumption
<1>15. CountIsExact'
    BY <1>2, <1>12, <1>13, <1>14, CountedIsOut, TwoWrites DEF CountIsExact
<1>16. CountingHasWrite'
    BY <1>1, <1>2, <1>4, <1>5, <1>7 DEF CountingHasWrite
<1>17. CurrentHasId' /\ TapHasWrite'
    BY <1>1, <1>2 DEF CurrentHasId, TapHasWrite
<1>18. LoadIsFresh'
    <2>1. \A j \in Writes : calls'[j].status # "loaded"
        BY <1>1, <1>2 DEF LoadIsFresh
    <2>2. counting'[t].step # "loaded"
        BY <1>4 DEF Free, NotCounting
    <2>3. \A u \in Threads : counting'[u].step # "loaded"
        BY <1>1, <1>2, <1>4, <2>2 DEF LoadIsFresh
    <2> QED
        BY <2>1, <2>3 DEF LoadIsFresh
<1> QED
    BY <1>15, <1>16, <1>17, <1>18

\* The steps of the directory, and the taps.
LEMMA DirectoryKeepsCountInv ==
    ASSUME Types, CountInv,
           \/ \E k \in Writes : ServeWrite(k)
           \/ \E i \in 1..MaxGets : ServeGet(i)
           \/ OthersChange \/ OnResyncMessageReceived \/ ResyncTask
           \/ \E n \in 1..MaxNumber : TapArrives(n)
    PROVE  CountInv'
<1>1. ASSUME NEW k \in Writes, ServeWrite(k)
      PROVE  CountInv'
    <2>1. UNCHANGED <<id, writes, counting, disturbed, tapReceived>>
        BY <1>1 DEF ServeWrite, writerVars, countVars
    <2>2. SameCalls /\ SameLoads /\ CurrentStays
        BY <1>1, ServeEffect DEF SameLoads, CurrentStays
    <2> QED
        BY <2>1, <2>2, SameCallsKeepCountInv
<1>2. ASSUME UNCHANGED <<id, writes, counting, disturbed, calls>>,
             tapReceived' => tapReceived \/ writes > 0
      PROVE  CountInv'
    <2>1. SameCalls /\ SameLoads /\ CurrentStays
        BY <1>2 DEF SameCalls, SameLoads, CurrentStays
    <2> QED
        BY <1>2, <2>1, SameCallsKeepCountInv
<1>3. ASSUME NEW i \in 1..MaxGets, ServeGet(i)
      PROVE  CountInv'
    BY <1>2, <1>3 DEF ServeGet, writerVars, countVars
<1>4. CASE OthersChange
    BY <1>2, <1>4 DEF OthersChange, writerVars, countVars
<1>5. CASE OnResyncMessageReceived
    BY <1>2, <1>5, ResyncEffect DEF OnResyncMessageReceived, Types, countVars
<1>6. CASE ResyncTask
    BY <1>2, <1>6, ResyncEffect DEF ResyncTask, Types, countVars
<1>7. ASSUME NEW n \in 1..MaxNumber, TapArrives(n)
      PROVE  CountInv'
    <2>1. n \in 0..(MaxNumber + 1)
        BY BoundsAssumption
    <2> QED
        BY <1>2, <1>7, <2>1, OnSessionChangedEffect DEF TapArrives, countVars
<1> QED
    BY <1>1, <1>3, <1>4, <1>5, <1>6, <1>7

\* An answer to a write of another session was not counted for this one.
LEMMA IgnoreKeepsCountInv ==
    ASSUME Types, CountInv, NEW k \in Writes, IgnoreWrite(k)
    PROVE  CountInv'
<1>1. /\ Answered(k) \in [Writes -> Write] /\ Answered(k)[k] = NoCall
      /\ \A j \in Writes : j # k => Answered(k)[j] = calls[j]
    BY AnsweredTypes
<1>2. /\ Callback(k, FALSE, Answered(k), FALSE) /\ calls[k].id # id
      /\ UNCHANGED <<id, writes, disturbed, tapReceived>>
    BY DEF IgnoreWrite, tapVars
<1>3. calls' = Answered(k) /\ counting' = counting
    BY <1>2 DEF Callback
<1> SUFFICES ASSUME ~disturbed'
             PROVE  /\ CountIsExact' /\ CountingHasWrite' /\ CurrentHasId'
                    /\ LoadIsFresh' /\ TapHasWrite'
    BY DEF CountInv
<1>4. CountIsExact /\ CountingHasWrite /\ CurrentHasId /\ LoadIsFresh /\ TapHasWrite
    BY <1>2 DEF CountInv
<1>5. calls'[k] = NoCall /\ \A j \in Writes : j # k => calls'[j] = calls[j]
    BY <1>1, <1>3
<1>6. ~IsOut(k) /\ \A j \in Writes : IsOut(j)' <=> IsOut(j)
    BY <1>2, <1>5 DEF IsOut
<1>7. \A j \in Writes : IsCounted(j)' <=> IsCounted(j)
    BY <1>3, <1>6 DEF IsCounted, Free
<1>8. CountIsExact'
    BY <1>2, <1>4, <1>7, TwoWrites DEF CountIsExact, Counted
<1>9. CountingHasWrite'
    BY <1>3, <1>4, <1>5, <1>6, NoCallFields DEF CountingHasWrite, Free
<1>10. CurrentHasId'
    BY <1>2, <1>4, <1>5, NoCallFields DEF CurrentHasId
<1>11. LoadIsFresh'
    BY <1>2, <1>3, <1>4, <1>5, NoCallFields DEF LoadIsFresh
<1>12. TapHasWrite'
    BY <1>2, <1>4, <1>6 DEF TapHasWrite, IsOut
<1> QED
    BY <1>8, <1>9, <1>10, <1>11, <1>12

\* The answer that takes the lock while nobody counts loads what the count is.
LEMMA HandleKeepsCountInv ==
    ASSUME Types, OneLoaded, CountInv, NEW k \in Writes, HandleWriteSessionResult(k)
    PROVE  CountInv'
<1> SUFFICES ASSUME ~disturbed'
             PROVE  /\ CountIsExact' /\ CountingHasWrite' /\ CurrentHasId'
                    /\ LoadIsFresh' /\ TapHasWrite'
    BY DEF CountInv
<1>1. /\ ~disturbed /\ \A t \in Threads : Free(t)
      /\ UNCHANGED <<id, writes, counting, tapReceived>> /\ ~Locked
    BY DEF HandleWriteSessionResult, tapVars
<1>2. CountIsExact /\ CurrentHasId /\ TapHasWrite
    BY <1>1 DEF CountInv
<1>3. /\ SameCalls /\ calls'[k].status = "loaded" /\ calls[k].status = "current"
      /\ calls'[k].count = writes /\ \A j \in Writes : j # k => calls'[j] = calls[j]
    BY BeginsToHandle
<1>4. \A j \in Writes : IsOut(j)' <=> IsOut(j)
    BY <1>1, <1>3 DEF SameCalls, IsOut
<1>5. \A j \in Writes : IsCounted(j)' <=> IsCounted(j)
    BY <1>1, <1>4 DEF IsCounted, Free
<1>6. CountIsExact'
    BY <1>1, <1>2, <1>5, TwoWrites DEF CountIsExact, Counted
<1>7. CountingHasWrite'
    BY <1>1 DEF CountingHasWrite, Free
<1>8. CurrentHasId'
    BY <1>1, <1>2, <1>3 DEF CurrentHasId, SameCalls
<1>9. LoadIsFresh'
    <2>1. \A j \in Writes : calls'[j].status = "loaded" => j = k
        BY <1>1, <1>3 DEF Locked
    <2>2. \A t \in Threads : counting'[t].step # "loaded"
        BY <1>1 DEF Free, NotCounting
    <2> QED
        BY <1>1, <1>3, <2>1, <2>2 DEF LoadIsFresh
<1>10. TapHasWrite'
    BY <1>1, <1>2, <1>4 DEF TapHasWrite, IsOut
<1> QED
    BY <1>6, <1>7, <1>8, <1>9, <1>10

\* The write that was handled is counted down by one, for it had been counted.
LEMMA HandledKeepsCountInv ==
    ASSUME Types, OneLoaded, CountInv, NEW k \in Writes, WriteHandled(k)
    PROVE  CountInv'
<1> SUFFICES ASSUME ~disturbed'
             PROVE  /\ CountIsExact' /\ CountingHasWrite' /\ CurrentHasId'
                    /\ LoadIsFresh' /\ TapHasWrite'
    BY DEF CountInv
<1>1. /\ ~disturbed /\ calls[k].status = "loaded" /\ tapReceived' = FALSE /\ id' = id
      /\ writes' = (calls[k].count - 1) % CountRange
    BY DEF WriteHandled
<1>2. CountIsExact /\ CountingHasWrite /\ CurrentHasId /\ LoadIsFresh
    BY <1>1 DEF CountInv
<1>3. /\ Answered(k) \in [Writes -> Write] /\ Answered(k)[k] = NoCall
      /\ \A j \in Writes : j # k => Answered(k)[j] = calls[j]
    BY AnsweredTypes
<1>4. /\ \A j \in Writes : j # k => calls'[j] = calls[j]
      /\ \/ calls'[k] = NoCall /\ counting' = counting
         \/ calls'[k] = Sent(k) /\ \E t \in Threads : Begins(t, k)
    <2> DEFINE succeeded == calls[k].result # Failed /\ ~calls[k].refused
               now == Answered(k)
    <2>1. now \in [Writes -> Write] /\ now[k] = NoCall /\ \A j \in Writes : j # k => now[j] = calls[j]
        BY <1>3
    <2>2. \/ calls' = now /\ counting' = counting
          \/ Callback(k, succeeded, now, TRUE)
        BY DEF WriteHandled
    <2>3. succeeded \in BOOLEAN
        OBVIOUS
    <2> HIDE DEF succeeded, now
    <2>4. CASE calls' = now /\ counting' = counting
        BY <2>1, <2>4
    <2>5. CASE Callback(k, succeeded, now, TRUE)
        <3>1. /\ calls'["commit"] = now["commit"]
              /\ \/ calls'["join"] = now["join"] /\ counting' = counting
                 \/ /\ k = "join"
                    /\ \/ calls'["join"] = Sent("join") /\ \E t \in Threads : Begins(t, "join")
                       \/ calls'["join"] = NoCall /\ counting' = counting
            BY <2>1, <2>3, <2>5, CallbackEffect
        <3> QED
            BY <2>1, <3>1, TwoWrites
    <2> QED
        BY <2>2, <2>4, <2>5
<1>5. \A t \in Threads : counting[t].step # "loaded"
    BY <1>1, <1>2 DEF LoadIsFresh
<1>6. \A t \in Threads : ~Free(t) => counting[t].for # k
    BY <1>1, <1>2 DEF CountingHasWrite
<1>7. IsOut(k) /\ IsCounted(k)
    <2>1. calls[k] # NoCall /\ calls[k].id = id
        BY <1>1, <1>2, NoCallFields DEF CurrentHasId
    <2> QED
        BY <1>6, <2>1 DEF IsOut, IsCounted
<1>8. \A j \in Writes : j # k => (IsOut(j)' <=> IsOut(j))
    BY <1>1, <1>4 DEF IsOut
<1>9. \/ ~IsOut(k)' /\ counting' = counting
      \/ IsOut(k)' /\ calls'[k].status = "sent" /\ \E t \in Threads : Begins(t, k)
    <2>1. Sent(k) # NoCall /\ Sent(k).id = id /\ Sent(k).status = "sent"
        BY SentTypes DEF Types
    <2> QED
        BY <1>1, <1>4, <2>1 DEF IsOut
<1>10. ~IsCounted(k)' /\ \A j \in Writes : j # k => (IsCounted(j)' <=> IsCounted(j))
    <2>1. CASE ~IsOut(k)' /\ counting' = counting
        BY <1>8, <2>1 DEF IsCounted, Free
    <2>2. ASSUME IsOut(k)', NEW t \in Threads, Begins(t, k)
          PROVE  ~IsCounted(k)' /\ \A j \in Writes : j # k => (IsCounted(j)' <=> IsCounted(j))
        BY <1>8, <2>2 DEF IsCounted, Begins, Free
    <2> QED
        BY <1>9, <2>1, <2>2
<1>11. /\ Counted(k) = 1 /\ Counted(k)' = 0
       /\ \A j \in Writes : j # k => Counted(j)' = Counted(j)
    BY <1>7, <1>10 DEF Counted
<1>12. calls[k].count = writes /\ writes \in Int
    BY <1>1, <1>2, BoundsAssumption DEF LoadIsFresh, Types, Counts
<1>13. writes \in 1..2
    BY <1>2, <1>11, <1>12, CountedIsOut, TwoWrites DEF CountIsExact
<1>14. writes' = writes - 1
    BY <1>1, <1>12, <1>13, BoundsAssumption
<1>15. CountIsExact'
    BY <1>2, <1>11, <1>13, <1>14, CountedIsOut, TwoWrites DEF CountIsExact
<1>16. \A j \in Writes : calls'[j].status \in {"current", "loaded"} => j # k /\ calls'[j] = calls[j]
    BY <1>4, NoCallFields, SentTypes DEF Types
<1>17. \A j \in Writes : calls'[j].status # "loaded"
    BY <1>1, <1>16 DEF OneLoaded
<1>18. CountingHasWrite'
    <2>1. CASE ~IsOut(k)' /\ counting' = counting
        BY <1>2, <1>6, <1>8, <1>17, <2>1 DEF CountingHasWrite, Free
    <2>2. ASSUME IsOut(k)', NEW t \in Threads, Begins(t, k)
          PROVE  CountingHasWrite'
        <3>1. /\ ~Free(t)' /\ counting'[t].for = k
              /\ \A u \in Threads : u # t => counting'[u] = counting[u]
            BY <2>2 DEF Begins, Free
        <3>2. \A u \in Threads : u # t => (Free(u)' <=> Free(u))
            BY <3>1 DEF Free
        <3>3. \A u \in Threads : u # t /\ ~Free(u)' => ~Free(u) /\ counting'[u].for # k
            BY <1>6, <3>1, <3>2
        <3>4. ASSUME NEW u \in Threads, ~Free(u)'
              PROVE  \E j \in Writes : counting'[u].for = j /\ IsOut(j)'
            <4>1. CASE u = t
                BY <2>2, <3>1, <4>1
            <4>2. CASE u # t
                <5>1. PICK j \in Writes : counting[u].for = j /\ IsOut(j)
                    BY <1>2, <3>3, <3>4, <4>2 DEF CountingHasWrite
                <5> QED
                    BY <1>8, <3>1, <3>3, <3>4, <4>2, <5>1
            <4> QED
                BY <4>1, <4>2
        <3>5. ASSUME NEW u \in Threads, NEW v \in Threads, ~Free(u)', ~Free(v)',
                     counting'[u].for = counting'[v].for
              PROVE  u = v
            <4>1. CASE u = t \/ v = t
                BY <3>1, <3>3, <3>5, <4>1
            <4>2. CASE u # t /\ v # t
                BY <1>2, <3>1, <3>3, <3>5, <4>2 DEF CountingHasWrite
            <4> QED
                BY <4>1, <4>2
        <3> QED
            BY <1>17, <3>4, <3>5 DEF CountingHasWrite
    <2> QED
        BY <1>9, <2>1, <2>2
<1>19. CurrentHasId'
    BY <1>1, <1>2, <1>16 DEF CurrentHasId
<1>20. LoadIsFresh'
    <2>1. \A t \in Threads : counting'[t].step # "loaded"
        <3>1. CASE counting' = counting
            BY <1>5, <3>1
        <3>2. ASSUME NEW t \in Threads, Begins(t, k)
              PROVE  \A u \in Threads : counting'[u].step # "loaded"
            BY <1>5, <3>2 DEF Begins
        <3> QED
            BY <1>9, <3>1, <3>2
    <2> QED
        BY <1>17, <2>1 DEF LoadIsFresh
<1>21. TapHasWrite'
    BY <1>1 DEF TapHasWrite
<1> QED
    BY <1>15, <1>18, <1>19, <1>20, <1>21

\* An answer to a read takes no write, and may let a join go on with one.
LEMMA AnswerGetKeepsCountInv ==
    ASSUME Types, CallInv, CountInv, NEW i \in 1..MaxGets, AnswerGet(i)
    PROVE  CountInv'
<1> DEFINE for == gets[i].for
           succeeded == gets[i].result # Failed
<1>1. /\ for \in {"none", "tap"} \union Writes /\ calls \in [Writes -> Write]
      /\ Callback(for, succeeded, calls, FALSE)
      /\ UNCHANGED <<id, writes, disturbed, tapReceived>>
    BY DEF AnswerGet, Types, Read, tapVars
<1>2. calls["join"] = NoCall \/ for # "join"
    BY TwoWrites DEF CallInv, ReadFollowsWrite
<1>3. succeeded \in BOOLEAN
    OBVIOUS
<1> HIDE DEF for, succeeded
<1>4. /\ calls'["commit"] = calls["commit"]
      /\ \/ calls'["join"] = calls["join"] /\ counting' = counting
         \/ /\ for = "join"
            /\ \/ calls'["join"] = Sent("join") /\ \E t \in Threads : Begins(t, "join")
               \/ calls'["join"] = NoCall /\ counting' = counting
    BY <1>1, <1>3, CallbackEffect
<1>5. CASE calls'["join"] = calls["join"] /\ counting' = counting
    <2>1. \A j \in Writes : calls'[j] = calls[j]
        BY <1>4, <1>5, TwoWrites
    <2> QED
        BY <1>1, <1>5, <2>1, SameCallsKeepCountInv DEF SameCalls, SameLoads, CurrentStays
<1>6. CASE for = "join"
    <2>1. /\ calls["join"] = NoCall /\ \A j \in Writes : j # "join" => calls'[j] = calls[j]
          /\ \/ calls'["join"] = Sent("join") /\ \E t \in Threads : Begins(t, "join")
             \/ calls'["join"] = NoCall /\ counting' = counting
        BY <1>2, <1>4, <1>6, TwoWrites
    <2> QED
        BY <1>1, <2>1, BeginKeepsCountInv, TwoWrites
<1> QED
    BY <1>4, <1>5, <1>6

\* A reset while nobody counts and no answer is being handled leaves a count of
\* zero, and the writes that are out are not of the session that comes.
LEMMA DestroyEffect ==
    ASSUME Types, CallInv, Destroy, ~disturbed'
    PROVE  /\ id' = id + 1 /\ writes' = 0 /\ tapReceived' = FALSE
           /\ \A t \in Threads : Free(t)
           /\ \A k \in Writes : calls[k].id # id'
           /\ \A k \in Writes : calls[k].status \notin {"current", "loaded"}
<1>1. \A k \in Writes : calls[k].id <= id /\ calls[k].id \in Nat /\ id \in Nat
    BY DEF Types, CallInv, WriteHasCommand, Write
<1> QED
    BY <1>1 DEF Destroy, Disturbs

LEMMA ResetKeepsCountInv ==
    ASSUME Types, CallInv, CountInv, LeaveUser \/ JoinGame \/ LeaveGame
    PROVE  CountInv'
<1>1. calls \in [Writes -> Write] /\ counting \in [Threads -> Counter]
    BY DEF Types
<1>2. ASSUME UNCHANGED <<id, tapReceived, writes, disturbed, counting, calls>>
      PROVE  CountInv'
    BY <1>2, SameCallsKeepCountInv DEF SameCalls, SameLoads, CurrentStays
<1>3. CASE LeaveUser /\ UNCHANGED <<id, session, tapReceived, writes, disturbed, tapNumber>>
    BY <1>2, <1>3 DEF LeaveUser
<1>4. CASE LeaveUser /\ Destroy
    <2> SUFFICES ASSUME ~disturbed'
                 PROVE  /\ CountIsExact' /\ CountingHasWrite' /\ CurrentHasId'
                        /\ LoadIsFresh' /\ TapHasWrite'
        BY DEF CountInv
    <2>1. calls' = calls /\ counting' = counting
        BY <1>4 DEF LeaveUser
    <2>2. /\ id' = id + 1 /\ writes' = 0 /\ tapReceived' = FALSE
          /\ \A t \in Threads : Free(t)
          /\ \A k \in Writes : calls[k].id # id'
          /\ \A k \in Writes : calls[k].status \notin {"current", "loaded"}
        BY <1>4, DestroyEffect
    <2>3. \A k \in Writes : ~IsCounted(k)'
        BY <2>1, <2>2 DEF IsOut, IsCounted
    <2>4. CountIsExact'
        BY <2>2, <2>3, TwoWrites DEF CountIsExact, Counted
    <2>5. CountingHasWrite'
        BY <2>1, <2>2 DEF CountingHasWrite, Free
    <2>6. CurrentHasId' /\ TapHasWrite'
        BY <2>1, <2>2 DEF CurrentHasId, TapHasWrite
    <2>7. LoadIsFresh'
        BY <2>1, <2>2 DEF LoadIsFresh, Free, NotCounting
    <2> QED
        BY <2>4, <2>5, <2>6, <2>7
<1>5. CASE LeaveGame
    BY <1>2, <1>5 DEF LeaveGame, writerVars, countVars
<1>6. CASE JoinGame
    <2> SUFFICES ASSUME ~disturbed'
                 PROVE  /\ CountIsExact' /\ CountingHasWrite' /\ CurrentHasId'
                        /\ LoadIsFresh' /\ TapHasWrite'
        BY DEF CountInv
    <2>1. PICK started \in Attempts :
            /\ calls' = [calls EXCEPT !["join"] =
                   IF started THEN Call("sent", id', "join") ELSE NoCall]
            /\ counting' = IF started
                           THEN [counting EXCEPT !["title"] = Counting("join", FALSE)]
                           ELSE counting
        BY <1>6 DEF JoinGame
    <2>2. /\ id' = id + 1 /\ writes' = 0 /\ tapReceived' = FALSE
          /\ \A t \in Threads : Free(t)
          /\ \A k \in Writes : calls[k].id # id'
          /\ \A k \in Writes : calls[k].status \notin {"current", "loaded"}
        BY <1>6, DestroyEffect DEF JoinGame
    <2>3. calls'["commit"] = calls["commit"]
        BY <1>1, <2>1, TwoWrites
    <2>4. ~IsOut("commit")'
        BY <2>2, <2>3, TwoWrites DEF IsOut
    <2>5. CASE started
        <3>1. /\ calls'["join"] = Call("sent", id', "join")
              /\ counting' = [counting EXCEPT !["title"] = Counting("join", FALSE)]
              /\ "title" \in Threads
            BY <1>1, <2>1, <2>5, TwoWrites DEF Threads
        <3>2. /\ calls'["join"].status = "sent" /\ calls'["join"].id = id'
              /\ calls'["join"] # NoCall
            BY <3>1, NoCallFields DEF Call
        <3>3. /\ counting'["title"] # NotCounting /\ counting'["title"].for = "join"
              /\ counting'["title"].step = "due"
              /\ \A t \in Threads : t # "title" => counting'[t] = NotCounting
            <4>1. counting'["title"] = Counting("join", FALSE)
                BY <1>1, <3>1
            <4>2. \A t \in Threads : t # "title" => counting'[t] = counting[t]
                BY <1>1, <3>1
            <4> QED
                BY <2>2, <4>1, <4>2, CounterTypes, TwoWrites DEF Free
        <3>4. \A k \in Writes : ~IsCounted(k)'
            BY <2>4, <3>1, <3>3, TwoWrites DEF IsCounted, Free
        <3>5. CountIsExact'
            BY <2>2, <3>4, TwoWrites DEF CountIsExact, Counted
        <3>6. IsOut("join")'
            BY <3>2 DEF IsOut
        <3>7. CountingHasWrite'
            BY <3>2, <3>3, <3>6, TwoWrites DEF CountingHasWrite, Free
        <3>8. \A k \in Writes : calls'[k].status \notin {"current", "loaded"}
            BY <2>2, <2>3, <3>2, TwoWrites
        <3>9. \A t \in Threads : counting'[t].step # "loaded"
            BY <3>3 DEF NotCounting
        <3> QED
            BY <2>2, <3>5, <3>7, <3>8, <3>9 DEF CurrentHasId, TapHasWrite, LoadIsFresh
    <2>6. CASE ~started
        <3>1. calls'["join"] = NoCall /\ counting' = counting
            BY <1>1, <2>1, <2>6, TwoWrites
        <3>2. \A k \in Writes : ~IsCounted(k)'
            BY <2>4, <3>1, TwoWrites DEF IsCounted, IsOut
        <3>3. CountIsExact'
            BY <2>2, <3>2, TwoWrites DEF CountIsExact, Counted
        <3>4. CountingHasWrite'
            BY <2>2, <3>1 DEF CountingHasWrite, Free
        <3>5. \A k \in Writes : calls'[k].status \notin {"current", "loaded"}
            BY <2>2, <2>3, <3>1, TwoWrites, NoCallFields
        <3>6. \A t \in Threads : counting'[t].step # "loaded"
            BY <2>2, <3>1 DEF Free, NotCounting
        <3> QED
            BY <2>2, <3>3, <3>4, <3>5, <3>6 DEF CurrentHasId, TapHasWrite, LoadIsFresh
    <2> QED
        BY <2>5, <2>6
<1> QED
    BY <1>3, <1>4, <1>5, <1>6 DEF LeaveUser

\* A commit that writes adds a write that is to be counted.
LEMMA CommitKeepsCountInv ==
    ASSUME Types, CallInv, CountInv,
           AddRequest \/ DoWork \/ SetLocalMemberProperties \/ RunSetProperties
    PROVE  CountInv'
<1>1. id \in Nat /\ calls \in [Writes -> Write] /\ "title" \in Threads
    BY DEF Types, Threads
<1>2. ASSUME UNCHANGED <<id, tapReceived, writes, disturbed, counting, calls>>
      PROVE  CountInv'
    BY <1>2, SameCallsKeepCountInv DEF SameCalls, SameLoads, CurrentStays
<1>3. ASSUME NEW t \in Threads, ~commit, StartWrite(t, "commit", calls, FALSE),
             UNCHANGED <<id, tapReceived, writes, disturbed>>
      PROVE  CountInv'
    <2>1. /\ \A j \in Writes : j # "commit" => calls'[j] = calls[j]
          /\ \/ calls'["commit"] = Sent("commit") /\ Begins(t, "commit")
             \/ calls'["commit"] = NoCall /\ counting' = counting
        BY <1>1, <1>3, StartWriteEffect, TwoWrites
    <2>2. calls["commit"] = NoCall
        BY <1>3 DEF CallInv, WriteHasCommand
    <2> QED
        BY <1>3, <2>1, <2>2, BeginKeepsCountInv, TwoWrites
<1>4. CASE AddRequest
    BY <1>2, <1>4 DEF AddRequest, writerVars, countVars
<1>5. CASE DoWork
    BY <1>1, <1>2, <1>3, <1>5 DEF DoWork, tapVars
<1>6. ASSUME NEW t \in Threads, Run(t)
      PROVE  CountInv'
    BY <1>2, <1>3, <1>6 DEF Run, tapVars
<1>7. CASE SetLocalMemberProperties
    BY <1>1, <1>6, <1>7 DEF SetLocalMemberProperties
<1>8. CASE RunSetProperties
    BY <1>6, <1>8 DEF RunSetProperties, Threads
<1> QED
    BY <1>4, <1>5, <1>7, <1>8

-----------------------------------------------------------------------------
(* One answer at a time holds the lock. *)

\* The lock is only taken when it is free.
LEMMA OneLoadedPreserved ==
    ASSUME Types, CallInv, OneLoaded, [Next]_vars
    PROVE  OneLoaded'
<1>1. ASSUME \A j \in Writes : calls'[j].status = "loaded" => calls[j].status = "loaded"
      PROVE  OneLoaded'
    BY <1>1 DEF OneLoaded
<1>2. ASSUME NEW k \in Writes, ServeWrite(k)
      PROVE  OneLoaded'
    BY <1>1, <1>2, ServeEffect
<1>3. ASSUME NEW k \in Writes, IsCurrent(k)
      PROVE  OneLoaded'
    BY <1>1, <1>3, BeginsToHandle
<1>4. ASSUME NEW k \in Writes, HandleWriteSessionResult(k)
      PROVE  OneLoaded'
    <2>1. \A j \in Writes : calls[j].status # "loaded"
        BY <1>4 DEF HandleWriteSessionResult, Locked
    <2>2. \A j \in Writes : j # k => calls'[j] = calls[j]
        BY <1>4, BeginsToHandle
    <2> QED
        BY <2>1, <2>2 DEF OneLoaded
<1>5. ASSUME NEW for \in {"none", "tap"} \union Writes, NEW succeeded \in BOOLEAN,
             NEW locked \in BOOLEAN, NEW now \in [Writes -> Write],
             Callback(for, succeeded, now, locked),
             \A j \in Writes : now[j] = calls[j] \/ now[j] = NoCall
      PROVE  OneLoaded'
    <2>1. /\ calls'["commit"] = now["commit"]
          /\ \/ calls'["join"] = now["join"] \/ calls'["join"] = NoCall
             \/ calls'["join"] = Sent("join")
        BY <1>5, CallbackEffect
    <2>2. Sent("join").status = "sent" /\ NoCall.status = "none"
        BY SentTypes, NoCallFields, TwoWrites DEF Types
    <2> QED
        BY <1>1, <1>5, <2>1, <2>2, TwoWrites
<1>6. ASSUME NEW k \in Writes, IgnoreWrite(k)
      PROVE  OneLoaded'
    <2>1. Callback(k, FALSE, Answered(k), FALSE)
        BY <1>6 DEF IgnoreWrite
    <2>2. /\ Answered(k) \in [Writes -> Write] /\ k \in {"none", "tap"} \union Writes
          /\ \A j \in Writes : Answered(k)[j] = calls[j] \/ Answered(k)[j] = NoCall
        BY AnsweredTypes
    <2> QED
        BY <1>5, <2>1, <2>2
<1>7. ASSUME NEW k \in Writes, WriteHandled(k)
      PROVE  OneLoaded'
    <2> DEFINE succeeded == calls[k].result # Failed /\ ~calls[k].refused
    <2>1. calls' = Answered(k) \/ Callback(k, succeeded, Answered(k), TRUE)
        BY <1>7 DEF WriteHandled
    <2>2. succeeded \in BOOLEAN
        OBVIOUS
    <2> HIDE DEF succeeded
    <2>3. CASE calls' = Answered(k)
        BY <1>1, <2>3, AnsweredTypes, NoCallFields
    <2>4. CASE Callback(k, succeeded, Answered(k), TRUE)
        <3>1. /\ Answered(k) \in [Writes -> Write] /\ k \in {"none", "tap"} \union Writes
              /\ \A j \in Writes : Answered(k)[j] = calls[j] \/ Answered(k)[j] = NoCall
            BY AnsweredTypes
        <3> QED
            BY <1>5, <2>2, <2>4, <3>1
    <2> QED
        BY <2>1, <2>3, <2>4
<1>8. ASSUME NEW i \in 1..MaxGets, AnswerGet(i)
      PROVE  OneLoaded'
    <2> DEFINE succeeded == gets[i].result # Failed
    <2>1. /\ Callback(gets[i].for, succeeded, calls, FALSE) /\ calls \in [Writes -> Write]
          /\ gets[i].for \in {"none", "tap"} \union Writes
        BY <1>8 DEF AnswerGet, Types, Read
    <2>2. succeeded \in BOOLEAN
        OBVIOUS
    <2> HIDE DEF succeeded
    <2> QED
        BY <1>5, <2>1, <2>2
<1>9. ASSUME NEW t \in Threads, StartWrite(t, "commit", calls, FALSE)
      PROVE  OneLoaded'
    <2>1. /\ calls'["join"] = calls["join"]
          /\ calls'["commit"] = Sent("commit") \/ calls'["commit"] = NoCall
        <3>1. calls \in [Writes -> Write]
            BY DEF Types
        <3> QED
            BY <1>9, <3>1, StartWriteEffect, TwoWrites
    <2>2. Sent("commit").status = "sent" /\ NoCall.status = "none"
        BY SentTypes, NoCallFields, TwoWrites DEF Types
    <2> QED
        BY <1>1, <2>1, <2>2, TwoWrites
<1>10. ASSUME NEW t \in Threads, Run(t)
       PROVE  OneLoaded'
    BY <1>1, <1>9, <1>10 DEF Run
<1>11. "title" \in Threads
    BY DEF Threads
<1>12. CASE DoWork
    BY <1>1, <1>9, <1>11, <1>12 DEF DoWork
<1>13. CASE SetLocalMemberProperties \/ RunSetProperties
    BY <1>10, <1>11, <1>13 DEF SetLocalMemberProperties, RunSetProperties, Threads
<1>14. CASE JoinGame
    <2>1. PICK started \in Attempts :
            calls' = [calls EXCEPT !["join"] =
                   IF started THEN Call("sent", id', "join") ELSE NoCall]
        BY <1>14 DEF JoinGame
    <2>2. Call("sent", id', "join").status = "sent" /\ NoCall.status = "none"
        BY NoCallFields DEF Call
    <2>3. calls'["commit"] = calls["commit"] /\ calls'["join"].status # "loaded"
        BY <2>1, <2>2, TwoWrites DEF Types
    <2> QED
        BY <1>1, <2>3, TwoWrites
<1>15. ASSUME calls' = calls
       PROVE  OneLoaded'
    BY <1>1, <1>15
<1>16. ASSUME \/ \E t \in Threads : CountLoads(t) \/ CountStores(t)
              \/ \E i \in 1..MaxGets : ServeGet(i)
              \/ \E n \in 1..MaxNumber : TapArrives(n)
              \/ OthersChange \/ OnResyncMessageReceived \/ ResyncTask \/ LeaveUser
              \/ AddRequest \/ LeaveGame \/ UNCHANGED vars
       PROVE  OneLoaded'
    BY <1>15, <1>16 DEF CountLoads, CountStores, ServeGet, TapArrives, OthersChange,
        OnResyncMessageReceived, ResyncTask, LeaveUser, AddRequest, LeaveGame, vars
<1> QED
    BY <1>2, <1>3, <1>4, <1>6, <1>7, <1>8, <1>12, <1>13, <1>14, <1>16 DEF Next

-----------------------------------------------------------------------------
(* The theorems. *)

\* The program starts within the invariant.
LEMMA InvInit == Init => Inv
<1> SUFFICES ASSUME Init PROVE Inv
    OBVIOUS
<1>1. /\ 0 \in Numbers /\ 0 \in 0..(MaxNumber + 1) /\ 0 \in 0..NumUsers
      /\ 0 \in Counts /\ 0 \in 0..MaxResyncs /\ NoSession \in Sessions
    BY BoundsAssumption DEF Numbers, Sessions, Counts
<1>2. /\ calls \in [Writes -> Write] /\ gets \in [1..MaxGets -> Read]
      /\ counting \in [Threads -> Counter]
    BY NoCallTypes, CounterTypes DEF Init
<1>3. Types
    BY <1>1, <1>2 DEF Init, Types
<1>4. \A k \in Writes : calls[k] = NoCall /\ calls[k].status = "none" /\ ~IsCounted(k)
    BY NoCallFields DEF Init, IsCounted, IsOut
<1>5. \A t \in Threads : Free(t) /\ counting[t].step = "none"
    BY DEF Init, Free, NotCounting
<1>6. writes = 0 /\ tapReceived = FALSE
    BY DEF Init
<1>7. CountIsExact /\ TapHasWrite
    BY <1>4, <1>6, TwoWrites DEF CountIsExact, Counted, TapHasWrite
<1>8. OneLoaded /\ CountingHasWrite /\ CurrentHasId /\ LoadIsFresh
    BY <1>4, <1>5 DEF OneLoaded, CountingHasWrite, CurrentHasId, LoadIsFresh
<1>9. WriteHasCommand /\ ReadFollowsWrite
    BY <1>4, NoCallFields, TwoWrites DEF Init, WriteHasCommand, ReadFollowsWrite, Writes
<1> QED
    BY <1>3, <1>7, <1>8, <1>9 DEF Inv, CountInv

\* Every step keeps it.
LEMMA InvPreserved ==
    ASSUME Inv, [Next]_vars
    PROVE  Inv'
<1>1. Types /\ CallInv /\ OneLoaded /\ CountInv
    BY DEF Inv, CallInv
<1>2. OneLoaded'
    BY <1>1, OneLoadedPreserved
<1> SUFFICES Types' /\ CallInv' /\ CountInv'
    BY <1>2 DEF Inv, CallInv
<1>3. ASSUME \/ \E k \in Writes : ServeWrite(k)
             \/ \E i \in 1..MaxGets : ServeGet(i)
             \/ OthersChange
      PROVE  Types' /\ CallInv' /\ CountInv'
    BY <1>1, <1>3, DirectoryTypes, DirectoryKeepsCallInv, DirectoryKeepsCountInv
<1>4. ASSUME \/ OnResyncMessageReceived \/ ResyncTask
             \/ \E n \in 1..MaxNumber : TapArrives(n)
      PROVE  Types' /\ CallInv' /\ CountInv'
    BY <1>1, <1>4, TapTypes, TapKeepsCallInv, DirectoryKeepsCountInv
<1>5. ASSUME NEW t \in Threads, CountLoads(t) \/ CountStores(t)
      PROVE  Types' /\ CallInv' /\ CountInv'
    BY <1>1, <1>5, CountTypes, TapKeepsCallInv, CountLoadsKeepsCountInv, CountStoresKeepsCountInv
<1>6. ASSUME NEW k \in Writes, IgnoreWrite(k)
      PROVE  Types' /\ CallInv' /\ CountInv'
    <2>1. Types'
        BY <1>1, <1>6, AnswerTypes
    <2>2. /\ calls[k].status = "served" /\ Callback(k, FALSE, Answered(k), FALSE)
          /\ UNCHANGED <<id, gets>>
        BY <1>6 DEF IgnoreWrite
    <2>3. calls[k] # NoCall
        BY <2>2, NoCallFields
    <2>4. CallInv'
        BY <1>1, <2>2, <2>3, CallbackKeepsCallInv
    <2> QED
        BY <1>1, <1>6, <2>1, <2>4, IgnoreKeepsCountInv
<1>7. ASSUME NEW k \in Writes, IsCurrent(k)
      PROVE  Types' /\ CallInv' /\ CountInv'
    <2>1. Types'
        BY <1>1, <1>7, AnswerTypes
    <2>2. UNCHANGED <<id, gets, commit, join, writes, counting, disturbed, tapReceived>>
        BY <1>7 DEF IsCurrent, writerVars, countVars
    <2>3. /\ SameCalls /\ calls'[k].status = "current" /\ calls[k].id = id
          /\ \A j \in Writes : j # k => calls'[j] = calls[j]
        BY <1>1, <1>7, BeginsToHandle
    <2>4. CallInv'
        BY <1>1, <2>2, <2>3, SameCallsKeepCommands
    <2>5. SameLoads /\ CurrentStays
        BY <2>3 DEF SameLoads, CurrentStays
    <2> QED
        BY <1>1, <2>1, <2>2, <2>3, <2>4, <2>5, SameCallsKeepCountInv
<1>8. ASSUME NEW k \in Writes, HandleWriteSessionResult(k)
      PROVE  Types' /\ CallInv' /\ CountInv'
    <2>1. Types'
        BY <1>1, <1>8, AnswerTypes
    <2>2. SameCalls /\ UNCHANGED <<id, gets, commit, join>>
        BY <1>1, <1>8, BeginsToHandle DEF HandleWriteSessionResult
    <2>3. CallInv'
        BY <1>1, <2>2, SameCallsKeepCommands
    <2> QED
        BY <1>1, <1>8, <2>1, <2>3, HandleKeepsCountInv
<1>9. ASSUME NEW k \in Writes, WriteHandled(k)
      PROVE  Types' /\ CallInv' /\ CountInv'
    <2> DEFINE succeeded == calls[k].result # Failed /\ ~calls[k].refused
    <2>1. Types'
        BY <1>1, <1>9, AnswerTypes
    <2>2. calls[k].status = "loaded" /\ id' = id
        BY <1>9 DEF WriteHandled
    <2>3. calls[k] # NoCall
        BY <2>2, NoCallFields
    <2>4. \/ GetCurrentSession(k) /\ calls' = Answered(k) /\ UNCHANGED <<commit, join>>
          \/ Callback(k, succeeded, Answered(k), TRUE) /\ UNCHANGED gets
        BY <1>9 DEF WriteHandled
    <2>5. succeeded \in BOOLEAN
        OBVIOUS
    <2> HIDE DEF succeeded
    <2>6. CallInv'
        BY <1>1, <2>2, <2>3, <2>4, <2>5, CallbackKeepsCallInv, ReadKeepsCallInv
    <2> QED
        BY <1>1, <1>9, <2>1, <2>6, HandledKeepsCountInv
<1>10. ASSUME NEW i \in 1..MaxGets, AnswerGet(i)
       PROVE  Types' /\ CallInv' /\ CountInv'
    BY <1>1, <1>10, AnswerTypes, AnswerGetKeepsCallInv, AnswerGetKeepsCountInv
<1>11. CASE LeaveUser \/ JoinGame \/ LeaveGame
    BY <1>1, <1>11, ResetTypes, ResetKeepsCallInv, ResetKeepsCountInv
<1>12. CASE AddRequest \/ DoWork \/ SetLocalMemberProperties \/ RunSetProperties
    BY <1>1, <1>12, CommitTypes, CommitKeepsCallInv, CommitKeepsCountInv
<1>13. CASE UNCHANGED vars
    <2> USE <1>13 DEF vars, directoryVars, writerVars, countVars, resyncVars, titleVars
    <2>1. Types'
        BY <1>1 DEF Types
    <2>2. CallInv'
        BY <1>1 DEF CallInv, WriteHasCommand, ReadFollowsWrite
    <2>3. SameCalls /\ SameLoads /\ CurrentStays
        BY DEF SameCalls, SameLoads, CurrentStays
    <2>4. CountInv'
        BY <1>1, <2>3, SameCallsKeepCountInv
    <2> QED
        BY <2>1, <2>2, <2>4
<1> QED
    BY <1>3, <1>4, <1>5, <1>6, <1>7, <1>8, <1>9, <1>10, <1>11, <1>12, <1>13 DEF Next

\* The invariant gives what the runs check.
LEMMA InvGivesProperties == Inv => TypeOK /\ NotedTapsAreLookedAt
<1> SUFFICES ASSUME Inv PROVE TypeOK /\ NotedTapsAreLookedAt
    OBVIOUS
<1>1. Types /\ CountInv
    BY DEF Inv
<1>2. ~disturbed => writes <= 2
    BY <1>1, CountedIsOut DEF CountInv
<1>3. TypeOK
    BY <1>1, <1>2 DEF Types, TypeOK, Numbers, Sessions, Results, Write, Read, Counter, Counts
<1> QED
    BY <1>1, <1>3 DEF CountInv, NotedTapsAreLookedAt

\* Every member keeps its type, whatever fails and however late answers are, and
\* the unsigned count of writes in progress does not wrap before it is used by two
\* threads at a time, or a write is answered or the writer reset before the write
\* is counted.
THEOREM SessionTypeCorrect == Spec => []TypeOK
<1>1. Inv /\ [Next]_vars => Inv'
    BY InvPreserved
<1> QED
    BY InvInit, InvGivesProperties, <1>1, PTL DEF Spec

\* Until then a tap that was only noted, since a write was in progress, has a
\* write of this session out whose answer looks at it.
THEOREM TapsAlwaysLookedAt == Spec => []NotedTapsAreLookedAt
<1>1. Inv /\ [Next]_vars => Inv'
    BY InvPreserved
<1> QED
    BY InvInit, InvGivesProperties, <1>1, PTL DEF Spec
=============================================================================
