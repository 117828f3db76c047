------------------------- MODULE Interceptor_proofs -------------------------
(***************************************************************************)
(* Proofs about the interceptor: the approval tables, the reviews and the  *)
(* audit ledger.                                                           *)
(***************************************************************************)
EXTENDS Interceptor, FiniteSetTheorems, TLAPS

-----------------------------------------------------------------------------
(* Helpers *)

\* Adding a key.
LEMMA PutType ==
    ASSUME NEW S, NEW T, NEW f \in Partial(S, T), NEW k \in S, NEW v \in T
    PROVE  /\ Put(f, k, v) \in Partial(S, T)
           /\ DOMAIN Put(f, k, v) = DOMAIN f \cup {k}
           /\ Put(f, k, v)[k] = v
           /\ \A x \in DOMAIN f \ {k} : Put(f, k, v)[x] = f[x]
  <1>1. PICK D \in SUBSET S : f \in [D -> T]
    BY DEF Partial
  <1>2. D \cup {k} \in SUBSET S /\ Put(f, k, v) \in [D \cup {k} -> T]
    BY <1>1 DEF Put
  <1>3. Put(f, k, v) \in Partial(S, T)
    BY <1>2 DEF Partial
  <1> QED  BY <1>3 DEF Put

\* Adding an answer.
LEMMA PutReview ==
    ASSUME NEW f \in Partial(Requests, BOOLEAN), NEW k \in Requests, NEW v \in BOOLEAN
    PROVE  /\ Put(f, k, v) \in Partial(Requests, BOOLEAN)
           /\ DOMAIN Put(f, k, v) = DOMAIN f \cup {k}
           /\ Put(f, k, v)[k] = v
           /\ \A x \in DOMAIN f \ {k} : Put(f, k, v)[x] = f[x]
  <1>1. PICK D \in SUBSET Requests : f \in [D -> BOOLEAN]
    BY DEF Partial
  <1>2. D \cup {k} \in SUBSET Requests /\ Put(f, k, v) \in [D \cup {k} -> BOOLEAN]
    BY <1>1 DEF Put
  <1>3. Put(f, k, v) \in Partial(Requests, BOOLEAN)
    BY <1>2 DEF Partial
  <1> QED  BY <1>3 DEF Put

\* Removing one.
LEMMA DropType ==
    ASSUME NEW S, NEW T, NEW f \in Partial(S, T), NEW k
    PROVE  /\ Drop(f, k) \in Partial(S, T)
           /\ DOMAIN Drop(f, k) = DOMAIN f \ {k}
           /\ \A x \in DOMAIN f \ {k} : Drop(f, k)[x] = f[x]
  <1>1. PICK D \in SUBSET S : f \in [D -> T]
    BY DEF Partial
  <1>2. D \ {k} \in SUBSET S /\ Drop(f, k) \in [D \ {k} -> T]
    BY <1>1 DEF Drop
  <1>3. Drop(f, k) \in Partial(S, T)
    BY <1>2 DEF Partial
  <1> QED  BY <1>3 DEF Drop

\* The table that is empty.
LEMMA EmptyPartial ==
    ASSUME NEW S, NEW T
    PROVE  << >> \in Partial(S, T) /\ DOMAIN << >> = {}
  <1>1. << >> \in [{} -> T] /\ {} \in SUBSET S
    OBVIOUS
  <1> QED  BY <1>1 DEF Partial

\* A value of a table.
LEMMA PartialValue ==
    ASSUME NEW S, NEW T, NEW f \in Partial(S, T)
    PROVE  DOMAIN f \subseteq S /\ \A x \in DOMAIN f : f[x] \in T
  BY DEF Partial

-----------------------------------------------------------------------------
(* The state of one request *)

\* A step that only r's request takes, to state s.
Moved(r, s) == DOMAIN req' = Requests /\ req'[r] = s /\ \A q \in Requests \ {r} : req'[q] = req[q]

\* Goto moves one request.
LEMMA GotoMoves ==
    ASSUME DOMAIN req = Requests, NEW r \in Requests, NEW s, Goto(r, s)
    PROVE  Moved(r, s)
  BY DEF Goto, Moved

\* The types of the requests after such a step.
LEMMA MovedOK ==
    ASSUME RequestsOK, NEW r \in Requests, NEW s, Moved(r, s), Idle(s) \/ Busy(s)
    PROVE  RequestsOK'
  BY DEF RequestsOK, Moved, Idle, Busy

\* Where a request is tells its fields.
LEMMA RequestState ==
    ASSUME RequestsOK, NEW r \in Requests
    PROVE  /\ req[r].pc \in Logging => Busy(req[r])
           /\ req[r].pc \in {"notify", "waiting", "upstream"} => Idle(req[r]) /\ req[r].input \in Inputs
  BY DEF RequestsOK, Idle, Busy, Fresh, Logging, Answered

\* One row to write.
LEMMA LogMoves ==
    ASSUME RequestsOK, NEW r \in Requests, NEW i \in Inputs, NEW row,
           NEW then \in Answered \ {"error"}, then = "executed" => row = Row(i, "PASSED"),
           Log(r, i, <<row>>, then)
    PROVE  \E s : /\ Moved(r, s) /\ Busy(s)
                  /\ s.pc = "log" /\ s.input = i /\ s.then = then /\ s.rows = <<row>>
  <1> DEFINE s == [pc |-> "log", input |-> i, rows |-> <<row>>, prev |-> << >>, then |-> then]
  <1>1. Moved(r, s)
    BY GotoMoves DEF RequestsOK, Log
  <1>2. /\ DOMAIN s = {"pc", "input", "rows", "prev", "then"}
        /\ s.pc = "log" /\ s.input = i /\ s.then = then /\ s.rows = <<row>> /\ s.rows[1] = row
    OBVIOUS
  <1> HIDE DEF s
  <1>3. Busy(s)
    BY <1>2 DEF Busy, Logging
  <1> QED  BY <1>1, <1>2, <1>3

\* The two rows that follow a timeout.
LEMMA TwoRowsMove ==
    ASSUME RequestsOK, NEW r \in Requests, NEW i \in Inputs, NEW row1, NEW row2,
           Log(r, i, <<row1, row2>>, "refused")
    PROVE  \E s : /\ Moved(r, s) /\ Busy(s)
                  /\ s.pc = "log" /\ s.input = i /\ s.then = "refused"
  <1> DEFINE s == [pc |-> "log", input |-> i, rows |-> <<row1, row2>>, prev |-> << >>, then |-> "refused"]
  <1>1. Moved(r, s)
    BY GotoMoves DEF RequestsOK, Log
  <1>2. /\ DOMAIN s = {"pc", "input", "rows", "prev", "then"}
        /\ s.pc = "log" /\ s.input = i /\ s.then = "refused" /\ s.rows = <<row1, row2>>
        /\ s.rows[1] = row1 /\ s.rows[2] = row2
    OBVIOUS
  <1> HIDE DEF s
  <1>3. Busy(s)
    BY <1>2 DEF Busy, Logging, Answered
  <1> QED  BY <1>1, <1>2, <1>3

\* An answer, or an await.
LEMMA IdleMoves ==
    ASSUME RequestsOK, NEW r \in Requests, NEW i \in Inputs,
           NEW pc \in {"notify", "waiting", "upstream"} \cup Answered,
           pc = "upstream" => i.kind = "chat",
           Goto(r, [pc |-> pc, input |-> i])
    PROVE  \E s : Moved(r, s) /\ Idle(s) /\ s.pc = pc /\ s.input = i
  <1> DEFINE s == [pc |-> pc, input |-> i]
  <1>1. Moved(r, s)
    BY GotoMoves DEF RequestsOK
  <1>2. DOMAIN s = {"pc", "input"} /\ s.pc = pc /\ s.input = i
    OBVIOUS
  <1> HIDE DEF s
  <1>3. Idle(s)
    BY <1>2 DEF Idle
  <1> QED  BY <1>1, <1>2, <1>3

\* A row is written: the next one's turn, or the answer.
LEMMA LoggedMoves ==
    ASSUME RequestsOK, NEW r \in Requests, req[r].pc = "insert", Logged(r)
    PROVE  \E s : /\ Moved(r, s) /\ s.input = req[r].input
                  /\ \/ Busy(s) /\ s.pc = "log" /\ s.then = "refused" /\ req[r].then = "refused"
                     \/ Idle(s) /\ s.pc = req[r].then
  <1>1. Busy(req[r])
    BY RequestState DEF Logging
  <1>2. CASE Len(req[r].rows) > 1
    <2> DEFINE s == [req[r] EXCEPT !.pc = "log", !.rows = Tail(@)]
    <2>1. Moved(r, s)
      BY <1>2, GotoMoves DEF RequestsOK, Logged
    <2>2. req[r].rows = <<req[r].rows[1], req[r].rows[2]>> /\ req[r].then = "refused"
      BY <1>1, <1>2 DEF Busy
    <2>3. Tail(req[r].rows) = <<req[r].rows[2]>>
      <3>1. \A a, b : Tail(<<a, b>>) = <<b>>
        OBVIOUS
      <3> QED  BY <2>2, <3>1, Zenon
    <2>4. /\ DOMAIN s = {"pc", "input", "rows", "prev", "then"}
          /\ s.pc = "log" /\ s.input = req[r].input /\ s.then = "refused"
          /\ s.rows = <<req[r].rows[2]>> /\ s.rows[1] = req[r].rows[2]
      BY <1>1, <2>2, <2>3 DEF Busy
    <2> HIDE DEF s
    <2>5. Busy(s)
      BY <1>1, <2>4 DEF Busy, Logging, Answered
    <2> QED  BY <2>1, <2>2, <2>4, <2>5
  <1>3. CASE ~(Len(req[r].rows) > 1)
    <2>1. /\ req[r].then \in {"notify", "waiting", "upstream"} \cup Answered /\ req[r].input \in Inputs
          /\ req[r].then # "upstream"
      BY <1>1 DEF Busy, Answered
    <2>2. Goto(r, [pc |-> req[r].then, input |-> req[r].input])
      BY <1>3 DEF Logged
    <2>3. PICK s : Moved(r, s) /\ Idle(s) /\ s.pc = req[r].then /\ s.input = req[r].input
      BY <2>1, <2>2, IdleMoves
    <2> QED  BY <2>3
  <1> QED  BY <1>2, <1>3

\* What follows the approval gate: only a refused key turns the request away.
LEMMA ProceedMoves ==
    ASSUME RequestsOK, NEW r \in Requests, NEW i \in Inputs, Proceed(r, i)
    PROVE  \E s : /\ Moved(r, s) /\ s.input = i
                  /\ \/ Busy(s) /\ s.pc = "log" /\ s.then = "refused" /\ SubKeyRefused(i)
                     \/ Idle(s) /\ s.pc = "upstream"
                     \/ Busy(s) /\ s.pc = "log" /\ s.then = "executed"
  <1>1. CASE SubKeyRefused(i)
    <2>1. Log(r, i, <<Row(i, "BLOCKED")>>, "refused")
      BY <1>1 DEF Proceed
    <2> QED  BY <1>1, <2>1, LogMoves DEF Answered
  <1>2. CASE ~SubKeyRefused(i) /\ i.kind = "chat"
    <2>1. Goto(r, [pc |-> "upstream", input |-> i])
      BY <1>2 DEF Proceed
    <2> QED  BY <1>2, <2>1, IdleMoves
  <1>3. CASE ~SubKeyRefused(i) /\ i.kind # "chat"
    <2>1. Log(r, i, <<Row(i, "PASSED")>>, "executed")
      BY <1>3 DEF Proceed
    <2> QED  BY <2>1, LogMoves DEF Answered
  <1> QED  BY <1>1, <1>2, <1>3

\* The gate lets a request through only if no reviewer has to be asked.
LEMMA GateMoves ==
    ASSUME RequestsOK, NEW r \in Requests, NEW i \in Inputs, Gate(r, i)
    PROVE  \E s : /\ Moved(r, s) /\ s.input = i
                  /\ \/ Busy(s) /\ s.pc = "log" /\ s.then = "refused"
                     \/ Busy(s) /\ s.pc = "log" /\ s.then = "executed" /\ ~NeedsApproval(i)
                     \/ Idle(s) /\ s.pc = "notify"
                     \/ Idle(s) /\ s.pc = "upstream" /\ ~NeedsApproval(i)
  <1>1. CASE i.kind = "bundle"
    <2>1. Log(r, i, <<Row(i, "PASSED")>>, "executed") /\ ~NeedsApproval(i)
      BY <1>1 DEF Gate, SaleLogged, NeedsApproval
    <2> QED  BY <2>1, LogMoves DEF Answered
  <1>2. CASE i.kind # "bundle" /\ Blocked(i)
    <2>1. Log(r, i, <<Row(i, "BLOCKED")>>, "refused")
      BY <1>2 DEF Gate
    <2> QED  BY <2>1, LogMoves DEF Answered
  <1>3. CASE i.kind # "bundle" /\ ~Blocked(i) /\ NeedsApproval(i)
    <2>1. Goto(r, [pc |-> "notify", input |-> i])
      BY <1>3 DEF Gate
    <2> QED  BY <2>1, IdleMoves
  <1>4. CASE i.kind # "bundle" /\ ~Blocked(i) /\ ~NeedsApproval(i)
    <2>1. Proceed(r, i)
      BY <1>4 DEF Gate
    <2> QED  BY <1>4, <2>1, ProceedMoves
  <1> QED  BY <1>1, <1>2, <1>3, <1>4

-----------------------------------------------------------------------------
(* The memory of a process *)

\* SetMem changes one process.
LEMMA SetMemOK ==
    ASSUME mem \in [Processes -> Memory], NEW r \in Requests, NEW m \in Memory, SetMem(r, m)
    PROVE  /\ mem' \in [Processes -> Memory]
           /\ ProcessOf[r] \in Processes /\ mem'[ProcessOf[r]] = m
           /\ \A p \in Processes \ {ProcessOf[r]} : mem'[p] = mem[p]
  BY InterceptorAssumption DEF SetMem

\* Counting a call leaves the approvals alone and stays within the limit.
LEMMA HitOK ==
    ASSUME mem \in [Processes -> Memory], NEW r \in Requests, NEW i \in Inputs, ~RateLimited(r, i)
    PROVE  /\ Hit(r, i) \in Memory
           /\ Hit(r, i).pending = Mem(r).pending /\ Hit(r, i).results = Mem(r).results
  <1>1. Mem(r) \in Memory
    BY InterceptorAssumption DEF Mem
  <1>2. CASE i.kind = "chat"
    <2>1. Window(i) = "llm" /\ LimitOf(i) = LlmRate
      BY <1>2 DEF Window, LimitOf
    <2>2. Hit(r, i) = [Mem(r) EXCEPT !.llm = @ + 1]
      BY <1>2, <2>1 DEF Hit
    <2>3. Mem(r).llm \in 0..LlmRate /\ ~(Mem(r).llm >= LlmRate)
      BY <1>1, <1>2, <2>1 DEF RateLimited, Memory
    <2>4. Mem(r).llm + 1 \in 0..LlmRate
      BY <2>3, InterceptorAssumption
    <2> QED  BY <1>1, <2>2, <2>4 DEF Memory
  <1>3. CASE i.kind = "command"
    <2>1. Window(i) = "command" /\ LimitOf(i) = CommandRate
      BY <1>3 DEF Window, LimitOf
    <2>2. Hit(r, i) = [Mem(r) EXCEPT !.command = @ + 1]
      BY <1>3, <2>1 DEF Hit
    <2>3. Mem(r).command \in 0..CommandRate /\ ~(Mem(r).command >= CommandRate)
      BY <1>1, <1>3, <2>1 DEF RateLimited, Memory
    <2>4. Mem(r).command + 1 \in 0..CommandRate
      BY <2>3, InterceptorAssumption
    <2> QED  BY <1>1, <2>2, <2>4 DEF Memory
  <1>4. CASE i.kind \notin {"chat", "command"}
    BY <1>1, <1>4 DEF Hit
  <1> QED  BY <1>2, <1>3, <1>4

\* A window slides: the approvals are left alone.
LEMMA SlideOK ==
    ASSUME mem \in [Processes -> Memory], NEW p \in Processes, WindowSlides(p)
    PROVE  /\ mem' \in [Processes -> Memory]
           /\ \A q \in Processes : mem'[q].pending = mem[q].pending /\ mem'[q].results = mem[q].results
  <1>1. mem[p] \in Memory
    OBVIOUS
  <1>2. ASSUME NEW k \in {"llm", "command", "spend"}, mem[p][k] > 0,
               mem' = [mem EXCEPT ![p][k] = @ - 1]
        PROVE  /\ mem' \in [Processes -> Memory]
               /\ \A q \in Processes : mem'[q].pending = mem[q].pending /\ mem'[q].results = mem[q].results
    <2> DEFINE m == [mem[p] EXCEPT ![k] = @ - 1]
    <2>1. m \in Memory /\ m.pending = mem[p].pending /\ m.results = mem[p].results
      <3>1. CASE k = "llm"
        BY <1>1, <1>2, <3>1, InterceptorAssumption DEF Memory
      <3>2. CASE k = "command"
        BY <1>1, <1>2, <3>2, InterceptorAssumption DEF Memory
      <3>3. CASE k = "spend"
        BY <1>1, <1>2, <3>3 DEF Memory
      <3> QED  BY <3>1, <3>2, <3>3
    <2>2. mem' = [mem EXCEPT ![p] = m]
      BY <1>2
    <2> HIDE DEF m
    <2> QED  BY <2>1, <2>2
  <1>3. ASSUME NEW x \in DOMAIN mem[p].cache, mem' = [mem EXCEPT ![p].cache = Drop(@, x)]
        PROVE  /\ mem' \in [Processes -> Memory]
               /\ \A q \in Processes : mem'[q].pending = mem[q].pending /\ mem'[q].results = mem[q].results
    <2> DEFINE m == [mem[p] EXCEPT !.cache = Drop(@, x)]
    <2>1. mem[p].cache \in Partial(Prompts, Contents)
      BY <1>1 DEF Memory
    <2>2. Drop(mem[p].cache, x) \in Partial(Prompts, Contents)
      BY <2>1, DropType
    <2>3. m \in Memory /\ m.pending = mem[p].pending /\ m.results = mem[p].results
      BY <1>1, <2>2 DEF Memory
    <2>4. mem' = [mem EXCEPT ![p] = m]
      BY <1>3
    <2> HIDE DEF m
    <2> QED  BY <2>3, <2>4
  <1> QED  BY <1>2, <1>3 DEF WindowSlides

-----------------------------------------------------------------------------
(* Steps that leave the approvals alone *)

ApprovalsKept ==
    \A p \in Processes : mem'[p].pending = mem[p].pending /\ mem'[p].results = mem[p].results

\* What the invariant reads about a request q, besides its own state.
SameFor(q) ==
    /\ verdict'[q] = verdict[q] /\ (q \in expired' <=> q \in expired)
    /\ q \in DOMAIN Mem(q)'.results <=> q \in DOMAIN Mem(q).results
    /\ q \in DOMAIN Mem(q).results => Mem(q)'.results[q] = Mem(q).results[q]

\* What is known of a request that stays where it is, and whose reviews do.
LEMMA ReviewKept ==
    ASSUME NEW q \in Requests, ReviewAt(q), req'[q] = req[q], SameFor(q)
    PROVE  ReviewAt(q)'
  <1>1. (Passed(q)' <=> Passed(q)) /\ (Turned(q)' <=> Turned(q))
    BY DEF Passed, Turned, Heading
  <1> QED  BY <1>1 DEF ReviewAt, SameFor

\* r is neither waiting before nor after.
LEMMA SilentStep ==
    ASSUME InterceptorInv, NEW r \in Requests, NEW s, Moved(r, s), Idle(s) \/ Busy(s),
           req[r].pc # "waiting", s.pc # "waiting",
           mem' \in [Processes -> Memory], ApprovalsKept, UNCHANGED <<verdict, expired>>,
           ReviewAt(r)'
    PROVE  InterceptorInv'
  <1>1. TypeOK'
    BY MovedOK DEF InterceptorInv, TypeOK
  <1>2. ApprovalsCleaned'
    <2>1. \A q \in Requests : req'[q].pc = "waiting" <=> req[q].pc = "waiting"
      BY DEF Moved
    <2> QED  BY <2>1 DEF InterceptorInv, ApprovalsCleaned, ApprovalsKept
  <1>3. ASSUME NEW q \in Requests \ {r} PROVE ReviewAt(q)'
    <2>1. ReviewAt(q) /\ req'[q] = req[q]
      BY DEF InterceptorInv, ReviewInv, Moved
    <2>2. SameFor(q)
      BY InterceptorAssumption DEF SameFor, ApprovalsKept, Mem
    <2> QED  BY <2>1, <2>2, ReviewKept
  <1> QED  BY <1>1, <1>2, <1>3 DEF InterceptorInv, ReviewInv

\* The state s of a request that has been let through.
Through(s) ==
    \/ s.pc \in {"upstream", "executed", "scanned", "failed"}
    \/ s.pc \in Logging /\ s.then \in {"executed", "scanned", "failed"}

\* A request that starts has no review yet, so it may not be one that needs one.
LEMMA StartStep ==
    ASSUME InterceptorInv, NEW r \in Requests, NEW s, Moved(r, s), Idle(s) \/ Busy(s),
           req[r].pc = "new", s.pc # "waiting", Through(s) => ~NeedsApproval(s.input),
           mem' \in [Processes -> Memory], ApprovalsKept, UNCHANGED <<verdict, expired>>
    PROVE  InterceptorInv'
  <1>1. verdict[r] = << >> /\ req'[r] = s
    BY DEF InterceptorInv, ReviewInv, ReviewAt, Moved
  <1>2. ReviewAt(r)'
    BY <1>1 DEF ReviewAt, Passed, Turned, Heading, Through
  <1> QED  BY <1>2, SilentStep

\* A request that goes on keeps the direction its review gave it.
LEMMA ContinueStep ==
    ASSUME InterceptorInv, NEW r \in Requests, NEW s, Moved(r, s), Idle(s) \/ Busy(s),
           req[r].pc \in Logging \cup {"upstream"}, s.pc \notin {"new", "notify", "waiting"},
           s.input = req[r].input,
           Through(s) => Passed(r),
           s.pc = "refused" \/ (s.pc \in Logging /\ s.then = "refused") => Turned(r),
           mem' \in [Processes -> Memory], ApprovalsKept, UNCHANGED <<verdict, expired>>
    PROVE  InterceptorInv'
  <1>1. req'[r] = s /\ ReviewAt(r)
    BY DEF InterceptorInv, ReviewInv, Moved
  <1>2. (Passed(r)' => Passed(r)) /\ (Turned(r)' => Turned(r))
    BY <1>1 DEF Passed, Turned, Heading, Through
  <1>3. ReviewAt(r)'
    BY <1>1, <1>2 DEF ReviewAt
  <1>4. req[r].pc # "waiting"
    BY DEF Logging
  <1> QED  BY <1>3, <1>4, SilentStep

\* The memory is left alone.
LEMMA MemUnchanged ==
    ASSUME InterceptorInv, UNCHANGED mem
    PROVE  mem' \in [Processes -> Memory] /\ ApprovalsKept
  BY DEF InterceptorInv, TypeOK, ApprovalsKept

\* get_last_hash: the request still goes where it went.
LEMMA LogReadStep ==
    ASSUME InterceptorInv, NEW r \in Requests, LogRead(r)
    PROVE  InterceptorInv'
  <1> DEFINE s == [req[r] EXCEPT !.pc = "insert", !.prev = get_last_hash]
  <1>1. RequestsOK /\ req[r].pc = "log" /\ UNCHANGED <<mem, verdict, expired>>
    BY DEF LogRead, InterceptorInv, TypeOK
  <1>2. Busy(req[r])
    BY <1>1, RequestState DEF Logging
  <1>3. Moved(r, s)
    BY <1>1 DEF LogRead, RequestsOK, Moved
  <1>4. /\ DOMAIN s = {"pc", "input", "rows", "prev", "then"} /\ s.pc = "insert"
        /\ s.input = req[r].input /\ s.rows = req[r].rows /\ s.then = req[r].then
    BY <1>2 DEF Busy
  <1> HIDE DEF s
  <1>5. Busy(s)
    BY <1>2, <1>4 DEF Busy, Logging
  <1>6. Through(s) => Passed(r)
    BY <1>1, <1>4 DEF Through, Passed, Heading, Logging
  <1>7. s.pc = "refused" \/ (s.pc \in Logging /\ s.then = "refused") => Turned(r)
    BY <1>1, <1>4 DEF Turned, Heading, Logging
  <1>8. req[r].pc \in Logging \cup {"upstream"} /\ s.pc \notin {"new", "notify", "waiting"}
    BY <1>1, <1>4 DEF Logging
  <1> QED  BY <1>1, <1>3, <1>4, <1>5, <1>6, <1>7, <1>8, MemUnchanged, ContinueStep

\* A row has been written, or its failure is passed over.
LEMMA LoggedStep ==
    ASSUME InterceptorInv, NEW r \in Requests, req[r].pc = "insert", Logged(r),
           UNCHANGED <<mem, verdict, expired>>
    PROVE  InterceptorInv'
  <1>1. RequestsOK
    BY DEF InterceptorInv, TypeOK
  <1>2. PICK s : /\ Moved(r, s) /\ s.input = req[r].input
                 /\ \/ Busy(s) /\ s.pc = "log" /\ s.then = "refused" /\ req[r].then = "refused"
                    \/ Idle(s) /\ s.pc = req[r].then
    BY <1>1, LoggedMoves
  <1>3. Busy(req[r])
    BY <1>1, RequestState DEF Logging
  <1>4. s.pc \notin {"new", "notify", "waiting", "upstream", "insert"}
    BY <1>2, <1>3 DEF Busy, Answered
  <1>5. Through(s) => Passed(r)
    BY <1>2, <1>4, <1>3 DEF Through, Passed, Heading, Logging, Busy, Answered
  <1>6. s.pc = "refused" \/ (s.pc \in Logging /\ s.then = "refused") => Turned(r)
    BY <1>2, <1>3 DEF Turned, Heading, Logging, Busy, Answered
  <1>7. req[r].pc \in Logging \cup {"upstream"}
    BY DEF Logging
  <1> QED  BY <1>2, <1>4, <1>5, <1>6, <1>7, MemUnchanged, ContinueStep

\* The ledger raises: the failure is passed over, becomes a 502 or a 500.
LEMMA LogFailsStep ==
    ASSUME InterceptorInv, NEW r \in Requests, LogFails(r)
    PROVE  InterceptorInv'
  <1> DEFINE i == req[r].input
  <1>1. RequestsOK /\ req[r].pc = "insert" /\ UNCHANGED <<mem, verdict, expired>>
    BY DEF LogFails, InterceptorInv, TypeOK
  <1>2. Busy(req[r]) /\ i \in Inputs
    BY <1>1, RequestState DEF Logging, Busy
  <1>3. \/ Logged(r)
        \/ req[r].then \in {"executed", "scanned"} /\ Log(r, i, <<Row(i, "FAILED")>>, "failed")
        \/ Goto(r, [pc |-> "error", input |-> i])
    BY DEF LogFails, Finish
  <1>4. CASE Logged(r)
    BY <1>1, <1>4, LoggedStep
  <1>5. CASE req[r].then \in {"executed", "scanned"} /\ Log(r, i, <<Row(i, "FAILED")>>, "failed")
    <2>1. PICK s : /\ Moved(r, s) /\ Busy(s)
                   /\ s.pc = "log" /\ s.input = i /\ s.then = "failed"
      <3>1. "failed" \in Answered \ {"error"} /\ "failed" # "executed"
        BY DEF Answered
      <3> HIDE DEF i
      <3> QED  BY <1>1, <1>2, <1>5, <3>1, LogMoves
    <2>2. Through(s) => Passed(r)
      BY <1>1, <1>5 DEF Passed, Heading, Logging
    <2> QED  BY <1>1, <2>1, <2>2, MemUnchanged, ContinueStep DEF Logging
  <1>6. CASE Goto(r, [pc |-> "error", input |-> i])
    <2>1. PICK s : Moved(r, s) /\ Idle(s) /\ s.pc = "error" /\ s.input = i
      <3>1. "error" \in {"notify", "waiting", "upstream"} \cup Answered /\ "error" # "upstream"
        BY DEF Answered
      <3> HIDE DEF i
      <3> QED  BY <1>1, <1>2, <1>6, <3>1, IdleMoves
    <2> QED  BY <1>1, <2>1, MemUnchanged, ContinueStep DEF Through, Logging
  <1> QED  BY <1>3, <1>4, <1>5, <1>6

-----------------------------------------------------------------------------
(* Admission and the model provider *)

\* The middleware, the operator check and the rate limit only turn requests away.
LEMMA RefusesStep ==
    ASSUME InterceptorInv, NEW r \in Requests, NEW i \in Inputs,
           ShieldRefuses(r, i) \/ OperatorRefuses(r, i) \/ RateRefuses(r, i)
    PROVE  InterceptorInv'
  <1>1. RequestsOK /\ req[r].pc = "new" /\ UNCHANGED <<mem, verdict, expired>>
    BY DEF ShieldRefuses, OperatorRefuses, RateRefuses, InterceptorInv, TypeOK
  <1>2. \/ Log(r, i, <<Row(i, "RATE_LIMITED")>>, "refused")
        \/ Goto(r, [pc |-> "refused", input |-> i])
    BY DEF ShieldRefuses, OperatorRefuses, RateRefuses, Finish
  <1>3. "refused" \in Answered \ {"error"} /\ "refused" # "executed"
    BY DEF Answered
  <1>4. PICK s : /\ Moved(r, s) /\ s.input = i /\ (Idle(s) \/ Busy(s))
                 /\ s.pc = "refused" \/ (s.pc = "log" /\ s.then = "refused")
    <2>1. CASE Log(r, i, <<Row(i, "RATE_LIMITED")>>, "refused")
      BY <1>1, <1>3, <2>1, LogMoves
    <2>2. CASE Goto(r, [pc |-> "refused", input |-> i])
      BY <1>1, <1>3, <2>2, IdleMoves
    <2> QED  BY <1>2, <2>1, <2>2
  <1>5. ~Through(s) /\ s.pc # "waiting"
    BY <1>4 DEF Through, Logging
  <1> QED  BY <1>1, <1>4, <1>5, MemUnchanged, StartStep

\* Counting a call of r.
LEMMA HitKeeps ==
    ASSUME InterceptorInv, NEW r \in Requests, NEW i \in Inputs, ~RateLimited(r, i), SetMem(r, Hit(r, i))
    PROVE  mem' \in [Processes -> Memory] /\ ApprovalsKept
  <1>1. mem \in [Processes -> Memory]
    BY DEF InterceptorInv, TypeOK
  <1>2. /\ Hit(r, i) \in Memory
        /\ Hit(r, i).pending = Mem(r).pending /\ Hit(r, i).results = Mem(r).results
    BY <1>1, HitOK
  <1>3. /\ mem' \in [Processes -> Memory]
        /\ ProcessOf[r] \in Processes /\ mem'[ProcessOf[r]] = Hit(r, i)
        /\ \A p \in Processes \ {ProcessOf[r]} : mem'[p] = mem[p]
    BY <1>1, <1>2, SetMemOK
  <1> QED  BY <1>2, <1>3 DEF ApprovalsKept, Mem

\* A request that reaches the gate.
LEMMA GateStep ==
    ASSUME InterceptorInv, NEW r \in Requests, NEW i \in Inputs, req[r].pc = "new", Gate(r, i),
           mem' \in [Processes -> Memory], ApprovalsKept, UNCHANGED <<verdict, expired>>
    PROVE  InterceptorInv'
  <1>1. RequestsOK
    BY DEF InterceptorInv, TypeOK
  <1>2. PICK s : /\ Moved(r, s) /\ s.input = i
                 /\ \/ Busy(s) /\ s.pc = "log" /\ s.then = "refused"
                    \/ Busy(s) /\ s.pc = "log" /\ s.then = "executed" /\ ~NeedsApproval(i)
                    \/ Idle(s) /\ s.pc = "notify"
                    \/ Idle(s) /\ s.pc = "upstream" /\ ~NeedsApproval(i)
    BY <1>1, GateMoves
  <1>3. (Through(s) => ~NeedsApproval(s.input)) /\ s.pc # "waiting" /\ (Idle(s) \/ Busy(s))
    BY <1>2 DEF Through, Logging
  <1> QED  BY <1>2, <1>3, StartStep

\* The spend hunter answers from the cache, refuses, or lets the gate decide.
LEMMA SpendHunterStep ==
    ASSUME InterceptorInv, NEW r \in Requests, NEW i \in Inputs, SpendHunter(r, i)
    PROVE  InterceptorInv'
  <1>1. /\ RequestsOK /\ req[r].pc = "new" /\ UNCHANGED <<verdict, expired>>
        /\ mem' \in [Processes -> Memory] /\ ApprovalsKept
    BY HitKeeps DEF SpendHunter, InterceptorInv, TypeOK
  <1>2. \/ Log(r, i, <<CacheRow>>, "cached")
        \/ Log(r, i, <<Row([kind |-> "breaker"], "BLOCKED")>>, "refused")
        \/ Log(r, i, <<Row([kind |-> "bloat"], "BLOCKED")>>, "refused")
        \/ Gate(r, i)
    BY DEF SpendHunter
  <1>3. ASSUME NEW row, NEW then \in {"cached", "refused"}, Log(r, i, <<row>>, then)
        PROVE  InterceptorInv'
    <2>1. then \in Answered \ {"error"} /\ then # "executed"
      BY DEF Answered
    <2>2. PICK s : Moved(r, s) /\ Busy(s) /\ s.pc = "log" /\ s.input = i /\ s.then = then
      BY <1>1, <1>3, <2>1, LogMoves
    <2>3. ~Through(s)
      BY <2>2 DEF Through
    <2> QED  BY <1>1, <2>2, <2>3, StartStep
  <1>4. CASE Gate(r, i)
    BY <1>1, <1>4, GateStep
  <1> QED  BY <1>2, <1>3, <1>4

\* Commands, edits and sales pass the gate without the spend hunter.
LEMMA AdmitStep ==
    ASSUME InterceptorInv, NEW r \in Requests, NEW i \in Inputs, Admit(r, i)
    PROVE  InterceptorInv'
  BY HitKeeps, GateStep DEF Admit

\* The provider has been asked: its answer is recorded and scanned, or fails.
LEMMA UpstreamStep ==
    ASSUME InterceptorInv, NEW r \in Requests,
           \/ \E content \in Contents, strict \in BOOLEAN :
                 UpstreamAnswers(r, content, strict)
           \/ UpstreamRefuses(r)
           \/ UpstreamFails(r)
    PROVE  InterceptorInv'
  <1> DEFINE i == req[r].input
  <1>1. RequestsOK /\ req[r].pc = "upstream" /\ UNCHANGED <<verdict, expired>>
    BY DEF UpstreamAnswers, UpstreamRefuses, UpstreamFails, InterceptorInv, TypeOK
  <1>2. i \in Inputs /\ i.prompt \in Prompts
    <2>1. i \in Inputs /\ i.kind = "chat"
      BY <1>1, RequestState DEF Idle, Fresh
    <2>2. i \in [kind : {"chat"}, prompt : Prompts]
      BY <2>1 DEF Inputs
    <2> QED  BY <2>1, <2>2
  <1>3. mem' \in [Processes -> Memory] /\ ApprovalsKept
    <2>1. CASE UpstreamRefuses(r) \/ UpstreamFails(r)
      BY <2>1, MemUnchanged DEF UpstreamRefuses, UpstreamFails
    <2>2. ASSUME NEW content \in Contents, NEW strict \in BOOLEAN,
                 UpstreamAnswers(r, content, strict)
          PROVE  mem' \in [Processes -> Memory] /\ ApprovalsKept
      <3> DEFINE c == Put(Mem(r).cache, i.prompt, content)
                 m == [Mem(r) EXCEPT !.spend = @ + 1, !.cache = c]
      <3>1. mem \in [Processes -> Memory] /\ Mem(r) \in Memory
        BY InterceptorAssumption DEF InterceptorInv, TypeOK, Mem
      <3>2. SetMem(r, m)
        BY <2>2, Zenon DEF UpstreamAnswers
      <3>3. Mem(r).cache \in Partial(Prompts, Contents)
        BY <3>1 DEF Memory
      <3>6. c \in Partial(Prompts, Contents)
        BY <1>2, <3>3, PutType
      <3> HIDE DEF c
      <3>7. Mem(r).spend + 1 \in Nat
        BY <3>1 DEF Memory
      <3>4. m \in Memory /\ m.pending = Mem(r).pending /\ m.results = Mem(r).results
        BY <3>1, <3>6, <3>7 DEF Memory
      <3> HIDE DEF m
      <3>5. /\ mem' \in [Processes -> Memory]
            /\ ProcessOf[r] \in Processes /\ mem'[ProcessOf[r]] = m
            /\ \A p \in Processes \ {ProcessOf[r]} : mem'[p] = mem[p]
        BY <3>1, <3>2, <3>4, SetMemOK
      <3> QED  BY <3>4, <3>5 DEF ApprovalsKept, Mem
    <2> QED  BY <2>1, <2>2
  <1>4. \/ Log(r, i, <<Row(i, "BLOCKED")>>, "scanned")
        \/ Log(r, i, <<Row(i, "PASSED")>>, "executed")
        \/ Log(r, i, <<Row(i, "FAILED")>>, "failed")
    BY DEF UpstreamAnswers, UpstreamRefuses, UpstreamFails
  <1> HIDE DEF i
  <1>5. ASSUME NEW row, NEW then \in {"executed", "scanned", "failed"}, Log(r, i, <<row>>, then),
               then = "executed" => row = Row(i, "PASSED")
        PROVE  InterceptorInv'
    <2>1. then \in Answered \ {"error"} /\ then # "refused"
      BY DEF Answered
    <2>2. PICK s : Moved(r, s) /\ Busy(s) /\ s.pc = "log" /\ s.input = i /\ s.then = then
      BY <1>1, <1>2, <1>5, <2>1, LogMoves
    <2>3. Passed(r)
      BY <1>1 DEF Passed
    <2> QED  BY <1>1, <1>3, <2>1, <2>2, <2>3, ContinueStep DEF Logging, i
  <1> QED  BY <1>4, <1>5

-----------------------------------------------------------------------------
(* The reviewer *)

\* The webhook has been posted: the table gains r, which has no review yet.
LEMMA RegisterStep ==
    ASSUME InterceptorInv, NEW r \in Requests, Register(r)
    PROVE  InterceptorInv'
  <1> DEFINE m == [Mem(r) EXCEPT !.pending = @ \cup {r}]
             s == [req[r] EXCEPT !.pc = "waiting"]
  <1>1. /\ RequestsOK /\ mem \in [Processes -> Memory] /\ Mem(r) \in Memory
        /\ req[r].pc = "notify" /\ UNCHANGED <<verdict, expired>>
    BY InterceptorAssumption DEF Register, InterceptorInv, TypeOK, Mem
  <1>2. /\ m \in Memory /\ m.pending = Mem(r).pending \cup {r} /\ m.results = Mem(r).results
    BY <1>1 DEF Memory
  <1>3. SetMem(r, m) /\ Goto(r, s)
    BY DEF Register
  <1>4. Moved(r, s)
    BY <1>1, <1>3, GotoMoves DEF RequestsOK
  <1>5. s.pc = "waiting" /\ s.input = req[r].input /\ Idle(s)
    <2>1. Idle(req[r]) /\ req[r] # Fresh
      BY <1>1, RequestState DEF Fresh
    <2>2. DOMAIN s = {"pc", "input"} /\ s.pc = "waiting" /\ s.input = req[r].input
      BY <2>1 DEF Idle
    <2> HIDE DEF s
    <2> QED  BY <2>1, <2>2 DEF Idle
  <1> HIDE DEF m, s
  <1>6. /\ mem' \in [Processes -> Memory]
        /\ ProcessOf[r] \in Processes /\ mem'[ProcessOf[r]] = m
        /\ \A p \in Processes \ {ProcessOf[r]} : mem'[p] = mem[p]
    BY <1>1, <1>2, <1>3, SetMemOK
  <1>7. TypeOK'
    BY <1>1, <1>4, <1>5, <1>6, MovedOK DEF InterceptorInv, TypeOK
  <1>8. ApprovalsCleaned'
    BY <1>2, <1>4, <1>5, <1>6 DEF InterceptorInv, ApprovalsCleaned, Moved, Mem
  <1>9. ReviewAt(r)'
    <2>1. r \notin DOMAIN Mem(r).results
      BY <1>1, <1>6 DEF InterceptorInv, ApprovalsCleaned, Mem
    <2>2. verdict'[r] = << >>
      BY <1>1 DEF InterceptorInv, ReviewInv, ReviewAt
    <2>3. req'[r].pc = "waiting" /\ Mem(r)'.results = Mem(r).results
      BY <1>2, <1>4, <1>5, <1>6 DEF Moved, Mem
    <2> QED  BY <2>1, <2>2, <2>3 DEF ReviewAt, Passed, Turned, Heading, Logging
  <1>10. ASSUME NEW q \in Requests \ {r} PROVE ReviewAt(q)'
    <2>1. ReviewAt(q) /\ req'[q] = req[q]
      BY <1>4 DEF InterceptorInv, ReviewInv, Moved
    <2>2. ProcessOf[q] \in Processes
      BY InterceptorAssumption
    <2>3. Mem(q)'.results = Mem(q).results
      BY <1>2, <1>6, <2>2 DEF Mem
    <2>4. SameFor(q)
      BY <1>1, <2>3 DEF SameFor
    <2> QED  BY <2>1, <2>4, ReviewKept
  <1> QED  BY <1>7, <1>8, <1>9, <1>10 DEF InterceptorInv, ReviewInv

\* A review replaces the entry of r, and only r can be the one that waits for it.
LEMMA ReviewStep ==
    ASSUME InterceptorInv, NEW r \in Requests, NEW approved \in BOOLEAN, Review(r, approved)
    PROVE  InterceptorInv'
  <1> DEFINE t == Put(Mem(r).results, r, approved)
             m == [Mem(r) EXCEPT !.results = t]
  <1>1. /\ mem \in [Processes -> Memory] /\ Mem(r) \in Memory /\ verdict \in [Requests -> Seq(BOOLEAN)]
        /\ ProcessOf[r] \in Processes /\ r \in Mem(r).pending /\ UNCHANGED <<req, ledger, expired>>
    BY InterceptorAssumption DEF Review, InterceptorInv, TypeOK, Mem
  <1>2. Mem(r).results \in Partial(Requests, BOOLEAN)
    BY <1>1 DEF Memory
  <1>3. /\ t \in Partial(Requests, BOOLEAN) /\ DOMAIN t = DOMAIN Mem(r).results \cup {r}
        /\ t[r] = approved /\ \A x \in DOMAIN Mem(r).results \ {r} : t[x] = Mem(r).results[x]
    BY <1>2, PutReview
  <1>4. SetMem(r, m)
    BY DEF Review
  <1> HIDE DEF t
  <1>5. m \in Memory /\ m.pending = Mem(r).pending /\ m.results = t
    BY <1>1, <1>3 DEF Memory
  <1> HIDE DEF m
  <1>6. /\ mem' \in [Processes -> Memory] /\ mem'[ProcessOf[r]] = m
        /\ \A p \in Processes \ {ProcessOf[r]} : mem'[p] = mem[p]
    BY <1>1, <1>4, <1>5, SetMemOK
  <1>7. /\ verdict' = [verdict EXCEPT ![r] = Append(@, approved)]
        /\ verdict[r] \in Seq(BOOLEAN)
    BY <1>1 DEF Review
  <1>8. /\ verdict' \in [Requests -> Seq(BOOLEAN)]
        /\ verdict'[r] = Append(verdict[r], approved)
        /\ \A q \in Requests \ {r} : verdict'[q] = verdict[q]
    BY <1>1, <1>7
  <1>9. verdict'[r] # << >> /\ Last(verdict'[r]) = approved
    BY <1>7, <1>8 DEF Last
  <1>10. req[r].pc = "waiting"
    BY <1>1 DEF InterceptorInv, ApprovalsCleaned, Mem
  <1>11. TypeOK'
    BY <1>1, <1>6, <1>8 DEF InterceptorInv, TypeOK, RequestsOK
  <1>12. ApprovalsCleaned'
    <2>1. \A p \in Processes : mem'[p].pending = mem[p].pending
      BY <1>5, <1>6 DEF Mem
    <2>2. DOMAIN mem'[ProcessOf[r]].results \subseteq mem'[ProcessOf[r]].pending
      BY <1>1, <1>3, <1>5, <1>6 DEF InterceptorInv, ApprovalsCleaned, Mem
    <2>3. \A p \in Processes : DOMAIN mem'[p].results \subseteq mem'[p].pending
      BY <1>6, <2>2 DEF InterceptorInv, ApprovalsCleaned
    <2> QED  BY <1>1, <2>1, <2>3 DEF InterceptorInv, ApprovalsCleaned
  <1>13. ReviewAt(r)'
    <2>1. req'[r].pc = "waiting" /\ Mem(r)'.results = t
      BY <1>1, <1>5, <1>6, <1>10 DEF Mem
    <2>2. r \in DOMAIN Mem(r)'.results /\ Mem(r)'.results[r] = Last(verdict'[r])
      BY <1>3, <1>9, <2>1
    <2> QED  BY <1>9, <2>1, <2>2 DEF ReviewAt, Passed, Turned, Heading, Logging
  <1>14. ASSUME NEW q \in Requests \ {r} PROVE ReviewAt(q)'
    <2>1. ReviewAt(q) /\ req'[q] = req[q]
      BY <1>1 DEF InterceptorInv, ReviewInv
    <2>2. ProcessOf[q] \in Processes
      BY InterceptorAssumption
    <2>3. CASE ProcessOf[q] = ProcessOf[r]
      <3>1. Mem(q) = Mem(r) /\ Mem(q)'.results = t
        BY <1>5, <1>6, <2>3 DEF Mem
      <3>2. SameFor(q)
        BY <1>1, <1>3, <1>8, <3>1 DEF SameFor
      <3> QED  BY <2>1, <3>2, ReviewKept
    <2>4. CASE ProcessOf[q] # ProcessOf[r]
      <3>1. Mem(q)' = Mem(q)
        BY <1>6, <2>2, <2>4 DEF Mem
      <3>2. SameFor(q)
        BY <1>1, <1>8, <3>1 DEF SameFor
      <3> QED  BY <2>1, <3>2, ReviewKept
    <2> QED  BY <2>3, <2>4
  <1> QED  BY <1>11, <1>12, <1>13, <1>14 DEF InterceptorInv, ReviewInv

\* The dispatcher removes both entries of r when it goes on, whatever for.
LEMMA ForgetStep ==
    ASSUME InterceptorInv, NEW r \in Requests, req[r].pc = "waiting", SetMem(r, Forget(r)),
           NEW s, Moved(r, s), Idle(s) \/ Busy(s), s.pc # "waiting",
           verdict' = verdict, expired' \in {expired, expired \cup {r}}, ReviewAt(r)'
    PROVE  InterceptorInv'
  <1> DEFINE t == Drop(Mem(r).results, r)
             m == [Mem(r) EXCEPT !.pending = @ \ {r}, !.results = t]
  <1>1. mem \in [Processes -> Memory] /\ Mem(r) \in Memory /\ ProcessOf[r] \in Processes
    BY InterceptorAssumption DEF InterceptorInv, TypeOK, Mem
  <1>2. Mem(r).results \in Partial(Requests, BOOLEAN)
    BY <1>1 DEF Memory
  <1>3. /\ t \in Partial(Requests, BOOLEAN) /\ DOMAIN t = DOMAIN Mem(r).results \ {r}
        /\ \A x \in DOMAIN Mem(r).results \ {r} : t[x] = Mem(r).results[x]
    BY <1>2, DropType
  <1>4. SetMem(r, m)
    BY DEF Forget
  <1> HIDE DEF t
  <1>5. m \in Memory /\ m.pending = Mem(r).pending \ {r} /\ m.results = t
    BY <1>1, <1>3 DEF Memory
  <1> HIDE DEF m
  <1>6. /\ mem' \in [Processes -> Memory] /\ mem'[ProcessOf[r]] = m
        /\ \A p \in Processes \ {ProcessOf[r]} : mem'[p] = mem[p]
    BY <1>1, <1>4, <1>5, SetMemOK
  <1>7. TypeOK'
    BY <1>6, MovedOK DEF InterceptorInv, TypeOK
  <1>8. ApprovalsCleaned'
    <2>1. /\ req'[r].pc # "waiting"
          /\ \A q \in Requests \ {r} : req'[q].pc = req[q].pc
      BY DEF Moved
    <2>2. ASSUME NEW p \in Processes
          PROVE  /\ mem'[p].pending = {q \in Requests : ProcessOf[q] = p /\ req'[q].pc = "waiting"}
                 /\ DOMAIN mem'[p].results \subseteq mem'[p].pending
      <3>1. CASE p = ProcessOf[r]
        BY <1>3, <1>5, <1>6, <2>1, <3>1 DEF InterceptorInv, ApprovalsCleaned, Mem
      <3>2. CASE p # ProcessOf[r]
        BY <1>6, <2>1, <3>2 DEF InterceptorInv, ApprovalsCleaned
      <3> QED  BY <3>1, <3>2
    <2> QED  BY <2>2 DEF ApprovalsCleaned
  <1>9. ASSUME NEW q \in Requests \ {r} PROVE ReviewAt(q)'
    <2>1. ReviewAt(q) /\ req'[q] = req[q] /\ (q \in expired' <=> q \in expired)
      BY DEF InterceptorInv, ReviewInv, Moved
    <2>2. ProcessOf[q] \in Processes
      BY InterceptorAssumption
    <2>3. CASE ProcessOf[q] = ProcessOf[r]
      <3>1. Mem(q) = Mem(r) /\ Mem(q)'.results = t
        BY <1>5, <1>6, <2>3 DEF Mem
      <3>2. SameFor(q)
        BY <1>3, <2>1, <3>1 DEF SameFor
      <3> QED  BY <2>1, <3>2, ReviewKept
    <2>4. CASE ProcessOf[q] # ProcessOf[r]
      <3>1. Mem(q)' = Mem(q)
        BY <1>6, <2>2, <2>4 DEF Mem
      <3>2. SameFor(q)
        BY <2>1, <3>1 DEF SameFor
      <3> QED  BY <2>1, <3>2, ReviewKept
    <2> QED  BY <2>3, <2>4
  <1> QED  BY <1>7, <1>8, <1>9 DEF InterceptorInv, ReviewInv

\* The event is set: the entry that is read is the last review.
LEMMA AwakenStep ==
    ASSUME InterceptorInv, NEW r \in Requests, Awaken(r)
    PROVE  InterceptorInv'
  <1> DEFINE i == req[r].input
  <1>1. /\ RequestsOK /\ req[r].pc = "waiting" /\ SetMem(r, Forget(r))
        /\ verdict' = verdict /\ expired' = expired
    BY DEF Awaken, InterceptorInv, TypeOK
  <1>2. i \in Inputs
    BY <1>1, RequestState
  <1>3. verdict[r] # << >> /\ Mem(r).results[r] = Last(verdict[r])
    BY <1>1 DEF Awaken, InterceptorInv, ReviewInv, ReviewAt
  <1>4. CASE Mem(r).results[r]
    <2>1. Proceed(r, i)
      BY <1>4 DEF Awaken
    <2> HIDE DEF i
    <2>2. PICK s : /\ Moved(r, s) /\ s.input = i
                   /\ \/ Busy(s) /\ s.pc = "log" /\ s.then = "refused" /\ SubKeyRefused(i)
                      \/ Idle(s) /\ s.pc = "upstream"
                      \/ Busy(s) /\ s.pc = "log" /\ s.then = "executed"
      BY <1>1, <1>2, <2>1, ProceedMoves
    <2>3. req'[r] = s
      BY <2>2 DEF Moved
    <2>4. Turned(r)' => SubKeyRefused(i)
      BY <2>2, <2>3 DEF Turned, Heading, Logging
    <2>5. ReviewAt(r)'
      BY <1>1, <1>3, <1>4, <2>2, <2>3, <2>4 DEF ReviewAt
    <2> QED  BY <1>1, <2>2, <2>5, ForgetStep
  <1>5. CASE ~Mem(r).results[r]
    <2>1. Log(r, i, <<Row(i, "REJECTED")>>, "refused")
      BY <1>5 DEF Awaken, Rejected
    <2> HIDE DEF i
    <2>2. "refused" \in Answered \ {"error"} /\ "refused" # "executed"
      BY DEF Answered
    <2>3. PICK s : Moved(r, s) /\ Busy(s) /\ s.pc = "log" /\ s.input = i /\ s.then = "refused"
      BY <1>1, <1>2, <2>1, <2>2, LogMoves
    <2>4. req'[r] = s
      BY <2>3 DEF Moved
    <2>5. ~Passed(r)'
      BY <2>3, <2>4 DEF Passed, Heading
    <2>6. ReviewAt(r)'
      BY <1>1, <1>3, <1>5, <2>3, <2>4, <2>5 DEF ReviewAt
    <2> QED  BY <1>1, <2>3, <2>6, ForgetStep
  <1> QED  BY <1>4, <1>5

\* The timeout: r expires, and is turned away even if a review came in time.
LEMMA AwaitTimeoutStep ==
    ASSUME InterceptorInv, NEW r \in Requests, AwaitTimeout(r)
    PROVE  InterceptorInv'
  <1> DEFINE i == req[r].input
  <1>1. /\ RequestsOK /\ req[r].pc = "waiting" /\ SetMem(r, Forget(r))
        /\ verdict' = verdict /\ expired' = expired \cup {r}
        /\ Log(r, i, <<Row([kind |-> "approval"], "TIMEOUT"), Row(i, "REJECTED")>>, "refused")
    BY DEF AwaitTimeout, InterceptorInv, TypeOK
  <1>2. i \in Inputs
    BY <1>1, RequestState
  <1> HIDE DEF i
  <1>3. PICK s : Moved(r, s) /\ Busy(s) /\ s.pc = "log" /\ s.input = i /\ s.then = "refused"
    BY <1>1, <1>2, TwoRowsMove
  <1>4. req'[r] = s
    BY <1>3 DEF Moved
  <1>5. ~Passed(r)'
    BY <1>3, <1>4 DEF Passed, Heading
  <1>6. ReviewAt(r)'
    BY <1>1, <1>3, <1>4, <1>5 DEF ReviewAt
  <1> QED  BY <1>1, <1>3, <1>6, ForgetStep

-----------------------------------------------------------------------------
(* The invariant *)

\* No request has arrived.
LEMMA InterceptorInit == Init => InterceptorInv
  <1> SUFFICES ASSUME Init PROVE InterceptorInv
    OBVIOUS
  <1>1. DOMAIN req = Requests /\ \A r \in Requests : req[r] = Fresh /\ req[r].pc = "new" /\ verdict[r] = << >>
    BY DEF Init, Fresh
  <1>2. << >> \in Partial(Requests, BOOLEAN) /\ << >> \in Partial(Prompts, Contents) /\ DOMAIN << >> = {}
    BY EmptyPartial
  <1>3. 0 \in 0..LlmRate /\ 0 \in 0..CommandRate
    BY InterceptorAssumption
  <1>4. mem \in [Processes -> Memory]
    BY <1>2, <1>3 DEF Init, Memory
  <1>5. TypeOK
    BY <1>1, <1>4 DEF Init, TypeOK, RequestsOK, Idle
  <1>6. ApprovalsCleaned
    BY <1>1, <1>2 DEF Init, ApprovalsCleaned
  <1>7. ReviewInv
    BY <1>1 DEF ReviewInv, ReviewAt, Passed, Turned, Heading, Logging
  <1> QED  BY <1>5, <1>6, <1>7 DEF InterceptorInv

\* Time passes.
LEMMA WindowSlidesStep ==
    ASSUME InterceptorInv, NEW p \in Processes, WindowSlides(p)
    PROVE  InterceptorInv'
  <1>1. mem' \in [Processes -> Memory] /\ ApprovalsKept /\ UNCHANGED <<req, ledger, verdict, expired>>
    BY SlideOK DEF InterceptorInv, TypeOK, ApprovalsKept, WindowSlides
  <1>2. TypeOK' /\ ApprovalsCleaned'
    BY <1>1 DEF InterceptorInv, TypeOK, RequestsOK, ApprovalsCleaned, ApprovalsKept
  <1>3. ASSUME NEW q \in Requests PROVE ReviewAt(q)'
    <2>1. SameFor(q)
      BY <1>1, InterceptorAssumption DEF SameFor, ApprovalsKept, Mem
    <2> QED  BY <1>1, <2>1, ReviewKept DEF InterceptorInv, ReviewInv
  <1> QED  BY <1>2, <1>3 DEF InterceptorInv, ReviewInv

\* Nothing happens.
LEMMA StutterStep ==
    ASSUME InterceptorInv, UNCHANGED vars
    PROVE  InterceptorInv'
  <1>1. UNCHANGED <<req, mem, ledger, verdict, expired>>
    BY DEF vars
  <1>2. TypeOK' /\ ApprovalsCleaned'
    BY <1>1 DEF InterceptorInv, TypeOK, RequestsOK, ApprovalsCleaned
  <1>3. ASSUME NEW q \in Requests PROVE ReviewAt(q)'
    <2>1. SameFor(q)
      BY <1>1 DEF SameFor, Mem
    <2> QED  BY <1>1, <2>1, ReviewKept DEF InterceptorInv, ReviewInv
  <1> QED  BY <1>2, <1>3 DEF InterceptorInv, ReviewInv

\* proxy.py: every entry of the approval tables is the last review of a request
\* that waits, and the last review decides where a request goes.
THEOREM InterceptorInvariant == Spec => []InterceptorInv
  <1>1. ASSUME InterceptorInv, [Next]_vars
        PROVE  InterceptorInv'
    <2>1. CASE UNCHANGED vars
      BY <1>1, <2>1, StutterStep
    <2>2. ASSUME NEW r \in Requests, NEW i \in Inputs,
                 \/ ShieldRefuses(r, i) \/ OperatorRefuses(r, i)
                 \/ RateRefuses(r, i) \/ SpendHunter(r, i) \/ Admit(r, i)
          PROVE  InterceptorInv'
      BY <1>1, <2>2, RefusesStep, SpendHunterStep, AdmitStep
    <2>3. ASSUME NEW r \in Requests, NEW approved \in BOOLEAN, Review(r, approved)
          PROVE  InterceptorInv'
      BY <1>1, <2>3, ReviewStep
    <2>4. ASSUME NEW r \in Requests, Step(r)
          PROVE  InterceptorInv'
      <3>1. CASE LogRead(r)
        BY <1>1, <3>1, LogReadStep
      <3>2. CASE LogInsert(r)
        BY <1>1, <3>2, LoggedStep DEF LogInsert
      <3>3. CASE LogFails(r)
        BY <1>1, <3>3, LogFailsStep
      <3>4. CASE Register(r) \/ Awaken(r) \/ AwaitTimeout(r)
        BY <1>1, <3>4, RegisterStep, AwakenStep, AwaitTimeoutStep
      <3>5. CASE \/ \E content \in Contents, strict \in BOOLEAN : UpstreamAnswers(r, content, strict)
                 \/ UpstreamRefuses(r)
                 \/ UpstreamFails(r)
        BY <1>1, <3>5, UpstreamStep
      <3> QED  BY <2>4, <3>1, <3>2, <3>3, <3>4, <3>5 DEF Step
    <2>5. ASSUME NEW p \in Processes, WindowSlides(p)
          PROVE  InterceptorInv'
      BY <1>1, <2>5, WindowSlidesStep
    <2> QED  BY <1>1, <2>1, <2>2, <2>3, <2>4, <2>5 DEF Next
  <1> QED  BY <1>1, InterceptorInit, PTL DEF Spec

\* Types: the states a request can be in, and rate windows that never pass their limits.
THEOREM InterceptorTypeCorrect == Spec => []TypeOK
  BY InterceptorInvariant, PTL DEF InterceptorInv

\* dispatch_human_approval: after consent, denial, timeout and late or repeated
\* reviews, the tables hold the requests that wait and nothing else.
THEOREM TablesClean == Spec => []ApprovalsCleaned
  BY InterceptorInvariant, PTL DEF InterceptorInv

\* proxy.py: what needed a reviewer went through only on the last review's consent,
\* and was refused only on its denial, a timeout or a refused key.
THEOREM ReviewDecides == Spec => []ApprovedByReview
  <1>1. InterceptorInv => ApprovedByReview
    BY DEF InterceptorInv, ReviewInv, ReviewAt, ApprovedByReview, Passed, Turned, Heading
  <1> QED  BY <1>1, InterceptorInvariant, PTL

-----------------------------------------------------------------------------
(* The audit ledger of one process *)

\* A request goes where it neither writes at once nor has been executed unlogged.
Aside(s) == s.pc # "insert" /\ (s.pc = "executed" => s.input.kind = "bundle")

\* At an await of the only process nobody writes to the ledger.
LEMMA NobodyLogs ==
    ASSUME OneProcess, NEW r \in Requests, LoopFree(r)
    PROVE  \A q \in Requests : req[q].pc \notin Logging
  BY DEF OneProcess, LoopFree, Logging

\* The rows of one payload are finitely many.
LEMMA RowsFinite ==
    ASSUME ChainInv, NEW i
    PROVE  IsFiniteSet(Rows(i))
  <1>1. Len(ledger) \in Nat /\ DOMAIN ledger = 1..Len(ledger)
    BY DEF ChainInv
  <1>2. IsFiniteSet(1..Len(ledger))
    BY <1>1, FS_Interval
  <1>3. Rows(i) \in SUBSET (1..Len(ledger))
    BY <1>1 DEF Rows
  <1> QED  BY <1>2, <1>3, FS_Subset

\* A step that writes no row.
LEMMA AsideStep ==
    ASSUME OneProcess, ChainInv, CountInv, NEW r \in Requests, NEW s, Moved(r, s), Aside(s),
           LoopFree(r) \/ req[r].pc \in Logging, ledger' = ledger
    PROVE  ChainInv' /\ CountInv'
  <1>1. \A q \in Requests \ {r} : req'[q] = req[q] /\ req[q].pc \notin Logging
    BY NobodyLogs DEF Moved, ChainInv
  <1>2. req'[r] = s /\ s.pc # "insert" /\ (s.pc = "executed" => s.input.kind = "bundle")
    BY DEF Moved, Aside
  <1>3. /\ \A p, q \in Requests : req'[p].pc \in Logging /\ req'[q].pc \in Logging => p = q
        /\ \A q \in Requests : req'[q].pc # "insert"
    BY <1>1, <1>2 DEF Logging
  <1>4. ChainInv'
    BY <1>3 DEF ChainInv
  <1>5. ASSUME NEW i \in Inputs, i.kind # "bundle"
        PROVE  IsFiniteSet(Executed(i)') /\ Cardinality(Rows(i)') >= Cardinality(Executed(i)')
    <2>1. IsFiniteSet(Executed(i)) /\ Cardinality(Rows(i)) >= Cardinality(Executed(i))
      BY <1>5 DEF CountInv
    <2>2. Executed(i)' \in SUBSET Executed(i)
      BY <1>1, <1>2, <1>5 DEF Executed
    <2>3. IsFiniteSet(Executed(i)') /\ Cardinality(Executed(i)') <= Cardinality(Executed(i))
      BY <2>1, <2>2, FS_Subset
    <2>4. Rows(i)' = Rows(i)
      BY DEF Rows
    <2>5. IsFiniteSet(Rows(i))
      BY RowsFinite
    <2>6. Cardinality(Rows(i)) \in Nat /\ Cardinality(Executed(i)) \in Nat /\ Cardinality(Executed(i)') \in Nat
      BY <2>1, <2>3, <2>5, FS_CardinalityType
    <2> QED  BY <2>1, <2>3, <2>4, <2>6
  <1> QED  BY <1>4, <1>5 DEF CountInv

\* A row to write, or a place to go to, is aside.
LEMMA LogAside ==
    ASSUME RequestsOK, NEW r \in Requests, NEW i, NEW rows, NEW then, Log(r, i, rows, then)
    PROVE  \E s : Moved(r, s) /\ Aside(s)
  <1> DEFINE s == [pc |-> "log", input |-> i, rows |-> rows, prev |-> << >>, then |-> then]
  <1>1. Moved(r, s)
    BY GotoMoves DEF RequestsOK, Log
  <1>2. s.pc = "log"
    OBVIOUS
  <1> HIDE DEF s
  <1> QED  BY <1>1, <1>2 DEF Aside

\* So is an await, and any answer but an execution.
LEMMA GoAside ==
    ASSUME RequestsOK, NEW r \in Requests, NEW i, NEW pc, pc \notin {"insert", "executed"},
           Goto(r, [pc |-> pc, input |-> i])
    PROVE  \E s : Moved(r, s) /\ Aside(s)
  <1> DEFINE s == [pc |-> pc, input |-> i]
  <1>1. Moved(r, s)
    BY GotoMoves DEF RequestsOK
  <1>2. s.pc = pc
    OBVIOUS
  <1> HIDE DEF s
  <1> QED  BY <1>1, <1>2 DEF Aside

\* What follows the approval gate goes upstream or writes a row.
LEMMA ProceedAside ==
    ASSUME RequestsOK, NEW r \in Requests, NEW i, Proceed(r, i)
    PROVE  \E s : Moved(r, s) /\ Aside(s)
  <1>1. \/ \E rows, then : Log(r, i, rows, then)
        \/ Goto(r, [pc |-> "upstream", input |-> i])
    BY Zenon DEF Proceed
  <1>2. "upstream" \notin {"insert", "executed"}
    OBVIOUS
  <1> QED  BY <1>1, <1>2, LogAside, GoAside

\* The gate writes a row, asks the reviewer, or lets the request proceed.
LEMMA GateAside ==
    ASSUME RequestsOK, NEW r \in Requests, NEW i, Gate(r, i)
    PROVE  \E s : Moved(r, s) /\ Aside(s)
  <1>1. \/ \E rows, then : Log(r, i, rows, then)
        \/ Goto(r, [pc |-> "notify", input |-> i])
        \/ Proceed(r, i)
    BY Zenon DEF Gate, SaleLogged
  <1>2. "notify" \notin {"insert", "executed"}
    OBVIOUS
  <1> QED  BY <1>1, <1>2, LogAside, GoAside, ProceedAside

\* get_last_hash: the one request that writes now knows the end of the chain.
LEMMA ReadsEnd ==
    ASSUME TypeOK, ChainInv, CountInv, NEW r \in Requests, LogRead(r)
    PROVE  ChainInv' /\ CountInv'
  <1> DEFINE s == [req[r] EXCEPT !.pc = "insert", !.prev = get_last_hash]
  <1>1. RequestsOK /\ req[r].pc = "log" /\ ledger' = ledger
    BY DEF LogRead, TypeOK
  <1>2. Busy(req[r])
    BY <1>1, RequestState DEF Logging
  <1>3. req' = [req EXCEPT ![r] = s]
    BY DEF LogRead
  <1>4. s.pc = "insert" /\ s.prev = get_last_hash
    BY <1>2 DEF Busy
  <1> HIDE DEF s
  <1>5. req'[r] = s /\ \A q \in Requests \ {r} : req'[q] = req[q] /\ req[q].pc \notin Logging
    BY <1>1, <1>3 DEF RequestsOK, ChainInv, Logging
  <1>6. get_last_hash' = get_last_hash
    BY <1>1 DEF get_last_hash
  <1>7. /\ \A p, q \in Requests : req'[p].pc \in Logging /\ req'[q].pc \in Logging => p = q
        /\ \A q \in Requests : req'[q].pc = "insert" => req'[q].prev = get_last_hash'
    BY <1>4, <1>5, <1>6 DEF Logging
  <1>8. ChainInv'
    BY <1>1, <1>7 DEF ChainInv
  <1>9. \A i \in Inputs : Rows(i)' = Rows(i)
    BY <1>1 DEF Rows
  <1>10. \A i \in Inputs : Executed(i)' = Executed(i)
    BY <1>1, <1>4, <1>5 DEF Executed
  <1> QED  BY <1>8, <1>9, <1>10 DEF CountInv

\* A hash that continues the chain from its end is a new one, so the UNIQUE
\* constraint on trace_hash does not reject the row.
LEMMA HashFresh ==
    ASSUME ChainInv, NEW payload, NEW k \in DOMAIN ledger
    PROVE  ledger[k].trace_hash # TraceHash(get_last_hash, payload)
  <1> DEFINE n == Len(ledger)
  <1>1. n \in Nat /\ DOMAIN ledger = 1..n /\ k \in 1..n /\ n \in DOMAIN ledger
    BY DEF ChainInv
  <1>2. get_last_hash = ledger[n].trace_hash
    BY <1>1 DEF get_last_hash
  <1> SUFFICES ASSUME ledger[k].trace_hash = TraceHash(get_last_hash, payload)
               PROVE  FALSE
    OBVIOUS
  <1> HIDE DEF n
  <1>3. /\ ledger[k].trace_hash = TraceHash(ledger[k].previous_hash, ledger[k].payload)
        /\ ledger[k].previous_hash = IF k = 1 THEN << >> ELSE ledger[k - 1].trace_hash
        /\ ledger[n].trace_hash = TraceHash(ledger[n].previous_hash, ledger[n].payload)
    BY <1>1 DEF ChainInv
  <1>4. ledger[k].previous_hash = ledger[n].trace_hash
    <2>1. \A a, b, c, d : <<a, b>> = <<c, d>> => a = c
      OBVIOUS
    <2>2. <<ledger[k].previous_hash, ledger[k].payload>> = <<get_last_hash, payload>>
      BY <1>3, Zenon DEF TraceHash
    <2> QED  BY <1>2, <2>1, <2>2, Zenon
  <1>5. ledger[n].trace_hash # << >>
    BY <1>3 DEF TraceHash
  <1>6. k # 1 /\ k - 1 \in DOMAIN ledger /\ ledger[k - 1].trace_hash = ledger[n].trace_hash
    BY <1>1, <1>3, <1>4, <1>5
  <1>7. k - 1 = n
    BY <1>1, <1>6 DEF ChainInv
  <1> QED  BY <1>1, <1>7

\* INSERT: the chain has one more link.
LEMMA ChainGrows ==
    ASSUME ChainInv, NEW payload, NEW status,
           ledger' = Append(ledger, [trace_hash |-> TraceHash(get_last_hash, payload),
                                     previous_hash |-> get_last_hash,
                                     payload |-> payload, status |-> status]),
           \A q \in Requests : req'[q].pc # "insert",
           \A p, q \in Requests : req'[p].pc \in Logging /\ req'[q].pc \in Logging => p = q
    PROVE  /\ ChainInv'
           /\ Len(ledger) \in Nat /\ DOMAIN ledger = 1..Len(ledger)
           /\ DOMAIN ledger' = DOMAIN ledger \cup {Len(ledger) + 1}
           /\ \A k \in DOMAIN ledger : ledger'[k] = ledger[k]
           /\ ledger'[Len(ledger) + 1].payload = payload
           /\ ledger'[Len(ledger) + 1].status = status
  <1> DEFINE e == [trace_hash |-> TraceHash(get_last_hash, payload),
                   previous_hash |-> get_last_hash, payload |-> payload, status |-> status]
             S == {ledger[k] : k \in DOMAIN ledger}
             n == Len(ledger)
  <1>1. ledger \in Seq(S)
    BY DEF ChainInv
  <1>2. /\ e.trace_hash = TraceHash(get_last_hash, payload) /\ e.previous_hash = get_last_hash
        /\ e.payload = payload /\ e.status = status
    OBVIOUS
  <1>3. ledger' = Append(ledger, e)
    OBVIOUS
  <1> HIDE DEF e
  <1>4. ledger \in Seq(S \cup {e})
    BY <1>1
  <1>5. /\ n \in Nat /\ DOMAIN ledger = 1..n
        /\ ledger' \in Seq(S \cup {e}) /\ Len(ledger') = n + 1 /\ DOMAIN ledger' = 1..(n + 1)
        /\ ledger'[n + 1] = e /\ \A k \in 1..n : ledger'[k] = ledger[k]
    BY <1>3, <1>4
  <1>6. S \cup {e} = {ledger'[k] : k \in DOMAIN ledger'}
    BY <1>5
  <1>7. ledger' \in Seq({ledger'[k] : k \in DOMAIN ledger'})
    BY <1>5, <1>6
  <1>8. get_last_hash = IF n = 0 THEN << >> ELSE ledger[n].trace_hash
    BY <1>1 DEF get_last_hash
  <1> HIDE DEF S, n
  <1>9. ASSUME NEW k \in DOMAIN ledger'
        PROVE  /\ ledger'[k].trace_hash = TraceHash(ledger'[k].previous_hash, ledger'[k].payload)
               /\ ledger'[k].previous_hash = IF k = 1 THEN << >> ELSE ledger'[k - 1].trace_hash
    <2>1. CASE k = n + 1
      <3>1. ledger'[k] = e
        BY <1>5, <2>1
      <3>2. n # 0 => n \in 1..n /\ ledger'[n] = ledger[n]
        BY <1>5
      <3>3. k - 1 = n /\ (k = 1 <=> n = 0)
        BY <1>5, <2>1
      <3> QED  BY <1>2, <1>8, <3>1, <3>2, <3>3
    <2>2. CASE k # n + 1
      <3>1. k \in DOMAIN ledger /\ ledger'[k] = ledger[k]
        BY <1>5, <2>2
      <3>2. k # 1 => k - 1 \in 1..n /\ ledger'[k - 1] = ledger[k - 1]
        BY <1>5, <3>1
      <3>3. /\ ledger[k].trace_hash = TraceHash(ledger[k].previous_hash, ledger[k].payload)
            /\ ledger[k].previous_hash = IF k = 1 THEN << >> ELSE ledger[k - 1].trace_hash
        BY <3>1 DEF ChainInv
      <3> QED  BY <3>1, <3>2, <3>3
    <2> QED  BY <2>1, <2>2
  <1>10. ASSUME NEW j \in DOMAIN ledger', NEW k \in DOMAIN ledger',
                ledger'[j].trace_hash = ledger'[k].trace_hash
         PROVE  j = k
    <2>1. \A x \in DOMAIN ledger : ledger'[x].trace_hash # e.trace_hash
      BY <1>2, <1>5, HashFresh
    <2>2. CASE j \in DOMAIN ledger /\ k \in DOMAIN ledger
      BY <1>5, <1>10, <2>2 DEF ChainInv
    <2>3. CASE j = n + 1 \/ k = n + 1
      BY <1>5, <1>10, <2>1, <2>3
    <2> QED  BY <1>5, <2>2, <2>3
  <1>11. ChainInv'
    BY <1>7, <1>9, <1>10 DEF ChainInv
  <1> QED  BY <1>2, <1>5, <1>11 DEF n

\* LogInsert: the row is written, and only then is the request executed.
LEMMA InsertCounts ==
    ASSUME TypeOK, ChainInv, CountInv, NEW r \in Requests, LogInsert(r)
    PROVE  ChainInv' /\ CountInv'
  <1> DEFINE row == Head(req[r].rows)
             n == Len(ledger)
  <1>1. RequestsOK /\ req[r].pc = "insert" /\ Logged(r)
    BY DEF LogInsert, TypeOK
  <1>2. Busy(req[r])
    BY <1>1, RequestState DEF Logging
  <1>3. req[r].prev = get_last_hash
    BY <1>1 DEF ChainInv
  <1>4. ledger' = Append(ledger, [trace_hash |-> TraceHash(get_last_hash, row.payload),
                                  previous_hash |-> get_last_hash,
                                  payload |-> row.payload, status |-> row.status])
    <2>1. ~ \E i \in DOMAIN ledger : ledger[i].trace_hash = TraceHash(get_last_hash, row.payload)
      BY HashFresh
    <2> QED  BY <1>3, <2>1 DEF LogInsert
  <1>5. PICK s : /\ Moved(r, s) /\ s.input = req[r].input
                 /\ \/ Busy(s) /\ s.pc = "log" /\ s.then = "refused" /\ req[r].then = "refused"
                    \/ Idle(s) /\ s.pc = req[r].then
    BY <1>1, LoggedMoves
  <1>6. s.pc # "insert" /\ (s.pc = "executed" => req[r].then = "executed")
    BY <1>2, <1>5 DEF Busy, Answered
  <1>7. req'[r] = s /\ \A q \in Requests \ {r} : req'[q] = req[q] /\ req[q].pc \notin Logging
    BY <1>1, <1>5 DEF Moved, ChainInv, Logging
  <1>8. /\ \A q \in Requests : req'[q].pc # "insert"
        /\ \A p, q \in Requests : req'[p].pc \in Logging /\ req'[q].pc \in Logging => p = q
    BY <1>6, <1>7 DEF Logging
  <1>9. s.pc = "executed" => row = Row(req[r].input, "PASSED")
    <2>1. \A x : Head(<<x>>) = x
      OBVIOUS
    <2>2. req[r].then = "executed" => req[r].rows = <<Row(req[r].input, "PASSED")>>
      BY <1>2 DEF Busy
    <2> QED  BY <1>6, <2>1, <2>2, Zenon
  <1> HIDE DEF row
  <1>10. /\ ChainInv'
         /\ n \in Nat /\ DOMAIN ledger = 1..n
         /\ DOMAIN ledger' = DOMAIN ledger \cup {n + 1}
         /\ \A k \in DOMAIN ledger : ledger'[k] = ledger[k]
         /\ ledger'[n + 1].payload = row.payload
         /\ ledger'[n + 1].status = row.status
    BY <1>4, <1>8, ChainGrows
  <1> HIDE DEF n
  <1>11. ASSUME NEW i \in Inputs, i.kind # "bundle"
         PROVE  IsFiniteSet(Executed(i)') /\ Cardinality(Rows(i)') >= Cardinality(Executed(i)')
    <2>1. IsFiniteSet(Executed(i)) /\ Cardinality(Rows(i)) >= Cardinality(Executed(i))
      BY <1>11 DEF CountInv
    <2>2. IsFiniteSet(Rows(i)) /\ IsFiniteSet(Rows(i)')
      <3>1. (Rows(i) \cup {n + 1}) = Rows(i) \cup {n + 1} /\ IsFiniteSet(Rows(i) \cup {n + 1})
        BY RowsFinite, FS_AddElement
      <3>2. Rows(i)' \in SUBSET (Rows(i) \cup {n + 1})
        BY <1>10 DEF Rows
      <3> QED  BY RowsFinite, <3>1, <3>2, FS_Subset
    <2>3. /\ Cardinality(Rows(i)) \in Nat /\ Cardinality(Rows(i)') \in Nat
          /\ Cardinality(Executed(i)) \in Nat
      BY <2>1, <2>2, FS_CardinalityType
    <2>4. Rows(i) \in SUBSET (Rows(i)')
      BY <1>10 DEF Rows
    <2>5. CASE s.pc = "executed" /\ s.input = i
      <3>1. Executed(i)' = Executed(i) \cup {r} /\ r \notin Executed(i)
        BY <1>1, <1>7, <2>5 DEF Executed
      <3>2. row.payload = i /\ row.status = "PASSED"
        BY <1>5, <1>9, <2>5 DEF Row
      <3>3. Rows(i)' = Rows(i) \cup {n + 1} /\ n + 1 \notin Rows(i)
        BY <1>10, <3>2 DEF Rows
      <3>4. /\ IsFiniteSet(Executed(i)')
            /\ Cardinality(Executed(i)') = Cardinality(Executed(i)) + 1
        BY <2>1, <3>1, FS_AddElement
      <3>5. Cardinality(Rows(i)') = Cardinality(Rows(i)) + 1
        BY <2>2, <3>3, FS_AddElement
      <3> QED  BY <2>1, <2>3, <3>4, <3>5
    <2>6. CASE ~(s.pc = "executed" /\ s.input = i)
      <3>1. Executed(i)' \in SUBSET Executed(i)
        BY <1>7, <2>6 DEF Executed
      <3>2. IsFiniteSet(Executed(i)') /\ Cardinality(Executed(i)') <= Cardinality(Executed(i))
        BY <2>1, <3>1, FS_Subset
      <3>3. Cardinality(Rows(i)) <= Cardinality(Rows(i)')
        BY <2>2, <2>4, FS_Subset
      <3>4. Cardinality(Executed(i)') \in Nat
        BY <3>2, FS_CardinalityType
      <3> QED  BY <2>1, <2>3, <3>2, <3>3, <3>4
    <2> QED  BY <2>5, <2>6
  <1> QED  BY <1>10, <1>11 DEF CountInv

\* LogFails: no row, and no execution either, but for a sale.
LEMMA FailureAside ==
    ASSUME TypeOK, NEW r \in Requests, LogFails(r)
    PROVE  \E s : Moved(r, s) /\ Aside(s)
  <1> DEFINE i == req[r].input
  <1>1. RequestsOK /\ req[r].pc = "insert"
    BY DEF LogFails, TypeOK
  <1>2. Busy(req[r])
    BY <1>1, RequestState DEF Logging
  <1>3. \/ Logged(r) /\ (Head(req[r].rows).status = "TIMEOUT" \/ i.kind = "bundle")
        \/ Log(r, i, <<Row(i, "FAILED")>>, "failed")
        \/ Goto(r, [pc |-> "error", input |-> i])
    BY DEF LogFails, Finish
  <1>4. CASE Logged(r) /\ (Head(req[r].rows).status = "TIMEOUT" \/ i.kind = "bundle")
    <2>1. PICK s : /\ Moved(r, s) /\ s.input = i
                   /\ \/ Busy(s) /\ s.pc = "log" /\ s.then = "refused" /\ req[r].then = "refused"
                      \/ Idle(s) /\ s.pc = req[r].then
      BY <1>1, <1>4, LoggedMoves
    <2>2. req[r].then = "executed" => Head(req[r].rows).status = "PASSED"
      <3>1. \A x : Head(<<x>>) = x
        OBVIOUS
      <3>2. req[r].then = "executed" => req[r].rows = <<Row(i, "PASSED")>>
        BY <1>2 DEF Busy
      <3>3. Row(i, "PASSED").status = "PASSED"
        BY DEF Row
      <3> QED  BY <3>1, <3>2, <3>3, Zenon
    <2>3. s.pc # "insert" /\ (s.pc = "executed" => req[r].then = "executed")
      BY <1>2, <2>1 DEF Busy, Answered
    <2> QED  BY <1>4, <2>1, <2>2, <2>3 DEF Aside
  <1>5. CASE Log(r, i, <<Row(i, "FAILED")>>, "failed")
    BY <1>1, <1>5, LogAside
  <1>6. CASE Goto(r, [pc |-> "error", input |-> i])
    <2>1. "error" \notin {"insert", "executed"}
      OBVIOUS
    <2> HIDE DEF i
    <2> QED  BY <1>1, <1>6, <2>1, GoAside
  <1> QED  BY <1>3, <1>4, <1>5, <1>6

\* Every handler up to its first await.
LEMMA AdmissionAside ==
    ASSUME TypeOK, NEW r \in Requests, NEW i \in Inputs,
           \/ ShieldRefuses(r, i) \/ OperatorRefuses(r, i)
           \/ RateRefuses(r, i) \/ SpendHunter(r, i) \/ Admit(r, i)
    PROVE  (\E s : Moved(r, s) /\ Aside(s)) /\ LoopFree(r) /\ ledger' = ledger
  <1>1. RequestsOK /\ LoopFree(r) /\ ledger' = ledger
    BY DEF TypeOK, ShieldRefuses, OperatorRefuses, RateRefuses, SpendHunter, Admit
  <1>2. CASE ShieldRefuses(r, i) \/ OperatorRefuses(r, i) \/ RateRefuses(r, i)
    <2>1. \/ \E rows, then : Log(r, i, rows, then)
          \/ Goto(r, [pc |-> "refused", input |-> i])
      BY <1>2, Zenon DEF ShieldRefuses, OperatorRefuses, RateRefuses, Finish
    <2>2. "refused" \notin {"insert", "executed"}
      OBVIOUS
    <2> QED  BY <1>1, <2>1, <2>2, LogAside, GoAside
  <1>3. CASE SpendHunter(r, i)
    <2>1. \/ Log(r, i, <<CacheRow>>, "cached")
          \/ Log(r, i, <<Row([kind |-> "breaker"], "BLOCKED")>>, "refused")
          \/ Log(r, i, <<Row([kind |-> "bloat"], "BLOCKED")>>, "refused")
          \/ Gate(r, i)
      BY <1>3 DEF SpendHunter
    <2>2. (\E rows, then : Log(r, i, rows, then)) \/ Gate(r, i)
      BY <2>1, Zenon
    <2> QED  BY <1>1, <2>2, LogAside, GateAside
  <1>4. CASE Admit(r, i)
    BY <1>1, <1>4, GateAside DEF Admit
  <1> QED  BY <1>2, <1>3, <1>4, <1>1

\* A handler that goes on after an await.
LEMMA ResumeAside ==
    ASSUME TypeOK, NEW r \in Requests,
           \/ Register(r) \/ Awaken(r) \/ AwaitTimeout(r)
           \/ \E content \in Contents, strict \in BOOLEAN : UpstreamAnswers(r, content, strict)
           \/ UpstreamRefuses(r) \/ UpstreamFails(r)
    PROVE  (\E s : Moved(r, s) /\ Aside(s)) /\ LoopFree(r) /\ ledger' = ledger
  <1> DEFINE i == req[r].input
  <1>1. RequestsOK /\ LoopFree(r) /\ ledger' = ledger
    BY DEF TypeOK, Register, Awaken, AwaitTimeout, UpstreamAnswers, UpstreamRefuses, UpstreamFails
  <1>2. CASE Register(r)
    <2> DEFINE s == [req[r] EXCEPT !.pc = "waiting"]
    <2>1. Idle(req[r]) /\ req[r].pc = "notify" /\ req[r] # Fresh
      BY <1>1, <1>2, RequestState DEF Register, Fresh
    <2>2. Moved(r, s)
      BY <1>1, <1>2, GotoMoves DEF Register, RequestsOK
    <2>3. s.pc = "waiting"
      BY <2>1 DEF Idle
    <2> HIDE DEF s
    <2> QED  BY <1>1, <2>2, <2>3 DEF Aside
  <1>3. CASE Awaken(r)
    <2>1. Proceed(r, i) \/ Log(r, i, <<Row(i, "REJECTED")>>, "refused")
      BY <1>3 DEF Awaken, Rejected
    <2> QED  BY <1>1, <2>1, ProceedAside, LogAside
  <1>4. CASE AwaitTimeout(r)
    <2>1. \E rows, then : Log(r, i, rows, then)
      BY <1>4, Zenon DEF AwaitTimeout
    <2> QED  BY <1>1, <2>1, LogAside
  <1>5. CASE \/ \E content \in Contents, strict \in BOOLEAN : UpstreamAnswers(r, content, strict)
             \/ UpstreamRefuses(r) \/ UpstreamFails(r)
    <2>1. \/ Log(r, i, <<Row(i, "BLOCKED")>>, "scanned")
          \/ Log(r, i, <<Row(i, "PASSED")>>, "executed")
          \/ Log(r, i, <<Row(i, "FAILED")>>, "failed")
      BY <1>5 DEF UpstreamAnswers, UpstreamRefuses, UpstreamFails
    <2> QED  BY <1>1, <2>1, LogAside
  <1> QED  BY <1>2, <1>3, <1>4, <1>5

\* The empty ledger.
LEMMA LedgerInit == Init => ChainInv /\ CountInv
  <1> SUFFICES ASSUME Init PROVE ChainInv /\ CountInv
    OBVIOUS
  <1>1. ledger = << >> /\ \A r \in Requests : req[r].pc = "new"
    BY DEF Init, Fresh
  <1>2. ChainInv
    BY <1>1 DEF ChainInv, Logging
  <1>3. ASSUME NEW i \in Inputs
        PROVE  IsFiniteSet(Executed(i)) /\ Cardinality(Rows(i)) >= Cardinality(Executed(i))
    <2>1. Executed(i) = {} /\ Rows(i) = {}
      BY <1>1 DEF Executed, Rows
    <2> QED  BY <2>1, FS_EmptySet
  <1> QED  BY <1>2, <1>3 DEF CountInv

\* Steps that touch neither a request nor the ledger.
LEMMA LedgerStutter ==
    ASSUME ChainInv, CountInv, UNCHANGED <<req, ledger>>
    PROVE  ChainInv' /\ CountInv'
  <1>1. ChainInv'
    BY DEF ChainInv, get_last_hash
  <1>2. \A i \in Inputs : Rows(i)' = Rows(i) /\ Executed(i)' = Executed(i)
    BY DEF Rows, Executed
  <1> QED  BY <1>1, <1>2 DEF CountInv

\* WALLedger.log_event in one process: the chain stays a chain, and the rows keep
\* up with the executions.
THEOREM LedgerInvariant == OneProcess => (Spec => [](ChainInv /\ CountInv))
  <1> SUFFICES ASSUME OneProcess PROVE Spec => [](ChainInv /\ CountInv)
    OBVIOUS
  <1>1. ASSUME TypeOK, ChainInv /\ CountInv, [Next]_vars
        PROVE  (ChainInv /\ CountInv)'
    <2>1. CASE UNCHANGED vars
      BY <1>1, <2>1, LedgerStutter DEF vars
    <2>2. ASSUME NEW r \in Requests, NEW i \in Inputs,
                 \/ ShieldRefuses(r, i) \/ OperatorRefuses(r, i)
                 \/ RateRefuses(r, i) \/ SpendHunter(r, i) \/ Admit(r, i)
          PROVE  (ChainInv /\ CountInv)'
      BY <1>1, <2>2, AdmissionAside, AsideStep
    <2>3. ASSUME NEW r \in Requests, NEW approved \in BOOLEAN, Review(r, approved)
          PROVE  (ChainInv /\ CountInv)'
      BY <1>1, <2>3, LedgerStutter DEF Review
    <2>4. ASSUME NEW r \in Requests, Step(r)
          PROVE  (ChainInv /\ CountInv)'
      <3>1. CASE LogRead(r)
        BY <1>1, <3>1, ReadsEnd
      <3>2. CASE LogInsert(r)
        BY <1>1, <3>2, InsertCounts
      <3>3. CASE LogFails(r)
        <4>1. req[r].pc \in Logging /\ ledger' = ledger
          BY <3>3 DEF LogFails, Logging
        <4> QED  BY <1>1, <3>3, <4>1, FailureAside, AsideStep
      <3>4. CASE \/ Register(r) \/ Awaken(r) \/ AwaitTimeout(r)
                 \/ \E content \in Contents, strict \in BOOLEAN : UpstreamAnswers(r, content, strict)
                 \/ UpstreamRefuses(r) \/ UpstreamFails(r)
        BY <1>1, <3>4, ResumeAside, AsideStep
      <3> QED  BY <2>4, <3>1, <3>2, <3>3, <3>4 DEF Step
    <2>5. ASSUME NEW p \in Processes, WindowSlides(p)
          PROVE  (ChainInv /\ CountInv)'
      BY <1>1, <2>5, LedgerStutter DEF WindowSlides
    <2> QED  BY <1>1, <2>1, <2>2, <2>3, <2>4, <2>5 DEF Next
  <1> QED  BY <1>1, LedgerInit, InterceptorTypeCorrect, PTL DEF Spec

\* One server process never executes more equal requests than its ledger has rows
\* for, though the UNIQUE hash swallows a repeated row and the ledger may raise: the
\* chain makes the hash of an equal payload a new one.
THEOREM ExecutionsLogged == OneProcess => (Spec => []ExecutedIsLogged)
  <1>1. TypeOK /\ CountInv => ExecutedIsLogged
    <2> SUFFICES ASSUME TypeOK, CountInv, NEW r \in Requests, req[r].pc = "executed",
                        req[r].input.kind # "bundle"
                 PROVE  Cardinality(Rows(req[r].input)) >= Cardinality(Executed(req[r].input))
      BY DEF ExecutedIsLogged, Rows, Executed
    <2>1. req[r].input \in Inputs
      BY DEF TypeOK, RequestsOK, Idle, Busy, Fresh, Logging
    <2> QED  BY <2>1 DEF CountInv
  <1> QED  BY <1>1, LedgerInvariant, InterceptorTypeCorrect, PTL
=============================================================================
