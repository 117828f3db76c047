----------------------------- MODULE Interceptor -----------------------------
(***************************************************************************)
(* The interceptor proxy (src/src/pi_agent_interceptor/proxy.py): chat     *)
(* completions, shell commands, file edits and bundle sales pass a prompt  *)
(* shield, a rate limit, the spend hunter, a risk gate and, for a middling *)
(* risk, a human reviewer with a timeout; every decision is a row of a     *)
(* hash-chained audit ledger.                                              *)
(*                                                                         *)
(* The handlers of a server process run on one event loop: what lies       *)
(* between two awaits is not interrupted by another request of the same    *)
(* process.  Servers share the ledger's file and nothing else, so the two  *)
(* halves of log_event are separate steps.  Scores are integers and risks  *)
(* are in hundredths of a point: RiskEngine's weights are percentages.     *)
(***************************************************************************)
EXTENDS Integers, Sequences, FiniteSets

CONSTANTS Requests,
          Processes,
          ProcessOf,     \* request -> the server process that handles it
          Prompts,       \* chats: [drift, entropy : 0..100, injection, bloat : BOOLEAN, key]
          Dangers,       \* scores analyze_command_sensitivity returns
          LlmRate,       \* PI_LLM_RATE_PER_MIN
          CommandRate,   \* PI_COMMAND_RATE_PER_MIN
          SpendLimit,    \* the breaker's limit, in responses
          MaxReviews     \* bound: reviews sent for one request

\* The scores detect_prompt_injection returns.
Injections == {0, 90, 95, 99}

ASSUME InterceptorAssumption ==
    /\ ProcessOf \in [Requests -> Processes]
    /\ Prompts \subseteq [drift : 0..100, entropy : 0..100, injection : Injections,
                          bloat : BOOLEAN, key : {"none", "issued", "long"}]
    /\ Dangers \subseteq 0..100
    /\ LlmRate \in Nat \ {0} /\ CommandRate \in Nat \ {0} /\ MaxReviews \in Nat

VARIABLES
    req,       \* request -> [pc, input, risk, rows, prev, then]
    mem,       \* process -> its approvals, rate windows, spend window and cache
    ledger,    \* table audit_events, in id order
    verdict,   \* history: request -> the reviews acknowledged for it
    expired    \* history: the requests whose approval timed out

vars == <<req, mem, ledger, verdict, expired>>

\* Of a command's and of an edit's text only matters whether it is an injection.
Inputs ==
    [kind : {"chat"}, prompt : Prompts]
      \cup [kind : {"command"}, danger : Dangers, injection : {0, 90}]
      \cup [kind : {"edit"}, violations : BOOLEAN, injection : {0, 90}]
      \cup [kind : {"bundle"}]

Fresh == [pc |-> "new"]

Init ==
    /\ req = [r \in Requests |-> Fresh]
    /\ mem = [p \in Processes |->
          [pending |-> {}, results |-> << >>, llm |-> 0, command |-> 0,
           spend |-> 0, cache |-> << >>]]
    /\ ledger = << >>
    /\ verdict = [r \in Requests |-> << >>]
    /\ expired = {}

Mem(r) == mem[ProcessOf[r]]
SetMem(r, m) == mem' = [mem EXCEPT ![ProcessOf[r]] = m]
Goto(r, state) == req' = [req EXCEPT ![r] = state]

\* The event loop of r's process is at an await.
LoopFree(r) ==
    \A q \in Requests : ProcessOf[q] = ProcessOf[r] => req[q].pc \notin {"log", "insert"}

\* Without the key k.
Drop(f, k) == [x \in DOMAIN f \ {k} |-> f[x]]
Put(f, k, v) == [x \in DOMAIN f \cup {k} |-> IF x = k THEN v ELSE f[x]]

-----------------------------------------------------------------------------
(* PIGovernShield and RiskEngine *)

Max2(a, b) == IF a >= b THEN a ELSE b
Min2(a, b) == IF a <= b THEN a ELSE b

\* The scores a request is judged by.  Messages are screened for injection by
\* the handler too, a command's or an edit's text only by the middleware.
Scores(i) ==
    [drift |-> IF i.kind = "chat" THEN i.prompt.drift ELSE 0,
     entropy |-> IF i.kind = "chat" THEN i.prompt.entropy ELSE 0,
     ast |-> IF i.kind = "edit" /\ i.violations THEN 100 ELSE 0,
     command |-> IF i.kind = "command" THEN i.danger ELSE 0,
     injection |-> IF i.kind = "chat" THEN i.prompt.injection ELSE 0]

\* RiskEngine.compute: the weighted sum, raised to any single score of 71 or more.
compute(s) ==
    LET total == 25 * s.drift + 15 * s.entropy + 20 * s.ast + 15 * s.command
                   + 25 * s.injection
        raised(t, k) == IF s[k] >= 71 THEN Max2(t, 100 * s[k]) ELSE t
    IN  Min2(raised(raised(raised(total, "ast"), "command"), "injection"), 10000)

\* A command's own score counts undiluted from 41 upwards.
Risk(i) ==
    IF i.kind = "command" /\ i.danger >= 41
      THEN Max2(compute(Scores(i)), 100 * i.danger)
      ELSE compute(Scores(i))

Injected(i) ==
    CASE i.kind = "chat" -> i.prompt.injection
      [] i.kind = "bundle" -> 0
      [] OTHER -> i.injection

Blocked(i) == Risk(i) >= 7100 \/ (i.kind = "edit" /\ i.violations)
NeedsApproval(i) == i.kind \in {"chat", "command"} /\ 4100 <= Risk(i) /\ Risk(i) <= 7000

-----------------------------------------------------------------------------
(* WALLedger.log_event *)

Row(i, status) == [payload |-> i, status |-> status]
CacheRow == [payload |-> [kind |-> "cache_hit"], status |-> "PASSED"]

\* The handler logs rows, in this order, and then ends or answers with `then`.
Log(r, i, rows, then) ==
    Goto(r, [pc |-> "log", input |-> i, rows |-> rows, prev |-> << >>, then |-> then])

Finish(r, i, outcome) == Goto(r, [pc |-> outcome, input |-> i])

\* get_last_hash, on a connection of its own.
get_last_hash == IF ledger = << >> THEN << >> ELSE ledger[Len(ledger)].trace_hash

LogRead(r) ==
    /\ req[r].pc = "log"
    /\ req' = [req EXCEPT ![r].pc = "insert", ![r].prev = get_last_hash]
    /\ UNCHANGED <<mem, ledger, verdict, expired>>

\* Mutant: the digest covers the payload only.
TraceHashOfPayload(prev, payload) == <<payload>>

TraceHash(prev, payload) == <<prev, payload>>

Logged(r) ==
    Goto(r, IF Len(req[r].rows) > 1
              THEN [req[r] EXCEPT !.pc = "log", !.rows = Tail(@)]
              ELSE [pc |-> req[r].then, input |-> req[r].input])

\* INSERT under UNIQUE(trace_hash); an IntegrityError is passed over.
LogInsert(r) ==
    LET row == Head(req[r].rows)
        hash == TraceHash(req[r].prev, row.payload)
    IN  /\ req[r].pc = "insert"
        /\ ledger' = IF \E i \in DOMAIN ledger : ledger[i].trace_hash = hash THEN ledger
                     ELSE Append(ledger, [trace_hash |-> hash, previous_hash |-> req[r].prev,
                                          payload |-> row.payload, status |-> row.status])
        /\ Logged(r)
        /\ UNCHANGED <<mem, verdict, expired>>

\* Any other error of the ledger.  It is caught around the row of a timeout and
\* of a sale; in the upstream block it leads to a FAILED row and a 502; anywhere
\* else it ends the request with a 500.
LogFails(r) ==
    LET row == Head(req[r].rows)
        upstream == req[r].input.kind = "chat" /\ req[r].then \in {"executed", "scanned"}
    IN  /\ req[r].pc = "insert"
        /\ IF row.status = "TIMEOUT" \/ req[r].input.kind = "bundle" THEN Logged(r)
           ELSE IF upstream /\ row.status # "FAILED"
             THEN Log(r, req[r].input, <<Row(req[r].input, "FAILED")>>, "failed")
             ELSE Finish(r, req[r].input, "error")
        /\ UNCHANGED <<mem, ledger, verdict, expired>>

-----------------------------------------------------------------------------
(* Admission: from the middleware to the first await *)

\* _RateLimiter.hit: calls in the window.
LimitOf(i) == IF i.kind = "chat" THEN LlmRate ELSE CommandRate
Window(i) == IF i.kind = "chat" THEN "llm" ELSE "command"
RateLimited(r, i) == i.kind \in {"chat", "command"} /\ Mem(r)[Window(i)] >= LimitOf(i)
Hit(r, i) ==
    IF i.kind \in {"chat", "command"} THEN [Mem(r) EXCEPT ![Window(i)] = @ + 1] ELSE Mem(r)

\* PiSpendAnomalyHunter.check_request.
check_request(m, prompt) ==
    CASE m.spend >= SpendLimit -> "BLOCKED_CIRCUIT_BREAKER"
      [] m.spend < SpendLimit /\ prompt.bloat -> "BLOCKED_PROMPT_BLOAT"
      [] m.spend < SpendLimit /\ ~prompt.bloat /\ prompt \in DOMAIN m.cache -> "CACHE_HIT"
      [] OTHER -> "PROCEED"

\* _SURPLUS_KEY_RE asks for 24 characters and create_surplus_bundle issues 12,
\* so a key that is looked up by route_traffic is never one that was issued.
SubKeyRefused(i) == i.kind = "chat" /\ i.prompt.key = "long"

\* What follows the approval gate: the sub-key and the call upstream, or the
\* execution itself.
Proceed(r, i) ==
    IF SubKeyRefused(i) THEN Log(r, i, <<Row(i, "BLOCKED")>>, "refused")
    ELSE IF i.kind = "chat" THEN Goto(r, [pc |-> "upstream", input |-> i])
    ELSE Log(r, i, <<Row(i, "PASSED")>>, "executed")

\* create_surplus_bundle mints a key and logs the sale.
SaleLogged(r, i) == Log(r, i, <<Row(i, "PASSED")>>, "executed")

Gate(r, i) ==
    IF i.kind = "bundle" THEN SaleLogged(r, i)
    ELSE IF Blocked(i) THEN Log(r, i, <<Row(i, "BLOCKED")>>, "refused")
    ELSE IF NeedsApproval(i) THEN Goto(r, [pc |-> "notify", input |-> i])
    ELSE Proceed(r, i)

\* PiPromptShieldMiddleware in strict mode: a 403 that is not logged.
ShieldRefuses(r, i) ==
    /\ req[r].pc = "new" /\ LoopFree(r)
    /\ Injected(i) >= 71
    /\ Finish(r, i, "refused")
    /\ UNCHANGED <<mem, ledger, verdict, expired>>

\* require_operator: a 503 without a configured token, a 401 for a wrong one; every
\* endpoint but the chat's asks for it.  A review it refuses changes nothing.
OperatorRefuses(r, i) ==
    /\ req[r].pc = "new" /\ LoopFree(r)
    /\ i.kind # "chat"
    /\ Finish(r, i, "refused")
    /\ UNCHANGED <<mem, ledger, verdict, expired>>

\* HTTP 429; only commands leave a row.
RateRefuses(r, i) ==
    /\ req[r].pc = "new" /\ LoopFree(r)
    /\ RateLimited(r, i)
    /\ IF i.kind = "command" THEN Log(r, i, <<Row(i, "RATE_LIMITED")>>, "refused")
       ELSE Finish(r, i, "refused")
    /\ UNCHANGED <<mem, ledger, verdict, expired>>

SpendHunter(r, i) ==
    /\ req[r].pc = "new" /\ LoopFree(r)
    /\ i.kind = "chat" /\ ~RateLimited(r, i)
    /\ SetMem(r, Hit(r, i))
    /\ \E strict \in BOOLEAN :
          CASE check_request(Mem(r), i.prompt) = "CACHE_HIT" ->
                 Log(r, i, <<CacheRow>>, "cached")
            [] check_request(Mem(r), i.prompt) = "BLOCKED_CIRCUIT_BREAKER" ->
                 Log(r, i, <<Row([kind |-> "breaker"], "BLOCKED")>>, "refused")
            [] check_request(Mem(r), i.prompt) = "BLOCKED_PROMPT_BLOAT" /\ strict ->
                 Log(r, i, <<Row([kind |-> "bloat"], "BLOCKED")>>, "refused")
            [] OTHER -> Gate(r, i)
    /\ UNCHANGED <<ledger, verdict, expired>>

Admit(r, i) ==
    /\ req[r].pc = "new" /\ LoopFree(r)
    /\ i.kind # "chat" /\ ~RateLimited(r, i)
    /\ SetMem(r, Hit(r, i))
    /\ Gate(r, i)
    /\ UNCHANGED <<ledger, verdict, expired>>

-----------------------------------------------------------------------------
(* dispatch_human_approval and receive_human_review *)

\* The webhook post has returned or failed; only now is the task registered.
Register(r) ==
    /\ req[r].pc = "notify" /\ LoopFree(r)
    /\ SetMem(r, [Mem(r) EXCEPT !.pending = @ \cup {r}])
    /\ Goto(r, [req[r] EXCEPT !.pc = "waiting"])
    /\ UNCHANGED <<ledger, verdict, expired>>

\* A review of a task that is pending; for any other the answer is a 404.
Review(r, approved) ==
    /\ r \in Mem(r).pending /\ LoopFree(r)
    /\ Len(verdict[r]) < MaxReviews
    /\ SetMem(r, [Mem(r) EXCEPT !.results = Put(@, r, approved)])
    /\ verdict' = [verdict EXCEPT ![r] = Append(@, approved)]
    /\ UNCHANGED <<req, ledger, expired>>

Forget(r) == [Mem(r) EXCEPT !.pending = @ \ {r}, !.results = Drop(@, r)]

Rejected(r) == Log(r, req[r].input, <<Row(req[r].input, "REJECTED")>>, "refused")

\* Mutant: any answer counts as consent.
AwakenAny(r) ==
    /\ req[r].pc = "waiting" /\ LoopFree(r)
    /\ r \in DOMAIN Mem(r).results
    /\ SetMem(r, Forget(r))
    /\ Proceed(r, req[r].input)
    /\ UNCHANGED <<ledger, verdict, expired>>

\* The event is set: the result is read and both entries are removed.
Awaken(r) ==
    /\ req[r].pc = "waiting" /\ LoopFree(r)
    /\ r \in DOMAIN Mem(r).results
    /\ SetMem(r, Forget(r))
    /\ IF Mem(r).results[r] THEN Proceed(r, req[r].input) ELSE Rejected(r)
    /\ UNCHANGED <<ledger, verdict, expired>>

\* Mutant: the entries are removed on the normal return only.
AwaitTimeoutLeaves(r) ==
    /\ req[r].pc = "waiting" /\ LoopFree(r)
    /\ Log(r, req[r].input,
           <<Row([kind |-> "approval"], "TIMEOUT"), Row(req[r].input, "REJECTED")>>, "refused")
    /\ expired' = expired \cup {r}
    /\ UNCHANGED <<mem, ledger, verdict>>

\* Mutant: wait() without a timeout.
AwaitTimeoutNever(r) == FALSE /\ UNCHANGED vars

\* 300 seconds have passed, possibly after a review set the event and before the
\* dispatcher ran again: wait_for raises all the same.
AwaitTimeout(r) ==
    /\ req[r].pc = "waiting" /\ LoopFree(r)
    /\ SetMem(r, Forget(r))
    /\ Log(r, req[r].input,
           <<Row([kind |-> "approval"], "TIMEOUT"), Row(req[r].input, "REJECTED")>>, "refused")
    /\ expired' = expired \cup {r}
    /\ UNCHANGED <<ledger, verdict>>

-----------------------------------------------------------------------------
(* The answer of the model provider *)

\* PiCoTShadow.scan_response: a repetitive reasoning is an error, an invisible
\* guardrail only in strict mode.
Contents == {"clean", "steered", "looping"}
ScanErrors(content, strict) == content = "looping" \/ (content = "steered" /\ strict)

\* record_spend and cache_response come before the scan.
UpstreamAnswers(r, content, strict) ==
    LET i == req[r].input
    IN  /\ req[r].pc = "upstream" /\ LoopFree(r)
        /\ SetMem(r, [Mem(r) EXCEPT !.spend = @ + 1,
                                    !.cache = Put(@, i.prompt, content)])
        /\ IF ScanErrors(content, strict)
             THEN Log(r, i, <<Row(i, "BLOCKED")>>, "scanned")
             ELSE Log(r, i, <<Row(i, "PASSED")>>, "executed")
        /\ UNCHANGED <<ledger, verdict, expired>>

\* A status other than 200 is scanned and passed on, nothing is recorded.
UpstreamRefuses(r) ==
    /\ req[r].pc = "upstream" /\ LoopFree(r)
    /\ Log(r, req[r].input, <<Row(req[r].input, "PASSED")>>, "executed")
    /\ UNCHANGED <<mem, ledger, verdict, expired>>

\* The 60 second timeout, a transport error, a body that is not JSON.
UpstreamFails(r) ==
    /\ req[r].pc = "upstream" /\ LoopFree(r)
    /\ Log(r, req[r].input, <<Row(req[r].input, "FAILED")>>, "failed")
    /\ UNCHANGED <<mem, ledger, verdict, expired>>

-----------------------------------------------------------------------------
(* Time *)

\* A call, a response's cost or a cached response leaves its window.
WindowSlides(p) ==
    /\ \/ \E k \in {"llm", "command", "spend"} :
            mem[p][k] > 0 /\ mem' = [mem EXCEPT ![p][k] = @ - 1]
       \/ \E x \in DOMAIN mem[p].cache :
            mem' = [mem EXCEPT ![p].cache = Drop(@, x)]
    /\ UNCHANGED <<req, ledger, verdict, expired>>

-----------------------------------------------------------------------------
Step(r) ==
    \/ LogRead(r)
    \/ LogInsert(r)
    \/ LogFails(r)
    \/ Register(r)
    \/ Awaken(r)
    \/ AwaitTimeout(r)
    \/ \E content \in Contents, strict \in BOOLEAN :
          UpstreamAnswers(r, content, strict)
    \/ UpstreamRefuses(r)
    \/ UpstreamFails(r)

Next ==
    \/ \E r \in Requests :
          \/ \E i \in Inputs :
                \/ ShieldRefuses(r, i) \/ OperatorRefuses(r, i)
                \/ RateRefuses(r, i) \/ SpendHunter(r, i) \/ Admit(r, i)
          \/ \E approved \in BOOLEAN : Review(r, approved)
          \/ Step(r)
    \/ \E p \in Processes : WindowSlides(p)

Spec == Init /\ [][Next]_vars

\* The event loop serves every request that can go on; every await has a timeout.
FairSpec == Spec /\ \A r \in Requests : WF_vars(Step(r))

-----------------------------------------------------------------------------
(* Properties *)

Answered == {"executed", "cached", "refused", "scanned", "failed", "error"}
Last(s) == s[Len(s)]

\* A request of middling risk is sent on or executed only if the last review
\* acknowledged for it approved; one that neither timed out nor came with a key
\* that is refused in its turn is refused only if that review denied ("a stale True
\* verdict can leak through", proxy.py:197).
ApprovedByReview ==
    \A r \in Requests :
        /\ req[r].pc \in {"upstream", "executed", "scanned", "failed"}
              /\ NeedsApproval(req[r].input) => verdict[r] # << >> /\ Last(verdict[r])
        /\ req[r].pc = "refused" /\ verdict[r] # << >> /\ r \notin expired
              /\ ~SubKeyRefused(req[r].input) => ~Last(verdict[r])

\* The tables of pending approvals and of results hold the requests that wait and
\* nothing else, after consent, denial, timeout and late or repeated reviews.
ApprovalsCleaned ==
    \A p \in Processes :
        /\ mem[p].pending = {r \in Requests : ProcessOf[r] = p /\ req[r].pc = "waiting"}
        /\ DOMAIN mem[p].results \subseteq mem[p].pending

\* Every command, edit and completion that went through has a PASSED row of its
\* own, also when equal requests repeat and when the ledger raises.
ExecutedIsLogged ==
    \A i \in {req[r].input : r \in {q \in Requests : req[q].pc = "executed"}} :
        i.kind # "bundle" =>
            Cardinality({k \in DOMAIN ledger : ledger[k].payload = i /\ ledger[k].status = "PASSED"})
              >= Cardinality({r \in Requests : req[r].pc = "executed" /\ req[r].input = i})

\* Every request gets an answer: no approval, provider or row is waited for for ever.
EveryRequestAnswered ==
    \A r \in Requests : req[r].pc # "new" ~> req[r].pc \in Answered

-----------------------------------------------------------------------------
(* The inductive invariants behind the safety properties *)

Logging == {"log", "insert"}

\* A request that has no rows to write: it is new, awaits something, or is answered.
Idle(q) ==
    \/ q = Fresh
    \/ /\ DOMAIN q = {"pc", "input"} /\ q.input \in Inputs
       /\ q.pc \in {"notify", "waiting", "upstream"} \cup Answered
       /\ q.pc = "upstream" => q.input.kind = "chat"

\* A request with rows to write: one, or the two that follow a timeout.
Busy(q) ==
    /\ DOMAIN q = {"pc", "input", "rows", "prev", "then"}
    /\ q.pc \in Logging /\ q.input \in Inputs
    /\ q.then \in Answered \ {"error"}
    /\ \/ q.rows = <<q.rows[1]>>
       \/ q.rows = <<q.rows[1], q.rows[2]>> /\ q.then = "refused"
    /\ q.then = "executed" => q.rows = <<Row(q.input, "PASSED")>>

Partial(S, T) == UNION {[D -> T] : D \in SUBSET S}

Memory ==
    [pending : SUBSET Requests, results : Partial(Requests, BOOLEAN),
     llm : 0..LlmRate, command : 0..CommandRate, spend : Nat,
     cache : Partial(Prompts, Contents)]

RequestsOK == DOMAIN req = Requests /\ \A r \in Requests : Idle(req[r]) \/ Busy(req[r])

TypeOK ==
    /\ RequestsOK
    /\ mem \in [Processes -> Memory]
    /\ verdict \in [Requests -> Seq(BOOLEAN)]
    /\ expired \subseteq Requests

\* r is on its way through, or away; the rows it still writes included.
Heading(r, ends) == req[r].pc \in ends \/ (req[r].pc \in Logging /\ req[r].then \in ends)
Passed(r) == req[r].pc = "upstream" \/ Heading(r, {"executed", "scanned", "failed"})
Turned(r) == Heading(r, {"refused"})

\* A table entry is the last review; where a request went, the last review sent it.
ReviewAt(r) ==
    /\ req[r].pc \in {"new", "notify"} => verdict[r] = << >>
    /\ req[r].pc = "waiting" =>
          IF r \in DOMAIN Mem(r).results
            THEN verdict[r] # << >> /\ Mem(r).results[r] = Last(verdict[r])
            ELSE verdict[r] = << >>
    /\ Passed(r) /\ NeedsApproval(req[r].input) => verdict[r] # << >> /\ Last(verdict[r])
    /\ Turned(r) /\ verdict[r] # << >> /\ r \notin expired /\ ~SubKeyRefused(req[r].input)
          => ~Last(verdict[r])

ReviewInv == \A r \in Requests : ReviewAt(r)

InterceptorInv == TypeOK /\ ApprovalsCleaned /\ ReviewInv

\* Every request is handled by the same server process.
OneProcess == \A r, q \in Requests : ProcessOf[r] = ProcessOf[q]

\* The ledger is one chain of different hashes, and the request that has read its
\* end is the only one that writes.
ChainInv ==
    /\ ledger \in Seq({ledger[k] : k \in DOMAIN ledger})
    /\ \A k \in DOMAIN ledger :
          /\ ledger[k].trace_hash = TraceHash(ledger[k].previous_hash, ledger[k].payload)
          /\ ledger[k].previous_hash = IF k = 1 THEN << >> ELSE ledger[k - 1].trace_hash
    /\ \A j, k \in DOMAIN ledger : ledger[j].trace_hash = ledger[k].trace_hash => j = k
    /\ \A r, q \in Requests : req[r].pc \in Logging /\ req[q].pc \in Logging => r = q
    /\ \A r \in Requests : req[r].pc = "insert" => req[r].prev = get_last_hash

Rows(i) == {k \in DOMAIN ledger : ledger[k].payload = i /\ ledger[k].status = "PASSED"}
Executed(i) == {r \in Requests : req[r].pc = "executed" /\ req[r].input = i}

CountInv ==
    \A i \in Inputs :
        i.kind # "bundle" => IsFiniteSet(Executed(i)) /\ Cardinality(Rows(i)) >= Cardinality(Executed(i))
=============================================================================
