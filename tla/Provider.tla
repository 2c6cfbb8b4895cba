------------------------------ MODULE Provider ------------------------------
(***************************************************************************)
(* One provider call (harness/src/inference/transport.rs and the Decoder   *)
(* of protocol.rs): attempts over HTTP or a WebSocket, the stream of       *)
(* events, cancellation and timeouts, and the receipt the controller       *)
(* charges.  The provider may send any event; that a 4xx rejection other   *)
(* than 408 generated nothing, and that usage whose fields add up is what  *)
(* was generated, is assumed of it.                                        *)
(***************************************************************************)
EXTENDS Naturals, Sequences, FiniteSets

CONSTANTS
    MaxAttempts,    \* limits.max_attempts
    Unknown,        \* an amount nothing establishes
    MaxEvents       \* bound on the events of one stream

ASSUME ProviderAssumption ==
    {MaxAttempts, MaxEvents} \subseteq Nat \ {0} /\ Unknown \notin 0..2

VARIABLES
    callPc,         \* where run is
    wire,           \* route.transport and the dialect of the credentials
    attempts,       \* outcome.attempts
    decoder,        \* Decoder
    recovered,      \* a 401 was answered with recover_unauthorized
    headerCost,     \* response_cost_usd
    callResult,     \* failure kind and auth_error, once respond returned
    generations,    \* ghost: attempts for which the provider generated output
    events          \* events of the current stream

providerVars == <<callPc, wire, attempts, decoder, recovered, headerCost, callResult,
                  generations, events>>

Statuses == {401, 408, 429, 500}
\* Output items: two calls with one call_id, a sealed reasoning item and the
\* same one sealed again, and an item normalize refuses.
Items == {"call", "twin", "reasoning", "resealed", "malformed"}
Indices == 0..1
NoDecoder == [id |-> 0, items |-> [i \in {} |-> "call"], observed |-> FALSE,
              text |-> FALSE, terminal |-> FALSE, history |-> <<>>, usage |-> Unknown,
              cost |-> Unknown]
Calling == [kind |-> "none", auth |-> FALSE]

ProviderTypeOK ==
    /\ callPc \in {"headers", "connect", "send", "stream", "sleep", "done"}
    /\ wire \in [transport : {"http", "websocket"}, dialect : {"openai", "chatgpt"}]
    /\ Len(attempts) <= MaxAttempts
    /\ \A i \in DOMAIN attempts :
        /\ attempts[i].status \in {"started", "received", "rejected", "timed_out",
                                   "failed", "cancelled"}
        /\ attempts[i].http \in Statuses \cup {0}
        /\ attempts[i].dispatched \in BOOLEAN /\ attempts[i].uncertain \in BOOLEAN
    /\ decoder.id \in 0..2 /\ DOMAIN decoder.items \subseteq Indices
    /\ recovered \in BOOLEAN /\ headerCost \in {Unknown, 1, 2}
    /\ generations \in Nat /\ events \in 0..MaxEvents

ProviderInit ==
    /\ callPc = "headers" /\ attempts = <<>> /\ decoder = NoDecoder
    /\ wire \in [transport : {"http", "websocket"}, dialect : {"openai", "chatgpt"}]
    /\ recovered = FALSE /\ headerCost = Unknown /\ callResult = Calling
    /\ generations = 0 /\ events = 0

-----------------------------------------------------------------------------
(* Attempts *)

LastAttempt == Len(attempts)
EndAttempt(status, http, uncertain) ==
    [attempts EXCEPT ![LastAttempt].status = status, ![LastAttempt].http = http, ![LastAttempt].uncertain = uncertain]

\* respond, once run has returned an error: an attempt still open is closed.
Failed_(as, kind, auth) ==
    /\ callPc' = "done" /\ callResult' = [kind |-> kind, auth |-> auth]
    /\ attempts' = IF as = <<>> \/ as[Len(as)].status # "started" THEN as
                   ELSE [as EXCEPT ![Len(as)].status =
                            CASE kind = "cancelled" -> "cancelled"
                              [] kind = "timeout" -> "timed_out" [] OTHER -> "failed",
                         ![Len(as)].uncertain = as[Len(as)].dispatched]

\* The head of an attempt: credentials, then the record of the attempt.
attempt ==
    /\ callPc = "headers" /\ headerCost' = Unknown /\ events' = 0
    /\ \/ /\ attempts' = Append(attempts, [status |-> "started", http |-> 0,
                                           dispatched |-> FALSE, uncertain |-> FALSE])
          /\ callPc' = IF wire.transport = "http" THEN "send" ELSE "connect"
          /\ UNCHANGED callResult
       \/ Failed_(attempts, "authentication", TRUE)
    /\ UNCHANGED <<wire, decoder, recovered, generations>>

\* A rejection that shows nothing was generated: 4xx but 408.
Clean(status) == status \in {401, 429}

\* Mutant: whatever fails is sent again while attempts are left.
Final_bug(status) == LastAttempt = MaxAttempts

\* Only an explicit rejection before the stream is sent again.
Final(status) == LastAttempt = MaxAttempts \/ status # 429 \/ decoder.observed

\* The Err arm of run for an attempt with a status (0: none).
reject(kind, status) ==
    LET d == attempts[LastAttempt].dispatched
        as == EndAttempt(IF status # 0 THEN "rejected"
                         ELSE IF kind = "timeout" THEN "timed_out" ELSE "failed",
                         status, d /\ ~Clean(status))
    IN  \/ /\ status = 401 /\ ~recovered
           /\ \/ Failed_(as, "authentication", TRUE) /\ UNCHANGED recovered
              \/ /\ recovered' = TRUE
                 /\ IF LastAttempt < MaxAttempts
                    THEN callPc' = "headers" /\ attempts' = as /\ UNCHANGED callResult
                    ELSE Failed_(as, "authentication", FALSE)
        \/ /\ status # 401 \/ recovered
           /\ UNCHANGED recovered
           /\ IF Final(status)
              THEN Failed_(as, kind, FALSE)
              ELSE callPc' = "sleep" /\ attempts' = as /\ UNCHANGED callResult

\* websocket: a handshake that fails was never dispatched.
connect ==
    /\ callPc = "connect"
    /\ \/ /\ callPc' = "send" /\ UNCHANGED <<attempts, callResult, recovered>>
       \/ \E s \in Statuses : reject("rejected", s)
       \/ \E k \in {"timeout", "transport"} : reject(k, 0)
    /\ UNCHANGED <<wire, decoder, headerCost, generations, events>>

\* CallState::dispatched, before the request is on the wire.
Dispatched == [attempts EXCEPT ![LastAttempt].dispatched = TRUE]

send ==
    /\ callPc = "send" /\ attempts' = Dispatched /\ callPc' = "stream"
    /\ \E n \in 0..1 : generations' = generations + n
    /\ UNCHANGED <<wire, decoder, recovered, headerCost, callResult, events>>

\* http: the answer is not a success.  The provider generated nothing if the
\* status is a clean one.
http_status ==
    /\ callPc = "stream" /\ wire.transport = "http" /\ events = 0
    /\ \E s \in Statuses, c \in {Unknown, 1} :
        /\ Clean(s) => generations = 0
        /\ reject("rejected", s) /\ headerCost' = c
    /\ UNCHANGED <<wire, decoder, generations, events>>

http_cost ==
    /\ callPc = "stream" /\ wire.transport = "http" /\ events = 0 /\ headerCost = Unknown
    /\ headerCost' \in {1, 2}
    /\ UNCHANGED <<callPc, wire, attempts, decoder, recovered, callResult, generations, events>>

\* The stream ends, times out, grows too large or cannot be read.
broken ==
    /\ callPc = "stream"
    /\ \E k \in {"timeout", "transport", "interrupted", "size", "malformed"} : reject(k, 0)
    /\ UNCHANGED <<wire, decoder, headerCost, generations, events>>

retry_delay ==
    /\ callPc = "sleep" /\ callPc' = "headers"
    /\ UNCHANGED <<wire, attempts, decoder, recovered, headerCost, callResult, generations, events>>

-----------------------------------------------------------------------------
(* Decoder::event *)

Binds(id) == decoder.id \in {0, id}
Seen(d) == [d EXCEPT !.observed = TRUE]
CallId(item) == item \in {"call", "twin"}

\* The terminal response repeats a finished item; only the seal of reasoning
\* may differ.
terminal_item_confirms(done, history, i) ==
    /\ i + 1 <= Len(history)
    /\ \/ history[i + 1] = done
       \/ {history[i + 1], done} = {"reasoning", "resealed"}

\* Every item can be read, and no two proposals share a call_id.
Distinct(h) ==
    /\ "malformed" \notin {h[i] : i \in DOMAIN h}
    /\ \A i, j \in DOMAIN h : CallId(h[i]) /\ CallId(h[j]) => i = j

\* The items streamed, in the order of their indices.
Streamed == IF DOMAIN decoder.items = {0, 1} THEN <<decoder.items[0], decoder.items[1]>>
            ELSE [n \in 1..Cardinality(DOMAIN decoder.items) |->
                    decoder.items[CHOOSE i \in DOMAIN decoder.items : TRUE]]

History(status, output) ==
    IF status = "completed" /\ output = <<>> /\ wire.dialect = "chatgpt" THEN Streamed ELSE output

Accepts(id, h) ==
    /\ Binds(id) /\ Distinct(h)
    /\ \A i \in DOMAIN decoder.items : terminal_item_confirms(decoder.items[i], h, i)

\* An event that is read and is not the last one.
progress ==
    /\ callPc = "stream" /\ events < MaxEvents /\ events' = events + 1
    /\ generations = 1
    /\ \/ \E id \in 1..2 : Binds(id) /\ decoder' = [Seen(decoder) EXCEPT !.id = id]
       \/ decoder' = [Seen(decoder) EXCEPT !.text = TRUE]
       \/ \E i \in Indices \ DOMAIN decoder.items, x \in Items \ {"malformed"} :
            decoder' = [Seen(decoder) EXCEPT !.items =
                [j \in DOMAIN @ \cup {i} |-> IF j = i THEN x ELSE @[j]]]
       \/ decoder' = Seen(decoder)
    /\ UNCHANGED <<callPc, wire, attempts, recovered, headerCost, callResult, generations>>

Usage(reported) == IF reported = "exact" THEN 1 ELSE Unknown

\* response.completed, response.failed or response.incomplete, and the Ok arm
\* of run; a response that is not accepted breaks the attempt.
terminal_event ==
    /\ callPc = "stream" /\ events < MaxEvents /\ events' = events + 1 /\ generations = 1
    /\ \E id \in 1..2, status \in {"completed", "other"}, usage \in {"exact", "absent"},
          cost \in {Unknown, 1}, n \in 0..2 : \E output \in [1..n -> Items] :
        LET h == History(status, output) IN
        IF Accepts(id, h)
        THEN /\ decoder' = [Seen(decoder) EXCEPT !.id = id, !.terminal = TRUE, !.history = h,
                                !.usage = Usage(usage), !.cost = cost]
             /\ attempts' = EndAttempt("received", 0, Usage(usage) = Unknown)
             /\ callPc' = "done" /\ UNCHANGED <<callResult, recovered>>
        ELSE /\ decoder' = [Seen(decoder) EXCEPT !.id = IF Binds(id) THEN id ELSE @]
             /\ reject("malformed", 0)
    /\ UNCHANGED <<wire, headerCost, generations>>

\* The select of respond, and the check after an attempt has returned.
interrupted(kind) ==
    /\ callPc # "done" /\ Failed_(attempts, kind, FALSE)
    /\ UNCHANGED <<wire, decoder, recovered, headerCost, generations, events>>

ProviderNext ==
    \/ attempt \/ connect \/ send \/ http_status \/ http_cost \/ broken \/ retry_delay
    \/ progress \/ terminal_event \/ \E k \in {"cancelled", "timeout"} : interrupted(k)

-----------------------------------------------------------------------------
(* CallOutcome *)

cost_usd ==
    IF headerCost # Unknown /\ decoder.cost # Unknown /\ headerCost # decoder.cost THEN Unknown
    ELSE IF headerCost # Unknown THEN headerCost
    ELSE IF decoder.cost # Unknown THEN decoder.cost
    ELSE IF decoder.terminal /\ decoder.usage # Unknown THEN 1 ELSE Unknown

clean_rejection(status) ==
    /\ callResult.kind # "none" /\ attempts # <<>> /\ attempts[LastAttempt].http = status
    /\ ~decoder.terminal /\ decoder.id = 0 /\ ~decoder.text /\ DOMAIN decoder.items = {}
    /\ \A i \in DOMAIN attempts :
        attempts[i].status = "rejected" /\ attempts[i].http = status /\ ~attempts[i].uncertain

retryable_pre_generation_rejection ==
    /\ ~callResult.auth
    /\ \/ clean_rejection(429) /\ callResult.kind = "rejected"
       \/ clean_rejection(401) /\ callResult.kind \in {"authentication", "rejected"}

NeverDispatched == \A i \in DOMAIN attempts : ~attempts[i].dispatched

accounted_tokens ==
    IF retryable_pre_generation_rejection THEN 0
    ELSE IF \E i \in DOMAIN attempts : attempts[i].uncertain THEN Unknown
    ELSE IF decoder.usage # Unknown THEN decoder.usage
    ELSE IF NeverDispatched THEN 0 ELSE Unknown

accounted_cost ==
    IF cost_usd # Unknown THEN cost_usd
    ELSE IF retryable_pre_generation_rejection \/ NeverDispatched THEN 0 ELSE Unknown

-----------------------------------------------------------------------------
(* Properties *)

\* The receipt never understates a call: the tokens it establishes are the
\* ones generated (an attempt generates 1 here), and it is free only if
\* nothing was generated, whichever attempt was rejected, timed out, broken
\* or cancelled at whatever point.
AccountedExact ==
    callPc = "done" =>
        /\ accounted_tokens \in {Unknown, generations}
        /\ accounted_cost = 0 => generations = 0

\* The provider generates for at most one attempt of a call: nothing that may
\* have been billed is sent again.
GeneratedOnce == generations <= 1

\* A response is never assembled from two attempts: a new attempt starts with
\* an empty decoder although the decoder is shared by all of them.
AttemptStartsFresh ==
    callPc \in {"headers", "connect", "send", "sleep"} => decoder = NoDecoder

\* What was shown as a finished item is in the accepted response at its place,
\* and its proposals can be told apart by their call_id.
ResponseConfirmed ==
    decoder.terminal =>
        /\ \A i \in DOMAIN decoder.items :
            /\ i + 1 <= Len(decoder.history)
            /\ CallId(decoder.items[i]) => decoder.history[i + 1] = decoder.items[i]
        /\ Cardinality({i \in DOMAIN decoder.history : CallId(decoder.history[i])}) <= 1

-----------------------------------------------------------------------------
(***************************************************************************)
(* Shared ChatGPT credentials (harness/src/inference/auth.rs): several     *)
(* Orvek processes and programs that do not know Orvek's lock file share   *)
(* one credential file, and the provider rotates the refresh token with    *)
(* every use.  A token is <<login, version>>: the login it descends from   *)
(* and how often it was refreshed.  An instance serialises its operations  *)
(* with a mutex, so it is in at most one of them.                          *)
(***************************************************************************)
CONSTANTS
    Instances,      \* Orvek processes with an Auth
    Accounts,       \* accounts a login may be for
    Absent,         \* no credential file
    MaxLogins,      \* bound on logins
    MaxRotations,   \* bound on refreshes of one login
    MaxRestarts     \* bound on restarts of processes

ASSUME CredentialsAssumption ==
    {MaxLogins, MaxRotations} \subseteq Nat \ {0} /\ MaxRestarts \in Nat

VARIABLES
    credFile,     \* the file: a token or Absent
    owner,        \* account of each login
    valid,        \* version of each login the provider accepts
    bad,          \* tokens whose access token expired or was rejected
    storeLock,    \* holder of the lock file
    auth,         \* Managed: token held, generation, refresh_uncertain, progress
    presented,    \* refresh tokens each instance sent
    orvekLogin,   \* latest login made through Orvek
    restarts

credVars == <<credFile, owner, valid, bad, storeLock, auth, presented, orvekLogin, restarts>>

Logins == 1..MaxLogins
Tokens == Logins \X (0..MaxRotations)
Unlocked == "free"

ASSUME CredentialValuesAssumption ==
    /\ Accounts # {} /\ Absent \notin Accounts \cup Tokens /\ Unlocked \notin Instances

Fresh(t) == [token |-> t, account |-> owner[t[1]], generation |-> 0, uncertain |-> FALSE,
             pc |-> "idle", answer |-> FALSE]

CredentialsTypeOK ==
    /\ credFile \in Tokens \cup {Absent} /\ owner \in [Logins -> Accounts \cup {Absent}]
    /\ valid \in [Logins -> 0..MaxRotations] /\ bad \subseteq Tokens
    /\ storeLock \in Instances \cup {Unlocked}
    /\ \A i \in Instances :
        /\ auth[i].token \in Tokens /\ auth[i].generation \in Nat
        /\ auth[i].pc \in {"idle", "queued", "sent", "answered", "compared"}
    /\ presented \in [Instances -> SUBSET Tokens]

CredentialsInit ==
    /\ credFile = <<1, 0>> /\ orvekLogin = 1 /\ restarts = 0
    /\ owner = [l \in Logins |-> IF l = 1 THEN CHOOSE a \in Accounts : TRUE ELSE Absent]
    /\ valid = [l \in Logins |-> 0] /\ bad = {} /\ storeLock = Unlocked
    /\ auth = [i \in Instances |-> Fresh(<<1, 0>>)]
    /\ presented = [i \in Instances |-> {}]

Made == {l \in Logins : owner[l] # Absent}
LastLogin == CHOOSE l \in Made : \A m \in Made : m <= l

-----------------------------------------------------------------------------
(* Managed::reload *)

\* The file can be read and is of the account this instance started with.
SameAccount(i) == credFile # Absent /\ owner[credFile[1]] = auth[i].account

Reloaded(i) ==
    IF credFile = auth[i].token THEN auth[i]
    ELSE [auth[i] EXCEPT !.token = credFile, !.generation = @ + 1, !.uncertain = FALSE]

-----------------------------------------------------------------------------
(* Operations of an instance *)

\* headers: reload, and refresh when the access token is about to expire.
headers(i) ==
    /\ auth[i].pc = "idle" /\ SameAccount(i)
    /\ LET m == Reloaded(i) IN
        auth' = [auth EXCEPT ![i] =
            IF ~m.uncertain /\ m.token \in bad THEN [m EXCEPT !.pc = "queued"] ELSE m]
    /\ UNCHANGED <<credFile, owner, valid, bad, storeLock, presented, orvekLogin, restarts>>

\* The rejected credential has been replaced since.
Superseded(m, g) == m.generation # g

\* recover_unauthorized: a provider call was rejected with the credential of
\* generation g.
recover_unauthorized(i, g) ==
    /\ auth[i].pc = "idle" /\ SameAccount(i)
    /\ LET m == Reloaded(i) IN
        /\ g = m.generation => m.token \in bad
        /\ auth' = [auth EXCEPT ![i] =
            IF Superseded(m, g) \/ m.uncertain THEN m ELSE [m EXCEPT !.pc = "queued"]]
    /\ UNCHANGED <<credFile, owner, valid, bad, storeLock, presented, orvekLogin, restarts>>

\* Mutant: the instance is marked only when the answer is missing.
Poisoned_bug(m) == [m EXCEPT !.pc = "sent"]
\* Set before the request is sent, so that a cancellation leaves it set.
Poisoned(m) == [m EXCEPT !.pc = "sent", !.uncertain = TRUE]

Rotate(t) == [valid EXCEPT ![t[1]] = IF @ = t[2] /\ @ < MaxRotations THEN @ + 1 ELSE @]

\* refresh, up to the request: with the lock held the file is read again.
send_refresh(i) ==
    /\ auth[i].pc = "queued" /\ storeLock = Unlocked
    /\ \/ /\ ~SameAccount(i) \/ Reloaded(i) # auth[i]
          /\ auth' = [auth EXCEPT ![i] =
                [(IF SameAccount(i) THEN Reloaded(i) ELSE auth[i]) EXCEPT !.pc = "idle"]]
          /\ UNCHANGED <<storeLock, presented, valid>>
       \/ /\ SameAccount(i) /\ Reloaded(i) = auth[i] /\ auth[i].token[2] < MaxRotations
          /\ storeLock' = i
          /\ presented' = [presented EXCEPT ![i] = @ \cup {auth[i].token}]
          /\ valid' = Rotate(auth[i].token)
          /\ auth' = [auth EXCEPT ![i] =
                [Poisoned(auth[i]) EXCEPT !.answer = valid[auth[i].token[1]] = auth[i].token[2]]]
    /\ UNCHANGED <<credFile, owner, bad, orvekLogin, restarts>>

\* token_request: the tokens arrive, or the request is rejected, times out, is
\* lost or cancelled; so may any later step.
refresh_answered(i) ==
    /\ auth[i].pc = "sent" /\ auth[i].answer
    /\ auth' = [auth EXCEPT ![i].pc = "answered"]
    /\ UNCHANGED <<credFile, owner, valid, bad, storeLock, presented, orvekLogin, restarts>>

give_up(i) ==
    /\ auth[i].pc # "idle" /\ auth' = [auth EXCEPT ![i].pc = "idle"]
    /\ storeLock' = IF storeLock = i THEN Unlocked ELSE storeLock
    /\ UNCHANGED <<credFile, owner, valid, bad, presented, orvekLogin, restarts>>

\* StoreChanged unless the file is still the one that was refreshed.
compare_store(i) ==
    /\ auth[i].pc = "answered" /\ credFile = auth[i].token
    /\ auth' = [auth EXCEPT ![i].pc = "compared"]
    /\ UNCHANGED <<credFile, owner, valid, bad, storeLock, presented, orvekLogin, restarts>>

write_store(i) ==
    /\ auth[i].pc = "compared"
    /\ LET t == <<auth[i].token[1], auth[i].token[2] + 1>> IN
        /\ credFile' = t
        /\ auth' = [auth EXCEPT ![i] = [auth[i] EXCEPT !.pc = "idle", !.token = t,
                        !.generation = @ + 1, !.uncertain = FALSE]]
    /\ storeLock' = Unlocked
    /\ UNCHANGED <<owner, valid, bad, presented, orvekLogin, restarts>>

-----------------------------------------------------------------------------
(* Login, logout and the world outside *)

NewLogin(a) ==
    /\ LastLogin < MaxLogins
    /\ owner' = [owner EXCEPT ![LastLogin + 1] = a] /\ credFile' = <<LastLogin + 1, 0>>

LockAvailable == storeLock = Unlocked

\* ChatGptLogin::exchange
exchange(a) ==
    /\ LockAvailable /\ NewLogin(a) /\ orvekLogin' = LastLogin + 1
    /\ UNCHANGED <<valid, bad, storeLock, auth, presented, restarts>>

logout_chatgpt ==
    /\ LockAvailable /\ credFile # Absent /\ credFile' = Absent
    /\ UNCHANGED <<owner, valid, bad, storeLock, auth, presented, orvekLogin, restarts>>

\* Another program logs in or refreshes, without Orvek's lock.
foreign_login(a) ==
    /\ NewLogin(a)
    /\ UNCHANGED <<valid, bad, storeLock, auth, presented, orvekLogin, restarts>>

foreign_refresh ==
    /\ credFile # Absent /\ credFile[2] = valid[credFile[1]] /\ credFile[2] < MaxRotations
    /\ valid' = Rotate(credFile) /\ credFile' = <<credFile[1], credFile[2] + 1>>
    /\ UNCHANGED <<owner, bad, storeLock, auth, presented, orvekLogin, restarts>>

\* An access token nears its expiry or is rejected by the provider.
access_token_ends(t) ==
    /\ t \notin bad /\ \E i \in Instances : auth[i].token = t
    /\ bad' = bad \cup {t}
    /\ UNCHANGED <<credFile, owner, valid, storeLock, auth, presented, orvekLogin, restarts>>

\* A process ends and another one starts: chatgpt_with_issuer.
restart(i) ==
    /\ restarts < MaxRestarts /\ restarts' = restarts + 1 /\ credFile # Absent
    /\ auth' = [auth EXCEPT ![i] = Fresh(credFile)]
    /\ presented' = [presented EXCEPT ![i] = {}]
    /\ storeLock' = IF storeLock = i THEN Unlocked ELSE storeLock
    /\ UNCHANGED <<credFile, owner, valid, bad, orvekLogin>>

CredentialsNext ==
    \/ \E i \in Instances :
        \/ headers(i) \/ \E g \in 0..auth[i].generation : recover_unauthorized(i, g)
        \/ send_refresh(i) \/ refresh_answered(i) \/ give_up(i)
        \/ compare_store(i) \/ write_store(i) \/ restart(i)
    \/ \E a \in Accounts : exchange(a) \/ foreign_login(a)
    \/ logout_chatgpt \/ foreign_refresh \/ \E t \in Tokens : access_token_ends(t)

-----------------------------------------------------------------------------
(* Properties *)

Sends(i) == auth[i].pc = "queued" /\ auth'[i].pc = "sent"

\* "A lost rotating-token response is never retried": whatever is cancelled,
\* lost or rejected, an instance presents a refresh token once.
PresentedOnce == \A i \in Instances : Sends(i) => auth[i].token \notin presented[i]

\* A refresh is sent only for a credential that expired or was rejected: a late
\* rejection of an earlier generation does not rotate its successor.
RefreshNeeded == \A i \in Instances : Sends(i) => auth[i].token \in bad

\* A login made through Orvek is not undone by the refresh of older credentials
\* that was under way, as both take the lock.
LoginKept == credFile # Absent => credFile[1] >= orvekLogin

\* An instance never works with the credentials of another account than the
\* one it started with, whatever is put into the file meanwhile.
AccountPinned == \A i \in Instances : owner[auth[i].token[1]] = auth[i].account
=============================================================================
