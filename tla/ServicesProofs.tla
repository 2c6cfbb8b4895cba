--------------------------- MODULE ServicesProofs ---------------------------
(***************************************************************************)
(* Proofs about a provider call, the shared credentials and the installer  *)
(* (modules Provider and Installer), and with ReviewProofs about the       *)
(* composition of MCServices, for any number of attempts, events,          *)
(* processes, logins, rotations, restarts, releases and damages.           *)
(*                                                                         *)
(* The credentials: a token that was presented is held only with the mark  *)
(* that its answer is uncertain and comes back into the file only while it *)
(* is held, and the token a refresh is answered with is nobody's yet.  The *)
(* installer: a process that loads or quarantines the review page holds    *)
(* the lock and finds no whole page.  A call: nothing was generated or     *)
(* decoded between attempts, as only a rejection that precedes generation  *)
(* leads to another one.                                                   *)
(***************************************************************************)
EXTENDS MCServices, ReviewProofs, FiniteSetTheorems, SequenceTheorems, TLAPS

-----------------------------------------------------------------------------
(* Shared credentials. *)

AuthSet ==
    [token : Tokens, account : Accounts, generation : Nat, uncertain : BOOLEAN,
     pc : {"idle", "queued", "sent", "answered", "compared"}, answer : BOOLEAN]

CredTypes ==
    /\ credFile \in Tokens \cup {Absent} /\ owner \in [Logins -> Accounts \cup {Absent}]
    /\ valid \in [Logins -> 0..MaxRotations] /\ bad \subseteq Tokens
    /\ storeLock \in Instances \cup {Unlocked}
    /\ auth \in [Instances -> AuthSet] /\ presented \in [Instances -> SUBSET Tokens]
    /\ orvekLogin \in Logins

\* Logins are numbered as they are made.
LoginsInOrder == \E n \in Logins : \A l \in Logins : owner[l] # Absent <=> l <= n

\* A token of a login that was made, of a version the provider has issued.
Issued(t) == owner[t[1]] # Absent /\ t[2] <= valid[t[1]]

FileInv ==
    /\ owner[orvekLogin] # Absent
    /\ credFile # Absent => Issued(credFile) /\ credFile[1] >= orvekLogin

Refreshing == {"sent", "answered", "compared"}

\* The credential an instance holds, and what it relies on while it refreshes.
HeldInv(i) ==
    /\ Issued(auth[i].token) /\ owner[auth[i].token[1]] = auth[i].account
    /\ auth[i].pc \in Refreshing => storeLock = i /\ auth[i].token[2] < MaxRotations
    /\ auth[i].pc \in {"answered", "compared"} => auth[i].answer = TRUE
    /\ auth[i].pc = "compared" => auth[i].token[1] >= orvekLogin
    /\ auth[i].pc = "queued" => auth[i].uncertain = FALSE /\ auth[i].token \in bad

\* A token that was presented comes back into the file only while it is held.
SentInv(i) ==
    /\ \A t \in presented[i] : Issued(t) /\ (credFile = t => auth[i].token = t)
    /\ auth[i].token \in presented[i] => auth[i].uncertain = TRUE

\* The token an instance is about to write is nobody's yet.
Successor(t) == <<t[1], t[2] + 1>>
Unseen(s) == /\ credFile # s
             /\ \A k \in Instances : auth[k].token # s /\ s \notin presented[k]
AnswerInv(i) ==
    auth[i].pc \in Refreshing /\ auth[i].answer = TRUE =>
        /\ valid[auth[i].token[1]] = auth[i].token[2] + 1
        /\ Unseen(Successor(auth[i].token))

CredInv ==
    /\ CredTypes /\ LoginsInOrder /\ FileInv
    /\ \A i \in Instances : HeldInv(i) /\ SentInv(i) /\ AnswerInv(i)

\* A token is a login and a version; the constants of the credentials.
LEMMA TokenFacts ==
    /\ \A t \in Tokens : t = <<t[1], t[2]>> /\ t[1] \in Logins /\ t[2] \in 0..MaxRotations
    /\ \A l \in Logins, v \in 0..MaxRotations :
         <<l, v>> \in Tokens /\ <<l, v>>[1] = l /\ <<l, v>>[2] = v
    /\ MaxRotations \in Nat \ {0} /\ MaxLogins \in Nat \ {0} /\ Logins \subseteq Nat \ {0}
    /\ Absent \notin Tokens /\ Absent \notin Accounts
    /\ Unlocked \notin Instances
BY CredentialsAssumption, CredentialValuesAssumption DEF Tokens, Logins

\* Records of an instance.
LEMMA FreshIs ==
    ASSUME NEW t \in Tokens, owner[t[1]] \in Accounts
    PROVE  /\ Fresh(t) \in AuthSet /\ Fresh(t).token = t /\ Fresh(t).pc = "idle"
           /\ Fresh(t).account = owner[t[1]]
BY DEF Fresh, AuthSet

\* The first login is the only one, every instance holds it and none
\* refreshes it.
LEMMA CredStart == CredentialsInit => CredInv
<1> SUFFICES ASSUME CredentialsInit PROVE CredInv
  OBVIOUS
<1> DEFINE a == CHOOSE x \in Accounts : TRUE
<1>1. a \in Accounts /\ a # Absent
  BY TokenFacts, CredentialValuesAssumption
<1>2. 1 \in Logins /\ 0 \in 0..MaxRotations
  BY TokenFacts DEF Logins
<1>3. PICK t \in Tokens : t = <<1, 0>> /\ t[1] = 1 /\ t[2] = 0
  BY <1>2, TokenFacts
<1>4. /\ owner = [l \in Logins |-> IF l = 1 THEN a ELSE Absent] /\ credFile = t
      /\ orvekLogin = 1 /\ valid = [l \in Logins |-> 0] /\ bad = {}
      /\ storeLock = Unlocked /\ auth = [i \in Instances |-> Fresh(t)]
      /\ presented = [i \in Instances |-> {}]
  BY <1>3 DEF CredentialsInit
<1> HIDE DEF a
<1>5. owner \in [Logins -> Accounts \cup {Absent}] /\ owner[1] = a /\ valid[1] = 0
  BY <1>1, <1>2, <1>4
<1>6. /\ Fresh(t) \in AuthSet /\ Fresh(t).token = t /\ Fresh(t).pc = "idle"
      /\ Fresh(t).account = owner[t[1]]
  BY <1>1, <1>3, <1>5, FreshIs
<1>7. CredTypes
  <2>1. valid \in [Logins -> 0..MaxRotations]
    BY <1>2, <1>4
  <2>2. auth \in [Instances -> AuthSet] /\ presented \in [Instances -> SUBSET Tokens]
    BY <1>4, <1>6
  <2> QED BY <1>2, <1>4, <1>5, <2>1, <2>2 DEF CredTypes
<1>8. LoginsInOrder
  <2>1. \A l \in Logins : owner[l] # Absent <=> l <= 1
    BY <1>1, <1>4, TokenFacts
  <2> QED BY <1>2, <2>1 DEF LoginsInOrder
<1>9. Issued(t)
  BY <1>1, <1>3, <1>5 DEF Issued
<1>10. FileInv
  BY <1>1, <1>3, <1>4, <1>5, <1>9 DEF FileInv
<1>11. ASSUME NEW i \in Instances PROVE HeldInv(i) /\ SentInv(i) /\ AnswerInv(i)
  <2>1. auth[i] = Fresh(t) /\ presented[i] = {}
    BY <1>4
  <2> QED BY <1>6, <1>9, <2>1 DEF HeldInv, SentInv, AnswerInv, Refreshing
<1> QED BY <1>7, <1>8, <1>10, <1>11 DEF CredInv

\* What LastLogin and the next login are.
LEMMA LastIs ==
    ASSUME CredInv
    PROVE  /\ LastLogin \in Logins /\ \A l \in Logins : owner[l] # Absent <=> l <= LastLogin
<1>1. PICK n \in Logins : \A l \in Logins : owner[l] # Absent <=> l <= n
  BY DEF CredInv, LoginsInOrder
<1>2. Logins \subseteq Nat
  BY TokenFacts
<1>3. n \in Made /\ \A m \in Made : m <= n
  BY <1>1, <1>2 DEF Made
<1>4. LastLogin \in Made /\ \A m \in Made : m <= LastLogin
  BY <1>3 DEF LastLogin
<1>5. LastLogin = n
  BY <1>2, <1>3, <1>4 DEF Made
<1> QED BY <1>1, <1>5

\* A step of one instance that reloads or moves on: only its own record changes,
\* and of the lock at most its own hold.
LEMMA OneInstance ==
    ASSUME CredInv, NEW i \in Instances, NEW m \in AuthSet, auth' = [auth EXCEPT ![i] = m],
           UNCHANGED <<credFile, owner, valid, bad, presented, orvekLogin>>,
           storeLock' \in Instances \cup {Unlocked},
           \A k \in Instances \ {i} : storeLock = k => storeLock' = k,
           m.token = auth[i].token \/ (credFile # Absent /\ m.token = credFile),
           owner[m.token[1]] = m.account,
           m.pc \in Refreshing =>
               /\ storeLock' = i /\ m.token = auth[i].token /\ m.answer = auth[i].answer
               /\ auth[i].pc \in Refreshing,
           m.pc \in {"answered", "compared"} => m.answer = TRUE,
           m.pc = "compared" => m.token[1] >= orvekLogin,
           m.pc = "queued" => m.uncertain = FALSE /\ m.token \in bad,
           m.token \in presented[i] => m.uncertain = TRUE,
           \A t \in presented[i] : credFile = t => m.token = t
    PROVE  CredInv'
<1>1. /\ auth'[i] = m /\ \A k \in Instances \ {i} : auth'[k] = auth[k]
      /\ auth' \in [Instances -> AuthSet]
  BY DEF CredInv, CredTypes
<1>2. CredTypes' /\ LoginsInOrder' /\ FileInv'
  BY <1>1 DEF CredInv, CredTypes, LoginsInOrder, FileInv, Issued
<1>3. \A t : Issued(t)' <=> Issued(t)
  BY DEF Issued
<1>4. Issued(m.token)
  BY DEF CredInv, FileInv, HeldInv
<1>5. ASSUME NEW k \in Instances PROVE HeldInv(k)'
  <2>1. CASE k = i
    <3>1. m.pc \in Refreshing => m.token[2] < MaxRotations
      BY DEF CredInv, HeldInv
    <3> QED BY <1>1, <1>3, <1>4, <2>1, <3>1 DEF HeldInv
  <2>2. CASE k # i
    BY <1>1, <1>3, <2>2 DEF CredInv, HeldInv
  <2> QED BY <2>1, <2>2
<1>6. ASSUME NEW k \in Instances PROVE SentInv(k)'
  <2>1. CASE k = i
    BY <1>1, <1>3, <2>1 DEF CredInv, SentInv
  <2>2. CASE k # i
    BY <1>1, <1>3, <2>2 DEF CredInv, SentInv
  <2> QED BY <2>1, <2>2
<1>7. ASSUME NEW k \in Instances PROVE AnswerInv(k)'
  <2> SUFFICES ASSUME auth'[k].pc \in Refreshing, auth'[k].answer = TRUE
               PROVE  AnswerInv(k)'
    BY DEF AnswerInv
  <2>1. /\ auth[k].pc \in Refreshing /\ auth[k].answer = TRUE
        /\ auth'[k].token = auth[k].token
    BY <1>1
  <2>2. PICK s : s = Successor(auth[k].token)
    OBVIOUS
  <2>3. /\ valid[auth[k].token[1]] = auth[k].token[2] + 1
        /\ credFile # s /\ \A h \in Instances : auth[h].token # s /\ s \notin presented[h]
    BY <2>1, <2>2 DEF CredInv, AnswerInv, Unseen
  <2>4. \A h \in Instances : auth'[h].token # s
    BY <1>1, <2>3
  <2> QED BY <2>1, <2>2, <2>3, <2>4 DEF AnswerInv, Unseen, Successor
<1> QED BY <1>2, <1>5, <1>6, <1>7 DEF CredInv

\* The record of an instance that takes another token, from the file or from
\* the provider.
Reread(m, t, g) == [m EXCEPT !.token = t, !.generation = g, !.uncertain = FALSE]
Renewed(m, t, g) ==
    [m EXCEPT !.pc = "idle", !.token = t, !.generation = g, !.uncertain = FALSE]

\* What an instance holds after it read another token from the file.
LEMMA RereadFacts ==
    ASSUME NEW m \in AuthSet, NEW t \in Tokens, NEW g \in Nat
    PROVE  /\ Reread(m, t, g) \in AuthSet /\ Reread(m, t, g).token = t
           /\ Reread(m, t, g).pc = m.pc /\ Reread(m, t, g).answer = m.answer
           /\ Reread(m, t, g).account = m.account
           /\ Reread(m, t, g).uncertain = FALSE
<1>1. ASSUME NEW u \in BOOLEAN
      PROVE  LET r == [m EXCEPT !.token = t, !.generation = g, !.uncertain = u]
             IN  /\ r \in AuthSet /\ r.token = t /\ r.pc = m.pc /\ r.answer = m.answer
                 /\ r.account = m.account /\ r.uncertain = u
  BY DEF AuthSet
<1> QED BY <1>1, Zenon DEF Reread

\* What an instance holds after it wrote the token it was given.
LEMMA RenewedFacts ==
    \A m \in AuthSet, t \in Tokens, g \in Nat :
        /\ Renewed(m, t, g) \in AuthSet /\ Renewed(m, t, g).token = t
        /\ Renewed(m, t, g).pc = "idle" /\ Renewed(m, t, g).account = m.account
<1> TAKE m \in AuthSet, t \in Tokens, g \in Nat
<1>1. ASSUME NEW u \in BOOLEAN
      PROVE  LET r == [m EXCEPT !.pc = "idle", !.token = t, !.generation = g, !.uncertain = u]
             IN  /\ r \in AuthSet /\ r.token = t /\ r.pc = "idle" /\ r.answer = m.answer
                 /\ r.account = m.account /\ r.uncertain = u
  BY DEF AuthSet
<1> QED BY <1>1, Zenon DEF Renewed

\* Managed::reload: the instance holds the token of the file, and is uncertain
\* only if it was and the file has not changed.
LEMMA ReloadFacts ==
    ASSUME CredInv, NEW i \in Instances, SameAccount(i)
    PROVE  /\ Reloaded(i) \in AuthSet /\ credFile # Absent /\ Reloaded(i).token = credFile
           /\ owner[credFile[1]] = Reloaded(i).account
           /\ Reloaded(i).pc = auth[i].pc /\ Reloaded(i).answer = auth[i].answer
           /\ credFile \in presented[i] => Reloaded(i).uncertain = TRUE
<1>1. auth[i] \in AuthSet /\ credFile \in Tokens /\ credFile # Absent
  BY DEF CredInv, CredTypes, SameAccount
<1>2. owner[credFile[1]] = auth[i].account
  BY DEF SameAccount
<1>3. SentInv(i)
  BY DEF CredInv
<1>4. CASE credFile = auth[i].token
  BY <1>1, <1>2, <1>3, <1>4 DEF Reloaded, SentInv
<1>5. CASE credFile # auth[i].token
  <2>1. credFile \notin presented[i]
    BY <1>3, <1>5 DEF SentInv
  <2>2. /\ Reloaded(i) = Reread(auth[i], credFile, auth[i].generation + 1)
        /\ auth[i].generation + 1 \in Nat
    BY <1>1, <1>5 DEF Reloaded, Reread, AuthSet
  <2>6. /\ Reloaded(i) \in AuthSet /\ Reloaded(i).token = credFile
        /\ Reloaded(i).pc = auth[i].pc /\ Reloaded(i).answer = auth[i].answer
        /\ Reloaded(i).account = auth[i].account
    <3>1. \A m \in AuthSet, t \in Tokens, g \in Nat :
             /\ Reread(m, t, g) \in AuthSet /\ Reread(m, t, g).token = t
             /\ Reread(m, t, g).pc = m.pc /\ Reread(m, t, g).answer = m.answer
             /\ Reread(m, t, g).account = m.account
      BY RereadFacts
    <3>2. PICK g \in Nat : g = auth[i].generation + 1
      BY <2>2
    <3>3. PICK m \in AuthSet : m = auth[i]
      BY <1>1
    <3>4. Reloaded(i) = Reread(m, credFile, g)
      BY <2>2, <3>2, <3>3
    <3>5. /\ Reread(m, credFile, g) \in AuthSet /\ Reread(m, credFile, g).token = credFile
          /\ Reread(m, credFile, g).pc = m.pc /\ Reread(m, credFile, g).answer = m.answer
          /\ Reread(m, credFile, g).account = m.account
      BY <1>1, <3>1
    <3> QED BY <3>3, <3>4, <3>5
  <2> QED BY <1>1, <1>2, <2>1, <2>6
<1> QED BY <1>4, <1>5

\* The record of an instance that is somewhere else.
Moved(m, p) == [m EXCEPT !.pc = p]

\* An instance that goes on keeps everything but its place.
LEMMA MovedFacts ==
    ASSUME NEW m \in AuthSet, NEW p \in {"idle", "queued", "sent", "answered", "compared"}
    PROVE  /\ Moved(m, p) \in AuthSet /\ Moved(m, p).pc = p
           /\ Moved(m, p).token = m.token /\ Moved(m, p).account = m.account
           /\ Moved(m, p).uncertain = m.uncertain /\ Moved(m, p).answer = m.answer
           /\ Moved(m, p).generation = m.generation
BY DEF AuthSet, Moved

\* headers and recover_unauthorized reload, and queue a refresh of a credential
\* that is bad and was not presented.
LEMMA QueueStep ==
    ASSUME CredInv, NEW i \in Instances,
           headers(i) \/ \E g \in 0..auth[i].generation : recover_unauthorized(i, g)
    PROVE  CredInv'
<1>1. /\ auth[i].pc = "idle" /\ SameAccount(i)
      /\ UNCHANGED <<credFile, owner, valid, bad, storeLock, presented, orvekLogin>>
  BY DEF headers, recover_unauthorized
<1>2. PICK r \in AuthSet : r = Reloaded(i)
  BY <1>1, ReloadFacts
<1>3. \/ auth' = [auth EXCEPT ![i] = r]
      \/ ~r.uncertain /\ r.token \in bad /\ auth' = [auth EXCEPT ![i] = Moved(r, "queued")]
  BY <1>2 DEF headers, recover_unauthorized, Superseded, Moved
<1>4. PICK m \in AuthSet :
        /\ auth' = [auth EXCEPT ![i] = m] /\ m.token = r.token /\ m.account = r.account
        /\ m.uncertain = r.uncertain /\ m.pc \in {"idle", "queued"}
        /\ m.pc = "queued" => ~r.uncertain /\ r.token \in bad
  <2>1. CASE auth' = [auth EXCEPT ![i] = r]
    BY <1>1, <1>2, <2>1, ReloadFacts
  <2>2. CASE ~r.uncertain /\ r.token \in bad /\ auth' = [auth EXCEPT ![i] = Moved(r, "queued")]
    BY <2>2, MovedFacts
  <2> QED BY <1>3, <2>1, <2>2
<1>5. /\ credFile # Absent /\ m.token = credFile /\ owner[m.token[1]] = m.account
      /\ m.token \in presented[i] => m.uncertain = TRUE
  BY <1>1, <1>2, <1>4, ReloadFacts
<1>6. m.pc = "queued" => m.uncertain = FALSE /\ m.token \in bad
  BY <1>4 DEF AuthSet
<1>7. m.pc \notin Refreshing
  BY <1>4 DEF Refreshing
<1>8. storeLock' \in Instances \cup {Unlocked} /\ storeLock' = storeLock
  BY <1>1 DEF CredInv, CredTypes
<1> QED BY <1>1, <1>4, <1>5, <1>6, <1>7, <1>8, OneInstance DEF Refreshing

\* refresh that finds the file changed takes what is there; otherwise it holds
\* the lock, and the token it presents is one it has not presented before.
LEMMA RefreshStep ==
    ASSUME CredInv, NEW i \in Instances, send_refresh(i)
    PROVE  CredInv'
<1>1. /\ auth[i].pc = "queued" /\ storeLock = Unlocked
      /\ UNCHANGED <<credFile, owner, bad, orvekLogin>>
  BY DEF send_refresh
<1>2. auth[i] \in AuthSet /\ HeldInv(i) /\ SentInv(i)
  BY DEF CredInv, CredTypes
<1>3. CASE /\ ~SameAccount(i) \/ Reloaded(i) # auth[i]
           /\ auth' = [auth EXCEPT ![i] =
                 [(IF SameAccount(i) THEN Reloaded(i) ELSE auth[i]) EXCEPT !.pc = "idle"]]
           /\ UNCHANGED <<storeLock, presented, valid>>
  <2>1. PICK r \in AuthSet :
           /\ r = IF SameAccount(i) THEN Reloaded(i) ELSE auth[i]
           /\ r.token = auth[i].token \/ (credFile # Absent /\ r.token = credFile)
           /\ owner[r.token[1]] = r.account
           /\ r.token \in presented[i] => r.uncertain = TRUE
           /\ \A t \in presented[i] : credFile = t => r.token = t
    <3>1. CASE SameAccount(i)
      BY <3>1, <1>2, ReloadFacts
    <3>2. CASE ~SameAccount(i)
      BY <3>2, <1>2 DEF HeldInv, SentInv
    <3> QED BY <3>1, <3>2
  <2>2. PICK m \in AuthSet :
           /\ m = Moved(r, "idle") /\ m.pc = "idle" /\ m.token = r.token
           /\ m.account = r.account /\ m.uncertain = r.uncertain
    BY MovedFacts
  <2>3. auth' = [auth EXCEPT ![i] = m]
    BY <1>3, <2>1, <2>2 DEF Moved
  <2>4. storeLock' \in Instances \cup {Unlocked} /\ storeLock' = storeLock
    BY <1>3 DEF CredInv, CredTypes
  <2>5. /\ \A k \in Instances \ {i} : storeLock = k => storeLock' = k
        /\ m.pc \notin Refreshing /\ m.pc # "queued" /\ m.pc \notin {"answered", "compared"}
        /\ UNCHANGED <<credFile, owner, valid, bad, presented, orvekLogin>>
    BY <1>1, <1>3, <2>2, <2>4 DEF Refreshing
  <2>6. /\ m.token = auth[i].token \/ (credFile # Absent /\ m.token = credFile)
        /\ owner[m.token[1]] = m.account
        /\ \A t \in presented[i] : credFile = t => m.token = t
    BY <2>1, <2>2
  <2>7. m.token \in presented[i] => m.uncertain = TRUE
    BY <2>1, <2>2, Zenon
  <2> HIDE <2>1, <2>2
  <2> QED BY <2>3, <2>4, <2>5, <2>6, <2>7, OneInstance
<1>4. CASE /\ SameAccount(i) /\ Reloaded(i) = auth[i] /\ auth[i].token[2] < MaxRotations
           /\ storeLock' = i
           /\ presented' = [presented EXCEPT ![i] = @ \cup {auth[i].token}]
           /\ valid' = Rotate(auth[i].token)
           /\ auth' = [auth EXCEPT ![i] =
                 [Poisoned(auth[i]) EXCEPT !.answer = valid[auth[i].token[1]] = auth[i].token[2]]]
  <2>1. PICK t \in Tokens, l \in Logins, v \in 0..MaxRotations :
           t = auth[i].token /\ l = t[1] /\ v = t[2] /\ t = <<l, v>> /\ v < MaxRotations
    BY <1>2, <1>4, TokenFacts DEF AuthSet
  <2>2. credFile = t /\ t \notin presented[i]
    <3>1. Reloaded(i).token = credFile
      BY <1>4, ReloadFacts
    <3>2. auth[i].uncertain = FALSE
      BY <1>1, <1>2 DEF HeldInv
    <3> QED BY <1>2, <1>4, <2>1, <3>1, <3>2 DEF SentInv
  <2>3. /\ valid \in [Logins -> 0..MaxRotations] /\ MaxRotations \in Nat
        /\ Issued(t)
    BY <1>2, <2>1, TokenFacts DEF CredInv, CredTypes, HeldInv
  <2>4. /\ valid' \in [Logins -> 0..MaxRotations]
        /\ \A h \in Logins : h # l => valid'[h] = valid[h]
        /\ valid[l] <= valid'[l] /\ (valid[l] = v => valid'[l] = v + 1)
    <3>1. valid' = [valid EXCEPT ![l] = IF valid[l] = v /\ valid[l] < MaxRotations
                                       THEN valid[l] + 1 ELSE valid[l]]
      BY <1>4, <2>1 DEF Rotate
    <3> QED BY <3>1, <2>1, <2>3
  <2>5. PICK m \in AuthSet :
           /\ auth' = [auth EXCEPT ![i] = m] /\ m.token = t /\ m.account = auth[i].account
           /\ m.pc = "sent" /\ m.uncertain = TRUE
           /\ m.answer = TRUE => valid[l] = v
    <3>1. PICK u \in BOOLEAN : u = (valid[l] = v)
      OBVIOUS
    <3>2. ASSUME NEW a \in AuthSet, NEW w \in BOOLEAN, NEW n \in BOOLEAN
          PROVE  LET m == [[a EXCEPT !.pc = "sent", !.uncertain = w] EXCEPT !.answer = n]
                 IN  /\ m \in AuthSet /\ m.token = a.token /\ m.account = a.account
                     /\ m.pc = "sent" /\ m.uncertain = w /\ m.answer = n
      BY DEF AuthSet
    <3>3. LET m == [[auth[i] EXCEPT !.pc = "sent", !.uncertain = TRUE] EXCEPT !.answer = u]
          IN  /\ m \in AuthSet /\ m.token = auth[i].token /\ m.account = auth[i].account
              /\ m.pc = "sent" /\ m.uncertain = TRUE /\ m.answer = u
      BY <3>2, <1>2, Zenon
    <3>4. auth' = [auth EXCEPT ![i] =
                [[auth[i] EXCEPT !.pc = "sent", !.uncertain = TRUE] EXCEPT !.answer = u]]
      BY <1>4, <2>1, <3>1, Zenon DEF Poisoned
    <3>5. u = TRUE => valid[l] = v
      BY <3>1, Zenon
    <3> QED BY <2>1, <3>3, <3>4, <3>5
  <2>6. /\ auth'[i] = m /\ \A k \in Instances \ {i} : auth'[k] = auth[k]
        /\ auth' \in [Instances -> AuthSet]
        /\ presented' \in [Instances -> SUBSET Tokens]
        /\ presented'[i] = presented[i] \cup {t}
        /\ \A k \in Instances \ {i} : presented'[k] = presented[k]
    BY <1>4, <2>1, <2>5 DEF CredInv, CredTypes
  <2>7. \A s \in Tokens : Issued(s) => Issued(s)'
    <3> SUFFICES ASSUME NEW s \in Tokens, Issued(s) PROVE Issued(s)'
      OBVIOUS
    <3>1. s[1] \in Logins /\ s[2] \in 0..MaxRotations /\ valid[s[1]] \in Nat /\ valid'[s[1]] \in Nat
      BY <2>3, <2>4, TokenFacts
    <3>2. valid[s[1]] <= valid'[s[1]]
      BY <2>4, <3>1
    <3> QED BY <1>1, <2>3, <3>1, <3>2 DEF Issued
  <2>8. \A k \in Instances : auth[k].pc \notin Refreshing
    BY <1>1, TokenFacts DEF CredInv, HeldInv
  <2>9. /\ \A k \in Instances : auth[k].token \in Tokens /\ Issued(auth[k].token)
        /\ \A k \in Instances : \A s \in presented[k] : s \in Tokens /\ Issued(s)
    BY DEF CredInv, CredTypes, AuthSet, HeldInv, SentInv
  <2>10. CredTypes' /\ LoginsInOrder' /\ FileInv'
    <3>1. CredTypes' /\ LoginsInOrder'
      BY <1>1, <1>4, <2>4, <2>6 DEF CredInv, CredTypes, LoginsInOrder
    <3> QED BY <1>1, <2>2, <2>3, <2>7, <3>1 DEF CredInv, FileInv
  <2>11. ASSUME NEW k \in Instances PROVE HeldInv(k)'
    <3>1. CASE k = i
      <4>1. Issued(t)' /\ owner'[t[1]] = m.account
        BY <1>1, <1>2, <2>1, <2>3, <2>5, <2>7 DEF HeldInv
      <4>2. storeLock' = i /\ t[2] < MaxRotations
        BY <1>4, <2>1
      <4> QED BY <2>5, <2>6, <3>1, <4>1, <4>2 DEF HeldInv, Issued
    <3>2. CASE k # i
      <4>1. HeldInv(k) /\ auth'[k] = auth[k] /\ Issued(auth[k].token)'
        BY <2>6, <2>7, <2>9, <3>2 DEF CredInv
      <4> QED BY <1>1, <2>8, <4>1 DEF HeldInv, Refreshing
    <3> QED BY <3>1, <3>2
  <2>12. ASSUME NEW k \in Instances PROVE SentInv(k)'
    <3>1. SentInv(k)
      BY DEF CredInv
    <3>2. CASE k = i
      BY <1>1, <2>2, <2>3, <2>5, <2>6, <2>7, <2>9, <3>1, <3>2 DEF SentInv
    <3>3. CASE k # i
      BY <1>1, <2>6, <2>7, <2>9, <3>1, <3>3 DEF SentInv
    <3> QED BY <3>2, <3>3
  <2>13. ASSUME NEW k \in Instances PROVE AnswerInv(k)'
    <3>1. CASE k # i
      BY <2>6, <2>8, <3>1 DEF AnswerInv
    <3>2. CASE k = i
      <4> SUFFICES ASSUME m.answer = TRUE PROVE AnswerInv(k)'
        BY <2>6, <3>2 DEF AnswerInv
      <4>1. valid[l] = v /\ valid'[l] = v + 1
        BY <2>4, <2>5
      <4>2. PICK s : s = <<l, v + 1>> /\ s[1] = l /\ s[2] = v + 1
        <5>1. <<l, v + 1>>[1] = l /\ <<l, v + 1>>[2] = v + 1
          OBVIOUS
        <5> QED BY <5>1, Zenon
      <4>3. \A x \in Tokens : Issued(x) => x # s
        BY <2>3, <4>1, <4>2, TokenFacts DEF Issued
      <4>4. credFile' # s
        BY <1>1, <2>1, <2>2, <2>3, <4>3
      <4>5. \A h \in Instances : auth'[h].token # s /\ s \notin presented'[h]
        <5> TAKE h \in Instances
        <5>1. CASE h = i
          BY <2>3, <2>5, <2>6, <2>9, <4>3, <5>1
        <5>2. CASE h # i
          BY <2>6, <2>9, <4>3, <5>2
        <5> QED BY <5>1, <5>2
      <4>6. Unseen(s)'
        BY <4>4, <4>5 DEF Unseen
      <4>7. auth'[k].token = t /\ Successor(t) = s
        BY <2>1, <2>5, <2>6, <3>2, <4>2 DEF Successor
      <4> QED BY <2>1, <4>1, <4>6, <4>7 DEF AnswerInv, Unseen, Successor
    <3> QED BY <3>1, <3>2
  <2> QED BY <2>10, <2>11, <2>12, <2>13 DEF CredInv
<1> QED BY <1>3, <1>4 DEF send_refresh

\* An answer arrives, the file is compared, or the refresh is given up.
LEMMA MoveStep ==
    ASSUME CredInv, NEW i \in Instances,
           refresh_answered(i) \/ give_up(i) \/ compare_store(i)
    PROVE  CredInv'
<1>1. /\ auth[i] \in AuthSet /\ HeldInv(i) /\ SentInv(i) /\ FileInv
      /\ storeLock \in Instances \cup {Unlocked}
  BY DEF CredInv, CredTypes
<1>2. PICK p \in {"idle", "answered", "compared"} :
      /\ auth' = [auth EXCEPT ![i] = Moved(auth[i], p)]
      /\ p \in {"answered", "compared"} =>
            /\ auth[i].pc \in {"sent", "answered"} /\ storeLock' = storeLock /\ auth[i].answer = TRUE
      /\ p = "compared" => credFile = auth[i].token
      /\ storeLock' \in {storeLock, Unlocked} /\ (storeLock' # storeLock => storeLock = i)
      /\ UNCHANGED <<credFile, owner, valid, bad, presented, orvekLogin>>
  <2>1. CASE refresh_answered(i)
    <3>1. auth[i].answer = TRUE
      BY <1>1, <2>1 DEF refresh_answered, AuthSet
    <3>2. auth' = [auth EXCEPT ![i] = Moved(auth[i], "answered")]
      BY <2>1 DEF refresh_answered, Moved
    <3> QED BY <2>1, <3>1, <3>2 DEF refresh_answered
  <2>2. CASE give_up(i)
    <3>1. auth' = [auth EXCEPT ![i] = Moved(auth[i], "idle")]
      BY <2>2 DEF give_up, Moved
    <3> QED BY <2>2, <3>1 DEF give_up
  <2>3. CASE compare_store(i)
    <3>1. auth[i].answer = TRUE
      BY <1>1, <2>3 DEF compare_store, HeldInv
    <3>2. auth' = [auth EXCEPT ![i] = Moved(auth[i], "compared")]
      BY <2>3 DEF compare_store, Moved
    <3> QED BY <2>3, <3>1, <3>2 DEF compare_store
  <2> QED BY <2>1, <2>2, <2>3
<1>3. PICK m \in AuthSet :
         /\ m = Moved(auth[i], p) /\ m.pc = p /\ m.token = auth[i].token
         /\ m.account = auth[i].account /\ m.uncertain = auth[i].uncertain
         /\ m.answer = auth[i].answer
  <2>1. p \in {"idle", "queued", "sent", "answered", "compared"}
    BY <1>2
  <2> QED BY <1>1, <2>1, MovedFacts
<1>4. /\ storeLock' \in Instances \cup {Unlocked}
      /\ \A k \in Instances \ {i} : storeLock = k => storeLock' = k
  BY <1>1, <1>2
<1>5. /\ auth' = [auth EXCEPT ![i] = m] /\ m.token = auth[i].token
      /\ UNCHANGED <<credFile, owner, valid, bad, presented, orvekLogin>>
      /\ owner[m.token[1]] = m.account /\ m.pc # "queued"
  BY <1>1, <1>2, <1>3 DEF HeldInv
<1>6. m.pc \in Refreshing =>
         /\ storeLock' = i /\ m.answer = auth[i].answer /\ auth[i].pc \in Refreshing
  BY <1>1, <1>2, <1>3 DEF HeldInv, Refreshing
<1>7. m.pc \in {"answered", "compared"} => m.answer = TRUE
  BY <1>2, <1>3
<1>8. m.pc = "compared" => m.token[1] >= orvekLogin
  <2>1. SUFFICES ASSUME m.pc = "compared" PROVE m.token[1] >= orvekLogin
    OBVIOUS
  <2>2. credFile = m.token /\ credFile \in Tokens
    BY <1>1, <1>2, <1>3, <2>1 DEF AuthSet
  <2> QED BY <1>1, <2>2, TokenFacts DEF FileInv
<1>9. /\ m.token \in presented[i] => m.uncertain = TRUE
      /\ \A t \in presented[i] : credFile = t => m.token = t
  BY <1>1, <1>3, Zenon DEF SentInv
<1> HIDE <1>1, <1>2, <1>3
<1> QED BY <1>4, <1>5, <1>6, <1>7, <1>8, <1>9, OneInstance

\* The refreshed credential is written over the one it was made from.
LEMMA WriteStep ==
    ASSUME CredInv, NEW i \in Instances, write_store(i)
    PROVE  CredInv'
<1>1. /\ auth[i].pc = "compared" /\ storeLock' = Unlocked
      /\ UNCHANGED <<owner, valid, bad, presented, orvekLogin>>
  BY DEF write_store
<1>2. auth[i] \in AuthSet /\ HeldInv(i) /\ AnswerInv(i)
  BY DEF CredInv, CredTypes
<1>3. PICK o \in Tokens, l \in Logins, v \in 0..MaxRotations :
         o = auth[i].token /\ l = o[1] /\ v = o[2] /\ o = <<l, v>> /\ v < MaxRotations
  BY <1>1, <1>2, TokenFacts DEF AuthSet, HeldInv, Refreshing
<1>4. v + 1 \in 0..MaxRotations
  BY <1>3, TokenFacts
<1>5. PICK t \in Tokens : t = <<l, v + 1>> /\ t[1] = l /\ t[2] = v + 1
  <2>1. <<l, v + 1>> \in Tokens /\ <<l, v + 1>>[1] = l /\ <<l, v + 1>>[2] = v + 1
    BY <1>4, TokenFacts
  <2> QED BY <2>1, Zenon
<1>6. /\ valid[l] = v + 1 /\ Unseen(t) /\ storeLock = i /\ l >= orvekLogin
      /\ owner[l] # Absent /\ owner[l] = auth[i].account
  <2>1. Successor(o) = t
    BY <1>3, <1>5 DEF Successor
  <2>2. auth[i].pc \in Refreshing /\ auth[i].answer = TRUE
    BY <1>1, <1>2 DEF HeldInv, Refreshing
  <2> QED BY <1>1, <1>2, <1>3, <2>1, <2>2 DEF HeldInv, AnswerInv, Issued
<1>7. Issued(t)
  BY <1>5, <1>6, <1>4, TokenFacts DEF Issued
<1>8. PICK m \in AuthSet :
         /\ auth' = [auth EXCEPT ![i] = m] /\ m.token = t /\ m.pc = "idle"
         /\ m.account = auth[i].account
  <2>1. PICK g \in Nat : g = auth[i].generation + 1
    BY <1>2 DEF AuthSet
  <2>2. auth' = [auth EXCEPT ![i] = Renewed(auth[i], t, g)]
    <3>1. t = <<auth[i].token[1], auth[i].token[2] + 1>>
      BY <1>3, <1>5
    <3>2. auth' = [auth EXCEPT ![i] = [auth[i] EXCEPT !.pc = "idle", !.token = t,
                        !.generation = auth[i].generation + 1, !.uncertain = FALSE]]
      BY <3>1 DEF write_store
    <3> QED BY <2>1, <3>2 DEF Renewed
  <2>3. /\ Renewed(auth[i], t, g) \in AuthSet /\ Renewed(auth[i], t, g).token = t
        /\ Renewed(auth[i], t, g).pc = "idle"
        /\ Renewed(auth[i], t, g).account = auth[i].account
    <3>1. PICK a \in AuthSet : a = auth[i]
      BY <1>2
    <3>2. /\ Renewed(a, t, g) \in AuthSet /\ Renewed(a, t, g).token = t
          /\ Renewed(a, t, g).pc = "idle" /\ Renewed(a, t, g).account = a.account
      <4> HIDE <1>5, <2>1, <3>1
      <4> QED BY RenewedFacts
    <3> QED BY <3>1, <3>2
  <2> QED BY <2>2, <2>3
<1>9. /\ auth'[i] = m /\ \A k \in Instances \ {i} : auth'[k] = auth[k]
      /\ auth' \in [Instances -> AuthSet]
  BY <1>8 DEF CredInv, CredTypes
<1>10. credFile' = t
  BY <1>3, <1>5 DEF write_store
<1>11. \A s : Issued(s)' <=> Issued(s)
  BY <1>1 DEF Issued
<1>12. \A k \in Instances \ {i} : auth[k].pc \notin Refreshing
  BY <1>6 DEF CredInv, HeldInv
<1>13. CredTypes' /\ LoginsInOrder' /\ FileInv'
  <2>1. CredTypes' /\ LoginsInOrder'
    BY <1>1, <1>9, <1>10 DEF CredInv, CredTypes, LoginsInOrder
  <2> QED BY <1>1, <1>5, <1>6, <1>7, <1>10, <1>11, <2>1 DEF CredInv, FileInv
<1>14. ASSUME NEW k \in Instances PROVE HeldInv(k)'
  <2>1. CASE k = i
    BY <1>1, <1>5, <1>6, <1>7, <1>8, <1>9, <1>11, <2>1 DEF HeldInv, Refreshing
  <2>2. CASE k # i
    BY <1>1, <1>9, <1>11, <1>12, <2>2 DEF CredInv, HeldInv, Refreshing
  <2> QED BY <2>1, <2>2
<1>15. ASSUME NEW k \in Instances PROVE SentInv(k)'
  <2>1. SentInv(k) /\ t \notin presented[k]
    BY <1>6 DEF CredInv, Unseen
  <2>2. CASE k = i
    BY <1>1, <1>8, <1>9, <1>10, <1>11, <2>1, <2>2 DEF SentInv
  <2>3. CASE k # i
    BY <1>1, <1>9, <1>10, <1>11, <2>1, <2>3 DEF SentInv
  <2> QED BY <2>2, <2>3
<1>16. ASSUME NEW k \in Instances PROVE AnswerInv(k)'
  BY <1>8, <1>9, <1>12 DEF AnswerInv, Refreshing
<1> QED BY <1>13, <1>14, <1>15, <1>16 DEF CredInv

\* A process that starts holds what is in the file, and has presented nothing.
LEMMA RestartStep ==
    ASSUME CredInv, NEW i \in Instances, restart(i)
    PROVE  CredInv'
<1>1. /\ credFile # Absent /\ auth' = [auth EXCEPT ![i] = Fresh(credFile)]
      /\ presented' = [presented EXCEPT ![i] = {}]
      /\ storeLock' = IF storeLock = i THEN Unlocked ELSE storeLock
      /\ UNCHANGED <<credFile, owner, valid, bad, orvekLogin>>
  BY DEF restart
<1>2. credFile \in Tokens /\ Issued(credFile) /\ owner[credFile[1]] \in Accounts
  <2>1. credFile \in Tokens /\ Issued(credFile)
    BY <1>1 DEF CredInv, CredTypes, FileInv
  <2>2. credFile[1] \in Logins
    BY <2>1, TokenFacts
  <2> QED BY <2>1, <2>2 DEF CredInv, CredTypes, Issued
<1>3. PICK m \in AuthSet :
         /\ auth' = [auth EXCEPT ![i] = m] /\ m.token = credFile /\ m.pc = "idle"
         /\ m.account = owner[credFile[1]]
  BY <1>1, <1>2, FreshIs
<1>4. /\ auth'[i] = m /\ \A k \in Instances \ {i} : auth'[k] = auth[k]
      /\ auth' \in [Instances -> AuthSet]
      /\ presented' \in [Instances -> SUBSET Tokens] /\ presented'[i] = {}
      /\ \A k \in Instances \ {i} : presented'[k] = presented[k]
  BY <1>1, <1>3 DEF CredInv, CredTypes
<1>5. \A s : Issued(s)' <=> Issued(s)
  BY <1>1 DEF Issued
<1>6. CredTypes' /\ LoginsInOrder' /\ FileInv'
  <2>1. storeLock' \in Instances \cup {Unlocked}
    BY <1>1 DEF CredInv, CredTypes
  <2>2. CredTypes' /\ LoginsInOrder'
    BY <1>1, <1>4, <2>1 DEF CredInv, CredTypes, LoginsInOrder
  <2> QED BY <1>1, <1>5, <2>2 DEF CredInv, FileInv
<1>7. ASSUME NEW k \in Instances PROVE HeldInv(k)'
  <2>1. CASE k = i
    BY <1>1, <1>2, <1>3, <1>4, <1>5, <2>1 DEF HeldInv, Refreshing
  <2>2. CASE k # i
    BY <1>1, <1>4, <1>5, <2>2 DEF CredInv, HeldInv
  <2> QED BY <2>1, <2>2
<1>8. ASSUME NEW k \in Instances PROVE SentInv(k)'
  <2>1. CASE k = i
    BY <1>4, <2>1 DEF SentInv
  <2>2. CASE k # i
    BY <1>1, <1>4, <1>5, <2>2 DEF CredInv, SentInv
  <2> QED BY <2>1, <2>2
<1>9. ASSUME NEW k \in Instances PROVE AnswerInv(k)'
  <2>1. CASE k = i
    BY <1>3, <1>4, <2>1 DEF AnswerInv, Refreshing
  <2>2. CASE k # i
    <3> SUFFICES ASSUME auth[k].pc \in Refreshing, auth[k].answer = TRUE
                 PROVE  AnswerInv(k)'
      BY <1>4, <2>2 DEF AnswerInv
    <3>1. PICK s : s = Successor(auth[k].token)
      OBVIOUS
    <3>2. /\ valid[auth[k].token[1]] = auth[k].token[2] + 1
          /\ credFile # s /\ \A h \in Instances : auth[h].token # s /\ s \notin presented[h]
      BY <3>1 DEF CredInv, AnswerInv, Unseen
    <3>3. \A h \in Instances : auth'[h].token # s /\ s \notin presented'[h]
      BY <1>3, <1>4, <3>2
    <3> QED BY <1>1, <1>4, <2>2, <3>1, <3>2, <3>3 DEF AnswerInv, Unseen, Successor
  <2> QED BY <2>1, <2>2
<1> QED BY <1>6, <1>7, <1>8, <1>9 DEF CredInv

\* A step that leaves every instance alone: logins, and what other programs do.
LEMMA WorldStep ==
    ASSUME CredInv, UNCHANGED <<storeLock, auth, presented>>,
           CredTypes', LoginsInOrder', FileInv', bad \subseteq bad',
           \A t \in Tokens : Issued(t) => Issued(t)',
           \A l \in Logins : owner[l] # Absent => owner'[l] = owner[l],
           orvekLogin' = orvekLogin \/ storeLock = Unlocked,
           \A k \in Instances : \A t \in presented[k] : credFile' = t => auth[k].token = t,
           \A k \in Instances : auth[k].pc \in Refreshing /\ auth[k].answer = TRUE =>
               /\ valid'[auth[k].token[1]] = valid[auth[k].token[1]]
               /\ credFile' # Successor(auth[k].token)
    PROVE  CredInv'
<1>1. ASSUME NEW k \in Instances PROVE HeldInv(k)'
  <2>1. HeldInv(k) /\ auth'[k] = auth[k] /\ auth[k].token \in Tokens /\ auth[k].token[1] \in Logins
    BY TokenFacts DEF CredInv, CredTypes, AuthSet
  <2>2. Issued(auth[k].token)' /\ owner'[auth[k].token[1]] = auth[k].account
    BY <2>1 DEF HeldInv, Issued
  <2>3. auth[k].pc = "compared" => orvekLogin' = orvekLogin
    BY <2>1, TokenFacts DEF HeldInv, Refreshing
  <2> QED BY <2>1, <2>2, <2>3 DEF HeldInv
<1>2. ASSUME NEW k \in Instances PROVE SentInv(k)'
  <2>1. SentInv(k) /\ presented[k] \subseteq Tokens
    BY DEF CredInv, CredTypes
  <2> QED BY <2>1 DEF SentInv
<1>3. ASSUME NEW k \in Instances PROVE AnswerInv(k)'
  <2> SUFFICES ASSUME auth[k].pc \in Refreshing, auth[k].answer = TRUE
               PROVE  AnswerInv(k)'
    BY DEF AnswerInv
  <2>1. PICK s : s = Successor(auth[k].token)
    OBVIOUS
  <2>2. /\ valid[auth[k].token[1]] = auth[k].token[2] + 1
        /\ \A h \in Instances : auth[h].token # s /\ s \notin presented[h]
    BY <2>1 DEF CredInv, AnswerInv, Unseen
  <2>3. valid'[auth[k].token[1]] = auth[k].token[2] + 1 /\ credFile' # s
    BY <2>1, <2>2
  <2> QED BY <2>1, <2>2, <2>3 DEF AnswerInv, Unseen, Successor
<1> QED BY <1>1, <1>2, <1>3 DEF CredInv

\* A new login: its token is nobody's, and later than every other.
LEMMA LoginStep ==
    ASSUME CredInv, NEW a \in Accounts, exchange(a) \/ foreign_login(a)
    PROVE  CredInv'
<1>1. /\ NewLogin(a) /\ UNCHANGED <<valid, bad, storeLock, auth, presented>>
      /\ \/ orvekLogin' = orvekLogin
         \/ storeLock = Unlocked /\ orvekLogin' = LastLogin + 1
  BY DEF exchange, foreign_login, LockAvailable
<1>2. PICK n \in Logins : n = LastLogin /\ \A l \in Logins : owner[l] # Absent <=> l <= n
  BY LastIs
<1>3. n < MaxLogins /\ n + 1 \in Logins /\ MaxRotations \in Nat /\ a # Absent
  BY <1>1, <1>2, TokenFacts DEF NewLogin, Logins
<1>4. PICK t \in Tokens : t = <<n + 1, 0>> /\ t[1] = n + 1 /\ t[2] = 0
  <2>1. 0 \in 0..MaxRotations
    BY <1>3
  <2>2. <<n + 1, 0>> \in Tokens /\ <<n + 1, 0>>[1] = n + 1 /\ <<n + 1, 0>>[2] = 0
    BY <1>3, <2>1, TokenFacts
  <2> QED BY <2>2, Zenon
<1>5. credFile' = t /\ owner' = [owner EXCEPT ![n + 1] = a]
  BY <1>1, <1>2, <1>4 DEF NewLogin
<1>6. /\ owner' \in [Logins -> Accounts \cup {Absent}] /\ owner'[n + 1] = a
      /\ \A l \in Logins : l # n + 1 => owner'[l] = owner[l]
  BY <1>3, <1>5 DEF CredInv, CredTypes
<1>7. \A s \in Tokens : Issued(s) => s[1] <= n /\ s[1] # n + 1
  BY <1>2, TokenFacts DEF Issued
<1>8. orvekLogin \in Logins /\ orvekLogin <= n
  BY <1>2 DEF CredInv, CredTypes, FileInv
<1>9. orvekLogin' \in Logins /\ orvekLogin' <= n + 1 /\ owner'[orvekLogin'] # Absent
  <2>1. CASE orvekLogin' = orvekLogin
    BY <1>2, <1>6, <1>8, <2>1, TokenFacts DEF CredInv, FileInv
  <2>2. CASE orvekLogin' = n + 1
    BY <1>3, <1>6, <2>2, TokenFacts
  <2> QED BY <1>1, <1>2, <2>1, <2>2
<1>10. CredTypes'
  BY <1>1, <1>4, <1>5, <1>6, <1>9 DEF CredInv, CredTypes
<1>11. LoginsInOrder'
  <2>1. \A l \in Logins : owner'[l] # Absent <=> l <= n + 1
    BY <1>2, <1>3, <1>6, TokenFacts
  <2> QED BY <1>3, <2>1 DEF LoginsInOrder
<1>12. FileInv'
  <2>1. Issued(t)'
    <3>1. valid[n + 1] \in Nat
      BY <1>3, TokenFacts DEF CredInv, CredTypes
    <3> QED BY <1>1, <1>3, <1>4, <1>6, <3>1 DEF Issued
  <2> QED BY <1>3, <1>4, <1>5, <1>9, <2>1, TokenFacts DEF FileInv
<1>13. \A s \in Tokens : Issued(s) => Issued(s)'
  BY <1>1, <1>6, <1>7, TokenFacts DEF Issued
<1>14. \A l \in Logins : owner[l] # Absent => owner'[l] = owner[l]
  BY <1>2, <1>6, TokenFacts
<1>15. ASSUME NEW k \in Instances, NEW s \in presented[k] PROVE credFile' # s
  <2>1. s \in Tokens /\ Issued(s)
    BY DEF CredInv, CredTypes, SentInv
  <2> QED BY <1>4, <1>5, <1>7, <2>1
<1>16. ASSUME NEW k \in Instances PROVE credFile' # Successor(auth[k].token)
  <2>1. auth[k].token \in Tokens /\ Issued(auth[k].token)
    BY DEF CredInv, CredTypes, AuthSet, HeldInv
  <2>2. auth[k].token[1] # n + 1
    BY <1>7, <2>1
  <2> QED BY <1>4, <1>5, <2>2 DEF Successor
<1>17. bad \subseteq bad' /\ (orvekLogin' = orvekLogin \/ storeLock = Unlocked)
  BY <1>1
<1>18. UNCHANGED <<storeLock, auth, presented>> /\ UNCHANGED valid
  BY <1>1
<1> QED BY <1>10, <1>11, <1>12, <1>13, <1>14, <1>15, <1>16, <1>17, <1>18, WorldStep

\* Logout, the refresh of another program, and the end of an access token.
LEMMA OutsideStep ==
    ASSUME CredInv,
           logout_chatgpt \/ foreign_refresh \/ \E t \in Tokens : access_token_ends(t)
    PROVE  CredInv'
<1>1. /\ \A k \in Instances : auth[k].token \in Tokens /\ Issued(auth[k].token)
      /\ \A k \in Instances : \A s \in presented[k] : s \in Tokens /\ Issued(s)
  BY DEF CredInv, CredTypes, AuthSet, HeldInv, SentInv
<1>2. CASE logout_chatgpt
  <2>1. /\ credFile' = Absent
        /\ UNCHANGED <<owner, valid, bad, storeLock, auth, presented, orvekLogin>>
    BY <1>2 DEF logout_chatgpt
  <2>2. \A s : Issued(s)' <=> Issued(s)
    BY <2>1 DEF Issued
  <2>3. CredTypes' /\ LoginsInOrder' /\ FileInv'
    BY <2>1 DEF CredInv, CredTypes, LoginsInOrder, FileInv
  <2>4. ASSUME NEW k \in Instances, auth[k].pc \in Refreshing
        PROVE  credFile' # Successor(auth[k].token)
    <3>1. auth[k].token \in Tokens /\ auth[k].token[2] < MaxRotations
      BY <1>1, <2>4 DEF CredInv, HeldInv
    <3>2. auth[k].token[1] \in Logins /\ auth[k].token[2] + 1 \in 0..MaxRotations
      BY <3>1, TokenFacts
    <3>3. Successor(auth[k].token) \in Tokens
      BY <3>2, TokenFacts DEF Successor
    <3> QED BY <2>1, <3>3, TokenFacts
  <2>5. \A k \in Instances : \A s \in presented[k] : credFile' # s
    BY <1>1, <2>1, TokenFacts
  <2> QED BY <2>1, <2>2, <2>3, <2>4, <2>5, WorldStep
<1>3. CASE foreign_refresh
  <2>1. /\ credFile # Absent /\ credFile[2] = valid[credFile[1]] /\ credFile[2] < MaxRotations
        /\ valid' = Rotate(credFile) /\ credFile' = <<credFile[1], credFile[2] + 1>>
        /\ UNCHANGED <<owner, bad, storeLock, auth, presented, orvekLogin>>
    BY <1>3 DEF foreign_refresh
  <2>2. PICK t \in Tokens, l \in Logins, v \in 0..MaxRotations :
           t = credFile /\ l = t[1] /\ v = t[2] /\ t = <<l, v>> /\ v < MaxRotations
    BY <2>1, TokenFacts DEF CredInv, CredTypes
  <2>3. v + 1 \in 0..MaxRotations /\ valid[l] = v /\ valid \in [Logins -> 0..MaxRotations]
        /\ MaxRotations \in Nat
    BY <2>1, <2>2, TokenFacts DEF CredInv, CredTypes
  <2>4. PICK s \in Tokens : s = <<l, v + 1>> /\ s[1] = l /\ s[2] = v + 1
    <3>1. <<l, v + 1>> \in Tokens /\ <<l, v + 1>>[1] = l /\ <<l, v + 1>>[2] = v + 1
      BY <2>3, TokenFacts
    <3> QED BY <3>1, Zenon
  <2>5. /\ credFile' = s /\ valid' \in [Logins -> 0..MaxRotations] /\ valid'[l] = v + 1
        /\ \A h \in Logins : h # l => valid'[h] = valid[h]
    <3>1. credFile' = s
      BY <2>1, <2>2, <2>4
    <3>2. valid' = [valid EXCEPT ![l] = v + 1]
      BY <2>1, <2>2, <2>3 DEF Rotate
    <3> QED BY <2>3, <3>1, <3>2
  <2>6. \A x \in Tokens : Issued(x) => Issued(x)' /\ x # s
    <3> SUFFICES ASSUME NEW x \in Tokens, Issued(x) PROVE Issued(x)' /\ x # s
      OBVIOUS
    <3>1. x[1] \in Logins /\ x[2] \in 0..MaxRotations
      BY TokenFacts
    <3>2. CASE x[1] = l
      BY <2>1, <2>3, <2>4, <2>5, <3>1, <3>2 DEF Issued
    <3>3. CASE x[1] # l
      BY <2>1, <2>4, <2>5, <3>1, <3>3 DEF Issued
    <3> QED BY <3>2, <3>3
  <2>7. CredTypes' /\ LoginsInOrder' /\ FileInv'
    <3>1. CredTypes' /\ LoginsInOrder'
      BY <2>1, <2>5 DEF CredInv, CredTypes, LoginsInOrder
    <3>2. owner[l] # Absent /\ l >= orvekLogin /\ owner[orvekLogin] # Absent
      BY <2>1, <2>2 DEF CredInv, FileInv, Issued
    <3>3. Issued(s)'
      BY <2>1, <2>3, <2>4, <2>5, <3>2 DEF Issued
    <3> QED BY <2>1, <2>4, <2>5, <3>1, <3>2, <3>3 DEF FileInv
  <2>8. \A k \in Instances : \A x \in presented[k] : credFile' # x
    BY <1>1, <2>5, <2>6
  <2>9. ASSUME NEW k \in Instances, auth[k].pc \in Refreshing, auth[k].answer = TRUE
        PROVE  /\ valid'[auth[k].token[1]] = valid[auth[k].token[1]]
               /\ credFile' # Successor(auth[k].token)
    <3>1. PICK x \in Tokens, h \in Logins, w \in 0..MaxRotations :
             x = auth[k].token /\ h = x[1] /\ w = x[2] /\ x = <<h, w>>
      BY <1>1, TokenFacts
    <3>2. valid[h] = w + 1 /\ credFile # <<h, w + 1>>
      BY <2>9, <3>1 DEF CredInv, AnswerInv, Unseen, Successor
    <3>3. h # l
      BY <2>2, <2>3, <3>2
    <3>4. Successor(x)[1] = h
      BY <3>1 DEF Successor
    <3> QED BY <2>4, <2>5, <3>1, <3>3, <3>4
  <2> QED BY <2>1, <2>6, <2>7, <2>8, <2>9, WorldStep
<1>4. ASSUME NEW t \in Tokens, access_token_ends(t) PROVE CredInv'
  <2>1. /\ bad' = bad \cup {t}
        /\ UNCHANGED <<credFile, owner, valid, storeLock, auth, presented, orvekLogin>>
    BY <1>4 DEF access_token_ends
  <2>2. \A s : Issued(s)' <=> Issued(s)
    BY <2>1 DEF Issued
  <2>3. CredTypes' /\ LoginsInOrder' /\ FileInv'
    BY <2>1 DEF CredInv, CredTypes, LoginsInOrder, FileInv, Issued
  <2>4. \A k \in Instances : \A s \in presented[k] : credFile' = s => auth[k].token = s
    BY <2>1 DEF CredInv, SentInv
  <2>5. \A k \in Instances : auth[k].pc \in Refreshing /\ auth[k].answer = TRUE =>
           credFile' # Successor(auth[k].token)
    BY <2>1 DEF CredInv, AnswerInv, Unseen
  <2> QED BY <2>1, <2>2, <2>3, <2>4, <2>5, WorldStep
<1> QED BY <1>2, <1>3, <1>4

\* Every operation of an instance, of a login and of the world outside keeps
\* the invariant.
LEMMA CredKept == CredInv /\ [CredentialsNext]_credVars => CredInv'
<1> SUFFICES ASSUME CredInv, [CredentialsNext]_credVars PROVE CredInv'
  OBVIOUS
<1>1. CASE UNCHANGED credVars
  BY <1>1 DEF credVars, CredInv, CredTypes, LoginsInOrder, FileInv, Issued, HeldInv, SentInv,
     AnswerInv, Unseen
<1>2. CASE CredentialsNext
  BY <1>2, QueueStep, RefreshStep, MoveStep, WriteStep, RestartStep, LoginStep, OutsideStep
     DEF CredentialsNext
<1> QED BY <1>1, <1>2

\* What the properties say of a state.
LEMMA CredSound == CredInv => CredentialsTypeOK /\ LoginKept /\ AccountPinned
BY DEF CredInv, CredTypes, AuthSet, FileInv, HeldInv, CredentialsTypeOK, LoginKept, AccountPinned

\* The action properties: a credential that is queued for a refresh is bad and
\* was not presented.
LEMMA CredSteps == CredInv => PresentedOnce /\ RefreshNeeded
<1> SUFFICES ASSUME CredInv, NEW i \in Instances, auth[i].pc = "queued"
             PROVE  auth[i].token \notin presented[i] /\ auth[i].token \in bad
  BY DEF PresentedOnce, RefreshNeeded, Sends
<1>1. auth[i].uncertain = FALSE /\ auth[i].token \in bad
  BY DEF CredInv, HeldInv
<1>2. auth[i].token \in presented[i] => auth[i].uncertain = TRUE
  BY DEF CredInv, SentInv
<1> QED BY <1>1, <1>2

-----------------------------------------------------------------------------
(* Releases and the files of the review page. *)

UpdaterPcs ==
    Files \cup {"idle", "latest", "key", "verify", "extract", "lock", "look", "quarantine",
               "sync", "done"}
UpdaterRow ==
    [job : Artifacts \cup {"none"}, pc : UpdaterPcs,
     got : [Files -> Builds \cup {NoBuild, "torn"}]]

Loading == Files \cup {"key", "verify", "extract"}

InstallTypes ==
    /\ releases \in [Artifacts -> [Files -> Builds]]
    /\ latest \in 1..2 /\ uploads \in 0..MaxUploads /\ damages \in 0..MaxDamage
    /\ lockHolder \in Installers \cup {"nobody"}
    /\ installer \in [Installers -> UpdaterRow]

\* What a process relies on: the job its position belongs to, the files it has
\* downloaded, and, while it works on the review page, that it alone holds the
\* lock and finds no whole page installed.
UpdaterOk(r, p, lk, dir) ==
    /\ r.pc \in {"idle", "done"} => r.job = "none"
    /\ r.pc = "latest" => r.job = "binary"
    /\ r.pc \in Loading => r.job \in Artifacts
    /\ r.pc \in {"lock", "look", "quarantine", "sync"} => r.job = "review"
    /\ r.job = "review" /\ r.pc # "lock" => lk = p
    /\ r.pc \in {"signature", "verify", "extract"} => r.got["checksum"] \in Builds
    /\ r.pc = "extract" => r.got["archive"] \in Builds
    /\ r.job = "review" /\ r.pc \in Loading \cup {"quarantine"} => dir \notin Builds

InstallInv ==
    /\ InstallTypes /\ OnlyVerified
    /\ \A p \in Installers : UpdaterOk(installer[p], p, lockHolder, installed)

\* The constants of the installer.
LEMMA BuildFacts ==
    /\ "absent" \notin Builds /\ "damaged" \notin Builds /\ "development" \notin Builds
    /\ "nobody" \notin Installers /\ FirstBuild \in Builds
    /\ MaxUploads \in Nat /\ MaxDamage \in Nat
BY InstallerAssumption

\* The records of a process.
Gone(r, pc) == [r EXCEPT !.pc = pc]
Started(job, pc) == [FreshRelease EXCEPT !.job = job, !.pc = pc]
Ended == [FreshRelease EXCEPT !.pc = "done"]

\* A process that goes on keeps everything but its place.
LEMMA GoneFacts ==
    \A r \in UpdaterRow, pc \in UpdaterPcs :
        /\ Gone(r, pc) \in UpdaterRow /\ Gone(r, pc).pc = pc
        /\ Gone(r, pc).job = r.job /\ Gone(r, pc).got = r.got
BY DEF Gone, UpdaterRow

\* A process at its start and at its end.
LEMMA NewFacts ==
    /\ FreshRelease \in UpdaterRow /\ FreshRelease.pc = "idle" /\ FreshRelease.job = "none"
    /\ Ended \in UpdaterRow /\ Ended.pc = "done" /\ Ended.job = "none"
    /\ \A job \in Artifacts, pc \in UpdaterPcs :
          /\ Started(job, pc) \in UpdaterRow /\ Started(job, pc).pc = pc
          /\ Started(job, pc).job = job
<1>1. PICK g \in [Files -> Builds \cup {NoBuild, "torn"}] : g = [f \in Files |-> NoBuild]
  OBVIOUS
<1>2. FreshRelease = [job |-> "none", pc |-> "idle", got |-> g]
  BY <1>1 DEF FreshRelease
<1>3. FreshRelease \in UpdaterRow /\ FreshRelease.pc = "idle" /\ FreshRelease.job = "none"
  BY <1>2 DEF UpdaterRow, UpdaterPcs
<1>4. Ended \in UpdaterRow /\ Ended.pc = "done" /\ Ended.job = "none"
  BY <1>3 DEF Ended, UpdaterRow, UpdaterPcs
<1>5. \A job \in Artifacts, pc \in UpdaterPcs :
          /\ Started(job, pc) \in UpdaterRow /\ Started(job, pc).pc = pc
          /\ Started(job, pc).job = job
  BY <1>3 DEF Started, UpdaterRow
<1> QED BY <1>3, <1>4, <1>5

\* At the start no process does anything.
LEMMA InstallStart == InstallerInit => InstallInv
<1> SUFFICES ASSUME InstallerInit PROVE InstallInv
  OBVIOUS
<1>1. InstallTypes
  BY BuildFacts, NewFacts DEF InstallerInit, InstallTypes
<1>2. OnlyVerified
  BY DEF InstallerInit, OnlyVerified
<1>3. ASSUME NEW p \in Installers PROVE UpdaterOk(installer[p], p, lockHolder, installed)
  <2>1. installer[p].pc = "idle" /\ installer[p].job = "none"
    BY NewFacts DEF InstallerInit
  <2> QED BY <2>1 DEF UpdaterOk, Loading, Files
<1> QED BY <1>1, <1>2, <1>3 DEF InstallInv

\* A step of one process: the others keep their lock, and only the holder of
\* the lock installs.
LEMMA OneUpdater ==
    ASSUME InstallInv, NEW p \in Installers, NEW r \in UpdaterRow,
           installer' = [installer EXCEPT ![p] = r],
           UNCHANGED <<releases, latest, uploads, damages>>, OnlyVerified',
           lockHolder' \in Installers \cup {"nobody"},
           \A q \in Installers \ {p} : lockHolder = q => lockHolder' = q,
           installed' \in Builds => installed \in Builds \/ lockHolder = p,
           UpdaterOk(r, p, lockHolder', installed')
    PROVE  InstallInv'
<1>1. /\ installer'[p] = r /\ \A q \in Installers \ {p} : installer'[q] = installer[q]
      /\ installer' \in [Installers -> UpdaterRow]
  BY DEF InstallInv, InstallTypes
<1>2. InstallTypes'
  BY <1>1 DEF InstallInv, InstallTypes
<1>3. ASSUME NEW q \in Installers PROVE UpdaterOk(installer'[q], q, lockHolder', installed')
  <2>1. CASE q = p
    BY <1>1, <2>1
  <2>2. CASE q # p
    BY <1>1, <2>2 DEF InstallInv, UpdaterOk, Loading, Files
  <2> QED BY <2>1, <2>2
<1> QED BY <1>2, <1>3 DEF InstallInv

\* A process that has ended, however.
LEMMA EndedStep ==
    ASSUME InstallInv, NEW p \in Installers, UpdaterEnded(p), OtherUpdaters, OnlyVerified',
           installed' = installed
    PROVE  InstallInv'
<1>1. installer' = [installer EXCEPT ![p] = Ended] /\ lockHolder' = Released(p)
  BY DEF UpdaterEnded, Ended
<1>2. /\ lockHolder' \in Installers \cup {"nobody"}
      /\ \A q \in Installers \ {p} : lockHolder = q => lockHolder' = q
  BY <1>1 DEF Released, InstallInv, InstallTypes
<1>3. UpdaterOk(Ended, p, lockHolder', installed')
  BY NewFacts DEF UpdaterOk, Loading, Files
<1>4. UNCHANGED <<releases, latest, uploads, damages>>
  BY DEF OtherUpdaters
<1>5. Ended \in UpdaterRow
  BY NewFacts
<1> QED BY <1>1, <1>2, <1>3, <1>4, <1>5, OneUpdater

\* A process that goes on with the same files.
LEMMA GoesStep ==
    ASSUME InstallInv, NEW p \in Installers, NEW pc \in UpdaterPcs, UpdaterGoes(p, pc),
           OtherUpdaters, OnlyVerified',
           lockHolder' \in Installers \cup {"nobody"},
           \A q \in Installers \ {p} : lockHolder = q => lockHolder' = q,
           installed' \in Builds => installed \in Builds \/ lockHolder = p,
           UpdaterOk(Gone(installer[p], pc), p, lockHolder', installed')
    PROVE  InstallInv'
<1>1. installer' = [installer EXCEPT ![p] = Gone(installer[p], pc)]
  BY DEF UpdaterGoes, Gone
<1>2. Gone(installer[p], pc) \in UpdaterRow
  BY GoneFacts DEF InstallInv, InstallTypes
<1>3. UNCHANGED <<releases, latest, uploads, damages>>
  BY DEF OtherUpdaters
<1> QED BY <1>1, <1>2, <1>3, OneUpdater

\* What a step may assume of the process that takes it.
LEMMA UpdaterHere ==
    ASSUME InstallInv, NEW p \in Installers
    PROVE  /\ installer[p] \in UpdaterRow /\ UpdaterOk(installer[p], p, lockHolder, installed)
           /\ lockHolder \in Installers \cup {"nobody"}
           /\ installer[p].job \in Artifacts \cup {"none"} /\ installer[p].pc \in UpdaterPcs
           /\ \A pc \in UpdaterPcs :
                 /\ Gone(installer[p], pc).pc = pc /\ Gone(installer[p], pc).job = installer[p].job
                 /\ Gone(installer[p], pc).got = installer[p].got
<1>1. installer[p] \in UpdaterRow
  BY DEF InstallInv, InstallTypes
<1>2. installer[p].job \in Artifacts \cup {"none"} /\ installer[p].pc \in UpdaterPcs
  BY <1>1 DEF UpdaterRow
<1> QED BY <1>1, <1>2, GoneFacts DEF InstallInv, InstallTypes

\* The steps of the update of the executable, up to its download.
LEMMA BinaryStep ==
    ASSUME InstallInv, NEW p \in Installers,
           install_latest(p) \/ latest_release(p) \/ fetch_signing_key(p)
    PROVE  InstallInv'
<1>1. OtherUpdaters /\ OnlyVerified' /\ installed' = installed
  BY DEF install_latest, latest_release, fetch_signing_key, InstallInv, OnlyVerified
<1>2. /\ "done" \in UpdaterPcs /\ "key" \in UpdaterPcs /\ "archive" \in UpdaterPcs
      /\ "latest" \in UpdaterPcs /\ "binary" \in Artifacts
  BY DEF UpdaterPcs, Files, Artifacts
<1>3. CASE install_latest(p)
  <2>1. lockHolder' = lockHolder /\ installer[p].pc = "idle"
    BY <1>3 DEF install_latest, UpdaterAt
  <2>2. CASE kinds[p] = "archive"
    <3>1. installer' = [installer EXCEPT ![p] = Started("binary", "latest")]
      BY <1>3, <2>2 DEF install_latest, Started
    <3>2. /\ Started("binary", "latest") \in UpdaterRow /\ Started("binary", "latest").pc = "latest"
          /\ Started("binary", "latest").job = "binary"
      BY <1>2, NewFacts
    <3>3. UpdaterOk(Started("binary", "latest"), p, lockHolder', installed')
      BY <3>2 DEF UpdaterOk, Loading, Files
    <3>4. UNCHANGED <<releases, latest, uploads, damages>>
      BY <1>1 DEF OtherUpdaters
    <3> QED BY <1>1, <2>1, <3>1, <3>2, <3>3, <3>4, OneUpdater, UpdaterHere
  <2>3. CASE kinds[p] # "archive"
    <3>1. UpdaterGoes(p, "done")
      BY <1>3, <2>3 DEF install_latest
    <3>2. UpdaterOk(Gone(installer[p], "done"), p, lockHolder', installed')
      BY <1>2, <2>1, UpdaterHere DEF UpdaterOk, Loading, Files
    <3> QED BY <1>1, <1>2, <2>1, <3>1, <3>2, GoesStep, UpdaterHere
  <2> QED BY <2>2, <2>3
<1>4. CASE latest_release(p)
  <2>1. installer[p].pc = "latest"
    BY <1>4 DEF latest_release, UpdaterAt
  <2>2. CASE latest = 1
    <3>1. UpdaterEnded(p)
      BY <1>4, <2>2 DEF latest_release
    <3> QED BY <1>1, <3>1, EndedStep
  <2>3. CASE latest # 1
    <3>1. UpdaterGoes(p, "key") /\ lockHolder' = lockHolder
      BY <1>4, <2>3 DEF latest_release
    <3>2. UpdaterOk(Gone(installer[p], "key"), p, lockHolder', installed')
      BY <1>2, <2>1, UpdaterHere DEF UpdaterOk, Loading, Files, Artifacts
    <3> QED BY <1>1, <1>2, <3>1, <3>2, GoesStep, UpdaterHere
  <2> QED BY <2>2, <2>3
<1>5. CASE fetch_signing_key(p)
  <2>1. installer[p].pc = "key" /\ UpdaterGoes(p, "archive") /\ lockHolder' = lockHolder
    BY <1>5 DEF fetch_signing_key, UpdaterAt
  <2>2. UpdaterOk(Gone(installer[p], "archive"), p, lockHolder', installed')
    BY <1>1, <1>2, <2>1, UpdaterHere DEF UpdaterOk, Loading, Files
  <2> QED BY <1>1, <1>2, <2>1, <2>2, GoesStep, UpdaterHere
<1> QED BY <1>3, <1>4, <1>5

\* One file of the release arrives, of whatever build is there at that time.
Fetched(r, f, b, pc) == [[r EXCEPT !.got[f] = b] EXCEPT !.pc = pc]

\* A process that downloaded one more file.
LEMMA FetchedFacts ==
    \A r \in UpdaterRow, f \in Files, b \in Builds \cup {"torn"}, pc \in UpdaterPcs :
        /\ Fetched(r, f, b, pc) \in UpdaterRow /\ Fetched(r, f, b, pc).pc = pc
        /\ Fetched(r, f, b, pc).job = r.job
        /\ Fetched(r, f, b, pc).got = [r.got EXCEPT ![f] = b]
<1> TAKE r \in UpdaterRow, f \in Files, b \in Builds \cup {"torn"}, pc \in UpdaterPcs
<1>1. PICK g \in [Files -> Builds \cup {NoBuild, "torn"}] : g = [r.got EXCEPT ![f] = b]
  BY DEF UpdaterRow
<1>2. Fetched(r, f, b, pc) = [r EXCEPT !.got = g, !.pc = pc]
  BY <1>1 DEF Fetched
<1> QED BY <1>1, <1>2 DEF UpdaterRow

\* Downloading one file of a release.
LEMMA FetchStep ==
    ASSUME InstallInv, NEW p \in Installers, fetch(p)
    PROVE  InstallInv'
<1>1. /\ OtherUpdaters /\ OnlyVerified' /\ installed' = installed /\ lockHolder' = lockHolder
      /\ installer[p].pc \in Files
  BY DEF fetch, InstallInv, OnlyVerified
<1>2. PICK f \in Files, b \in Builds \cup {"torn"} :
         /\ f = installer[p].pc /\ (f # "archive" => b \in Builds)
         /\ installer' = [installer EXCEPT ![p].got[f] = b, ![p].pc = NextFile[f]]
  <2>1. installer[p].job \in Artifacts
    BY <1>1, UpdaterHere DEF UpdaterOk, Loading
  <2>2. releases[installer[p].job][installer[p].pc] \in Builds
    BY <1>1, <2>1 DEF InstallInv, InstallTypes
  <2>3. PICK b \in {releases[installer[p].job][installer[p].pc]}
                    \cup (IF installer[p].pc = "archive" THEN {"torn"} ELSE {}) :
           installer' = [installer EXCEPT ![p].got[installer[p].pc] = b,
                                          ![p].pc = NextFile[installer[p].pc]]
    BY DEF fetch
  <2>4. b \in Builds \cup {"torn"} /\ (installer[p].pc # "archive" => b \in Builds)
    BY <2>2, <2>3
  <2> QED BY <1>1, <2>3, <2>4
<1>3. PICK n \in {"checksum", "signature", "verify"} :
         /\ n = NextFile[f] /\ (n = "checksum" <=> f = "archive")
         /\ (n = "signature" <=> f = "checksum")
  BY DEF NextFile, Files
<1>4. PICK r : r = Fetched(installer[p], f, b, n)
  OBVIOUS
<1>5. installer' = [installer EXCEPT ![p] = r]
  BY <1>2, <1>3, <1>4, UpdaterHere DEF Fetched
<1>6. /\ r \in UpdaterRow /\ r.pc = n /\ r.job = installer[p].job
      /\ r.got = [installer[p].got EXCEPT ![f] = b]
  <2>1. installer[p] \in UpdaterRow /\ n \in UpdaterPcs
    BY <1>3, UpdaterHere DEF UpdaterPcs, Files
  <2> QED BY <1>2, <1>4, <2>1, FetchedFacts
<1>7. UpdaterOk(r, p, lockHolder', installed')
  <2>1. UpdaterOk(installer[p], p, lockHolder, installed) /\ installer[p].pc = f
    BY <1>2, UpdaterHere
  <2>2. n \in {"signature", "verify"} => r.got["checksum"] \in Builds
    BY <1>2, <1>3, <1>6, <2>1, UpdaterHere DEF UpdaterRow, Files, UpdaterOk
  <2> QED BY <1>1, <1>2, <1>3, <1>6, <2>1, <2>2 DEF UpdaterOk, Loading, Files
<1>8. UNCHANGED <<releases, latest, uploads, damages>>
  BY <1>1 DEF OtherUpdaters
<1> QED BY <1>1, <1>5, <1>6, <1>7, <1>8, OneUpdater, UpdaterHere

\* The archive is of the build of its checksum.
LEMMA VerifyStep ==
    ASSUME InstallInv, NEW p \in Installers, verify(p)
    PROVE  InstallInv'
<1>1. /\ OtherUpdaters /\ OnlyVerified' /\ installed' = installed /\ installer[p].pc = "verify"
  BY DEF verify, UpdaterAt, InstallInv, OnlyVerified
<1>2. CASE Verified(installer[p].got)
  <2>1. UpdaterGoes(p, "extract") /\ lockHolder' = lockHolder /\ "extract" \in UpdaterPcs
    BY <1>2 DEF verify, UpdaterPcs
  <2>2. installer[p].got["archive"] = installer[p].got["checksum"]
    BY <1>2 DEF Verified, verify_archive_checksum
  <2>3. UpdaterOk(Gone(installer[p], "extract"), p, lockHolder', installed')
    BY <1>1, <2>1, <2>2, UpdaterHere DEF UpdaterOk, Loading, Files
  <2> QED BY <1>1, <2>1, <2>3, GoesStep, UpdaterHere
<1>3. CASE ~Verified(installer[p].got)
  <2>1. UpdaterEnded(p)
    BY <1>3 DEF verify
  <2> QED BY <1>1, <2>1, EndedStep
<1> QED BY <1>2, <1>3

\* The executable is replaced, the directory is moved into place, or the
\* process ends with what it finds.
LEMMA ExtractStep ==
    ASSUME InstallInv, NEW p \in Installers,
           extract_binary(p) \/ extract(p) \/ sync_directory(p) \/ fail(p)
    PROVE  InstallInv'
<1>1. CASE extract_binary(p)
  <2>1. OtherUpdaters /\ UpdaterEnded(p) /\ installed' = installed /\ installer[p].pc = "extract"
    BY <1>1 DEF extract_binary, UpdaterAt
  <2>2. installer[p].got["archive"] \in Builds
    BY <2>1, UpdaterHere DEF UpdaterOk
  <2>3. OnlyVerified'
    BY <1>1, <2>1, <2>2 DEF extract_binary, InstallInv, OnlyVerified
  <2> QED BY <2>1, <2>3, EndedStep
<1>2. CASE extract(p)
  <2>1. /\ OtherUpdaters /\ executable' = executable /\ installer[p].pc = "extract"
        /\ installer[p].job = "review"
    BY <1>2 DEF extract, UpdaterAt
  <2>2. installer[p].got["archive"] \in Builds /\ lockHolder = p
    BY <2>1, UpdaterHere DEF UpdaterOk
  <2>3. CASE installed # "absent" \/ ~validate_directory(p, installer[p].got["archive"])
    <3>1. UpdaterEnded(p) /\ installed' = installed
      BY <1>2, <2>3 DEF extract
    <3>2. OnlyVerified'
      BY <2>1, <3>1 DEF InstallInv, OnlyVerified
    <3> QED BY <2>1, <3>1, <3>2, EndedStep
  <2>4. CASE ~(installed # "absent" \/ ~validate_directory(p, installer[p].got["archive"]))
    <3>1. /\ installed' = installer[p].got["archive"] /\ UpdaterGoes(p, "sync")
          /\ lockHolder' = lockHolder /\ "sync" \in UpdaterPcs
      BY <1>2, <2>4 DEF extract, UpdaterPcs
    <3>2. installed' \in Builds \ OddBuilds
      BY <2>2, <2>4, <3>1, BuildFacts DEF validate_directory, validate_manifest
    <3>3. OnlyVerified'
      BY <2>1, <3>2 DEF InstallInv, OnlyVerified
    <3>4. UpdaterOk(Gone(installer[p], "sync"), p, lockHolder', installed')
      BY <2>1, <2>2, <3>1, UpdaterHere DEF UpdaterOk, Loading, Files
    <3> QED BY <2>1, <2>2, <3>1, <3>3, <3>4, GoesStep, UpdaterHere
  <2> QED BY <2>3, <2>4
<1>3. CASE sync_directory(p) \/ fail(p)
  <2>1. OtherUpdaters /\ UpdaterEnded(p) /\ installed' = installed /\ OnlyVerified'
    BY <1>3 DEF sync_directory, fail, InstallInv, OnlyVerified
  <2> QED BY <2>1, EndedStep
<1> QED BY <1>1, <1>2, <1>3

\* The review page, up to its download.
LEMMA ReviewStep ==
    ASSUME InstallInv, NEW p \in Installers,
           \/ availability(p) \/ InstallDevelopment(p) \/ acquire_install_lock(p)
           \/ look(p) \/ quarantine(p)
    PROVE  InstallInv'
<1>1. /\ "done" \in UpdaterPcs /\ "key" \in UpdaterPcs /\ "lock" \in UpdaterPcs
      /\ "look" \in UpdaterPcs /\ "quarantine" \in UpdaterPcs /\ "review" \in Artifacts
  BY DEF UpdaterPcs, Artifacts
<1>2. CASE availability(p)
  <2>1. /\ OtherUpdaters /\ OnlyVerified' /\ installed' = installed /\ lockHolder' = lockHolder
        /\ installer[p].pc = "idle"
    BY <1>2 DEF availability, UpdaterAt, InstallInv, OnlyVerified
  <2>2. CASE UpdaterGoes(p, "done")
    <3>1. UpdaterOk(Gone(installer[p], "done"), p, lockHolder', installed')
      BY <1>1, <2>1, UpdaterHere DEF UpdaterOk, Loading, Files
    <3> QED BY <1>1, <2>1, <2>2, <3>1, GoesStep, UpdaterHere
  <2>3. CASE installer' = [installer EXCEPT ![p] = Started("review", "lock")]
    <3>1. /\ Started("review", "lock") \in UpdaterRow /\ Started("review", "lock").pc = "lock"
          /\ Started("review", "lock").job = "review"
      BY <1>1, NewFacts
    <3>2. UpdaterOk(Started("review", "lock"), p, lockHolder', installed')
      BY <3>1 DEF UpdaterOk, Loading, Files
    <3>3. UNCHANGED <<releases, latest, uploads, damages>>
      BY <2>1 DEF OtherUpdaters
    <3> QED BY <2>1, <2>3, <3>1, <3>2, <3>3, OneUpdater, UpdaterHere
  <2> QED BY <1>2, <2>2, <2>3 DEF availability, Started
<1>3. CASE InstallDevelopment(p)
  <2>1. /\ installed' = "development" /\ UNCHANGED <<executable, lockHolder, installer>>
        /\ UNCHANGED <<releases, latest, uploads, damages>>
    BY <1>3 DEF InstallDevelopment, OtherUpdaters
  <2>2. InstallTypes' /\ OnlyVerified'
    BY <2>1 DEF InstallInv, InstallTypes, OnlyVerified
  <2>3. ASSUME NEW q \in Installers PROVE UpdaterOk(installer[q], q, lockHolder, installed)'
    BY <2>1, BuildFacts DEF InstallInv, UpdaterOk
  <2> QED BY <2>2, <2>3 DEF InstallInv
<1>4. CASE acquire_install_lock(p)
  <2>1. /\ OtherUpdaters /\ OnlyVerified' /\ installed' = installed /\ lockHolder' = p
        /\ installer[p].pc = "lock" /\ lockHolder = "nobody" /\ UpdaterGoes(p, "look")
    BY <1>4 DEF acquire_install_lock, UpdaterAt, LockFree, InstallInv, OnlyVerified
  <2>2. UpdaterOk(Gone(installer[p], "look"), p, lockHolder', installed')
    BY <1>1, <2>1, UpdaterHere DEF UpdaterOk, Loading, Files
  <2> QED BY <1>1, <2>1, <2>2, BuildFacts, GoesStep
<1>5. CASE look(p)
  <2>1. /\ OtherUpdaters /\ OnlyVerified' /\ installed' = installed /\ installer[p].pc = "look"
    BY <1>5 DEF look, UpdaterAt, InstallInv, OnlyVerified
  <2>2. CASE Whole(p)
    <3>1. UpdaterEnded(p)
      BY <1>5, <2>2 DEF look
    <3> QED BY <2>1, <3>1, EndedStep
  <2>3. CASE ~Whole(p)
    <3>1. PICK pc \in {"key", "quarantine"} : UpdaterGoes(p, pc) /\ lockHolder' = lockHolder
      BY <1>5, <2>3 DEF look
    <3>2. installed \notin Builds
      BY <2>3, BuildFacts DEF Whole, validate_directory, validate_manifest, InstallInv, OnlyVerified
    <3>3. pc \in UpdaterPcs
      BY <1>1, <3>1
    <3>4. UpdaterOk(Gone(installer[p], pc), p, lockHolder', installed')
      BY <2>1, <3>1, <3>2, <3>3, UpdaterHere DEF UpdaterOk, Loading, Files, Artifacts
    <3> QED BY <2>1, <3>1, <3>3, <3>4, GoesStep, UpdaterHere
  <2> QED BY <2>2, <2>3
<1>6. CASE quarantine(p)
  <2>1. /\ OtherUpdaters /\ installed' = "absent" /\ executable' = executable
        /\ lockHolder' = lockHolder /\ installer[p].pc = "quarantine" /\ UpdaterGoes(p, "key")
    BY <1>6 DEF quarantine, UpdaterAt
  <2>2. OnlyVerified'
    BY <2>1 DEF InstallInv, OnlyVerified
  <2>3. UpdaterOk(Gone(installer[p], "key"), p, lockHolder', installed')
    BY <1>1, <2>1, BuildFacts, UpdaterHere DEF UpdaterOk, Loading, Files, Artifacts
  <2> QED BY <1>1, <2>1, <2>2, <2>3, BuildFacts, GoesStep, UpdaterHere
<1> QED BY <1>2, <1>3, <1>4, <1>5, <1>6

\* The release and the disk change by themselves.
LEMMA DiskStep ==
    ASSUME InstallInv,
           Damage \/ \E a \in Artifacts, fs \in {{f} : f \in Files} \cup {Files} : Upload(a, fs)
    PROVE  InstallInv'
<1>1. CASE Damage
  <2>1. /\ installed' = "damaged" /\ damages < MaxDamage /\ damages' = damages + 1
        /\ UNCHANGED <<releases, latest, uploads, executable, lockHolder, installer>>
    BY <1>1 DEF Damage
  <2>2. InstallTypes'
    BY <2>1, BuildFacts DEF InstallInv, InstallTypes
  <2>3. OnlyVerified'
    BY <2>1 DEF InstallInv, OnlyVerified
  <2>4. ASSUME NEW q \in Installers PROVE UpdaterOk(installer[q], q, lockHolder, installed)'
    BY <2>1, BuildFacts DEF InstallInv, UpdaterOk
  <2> QED BY <2>2, <2>3, <2>4 DEF InstallInv
<1>2. ASSUME NEW a \in Artifacts, NEW fs, Upload(a, fs) PROVE InstallInv'
  <2>1. /\ uploads < MaxUploads /\ uploads' = uploads + 1
        /\ UNCHANGED <<latest, executable, installed, damages, lockHolder, installer>>
    BY <1>2 DEF Upload
  <2>2. PICK b \in Builds : releases' = [releases EXCEPT ![a] =
                               [f \in Files |-> IF f \in fs THEN b ELSE releases[a][f]]]
    BY <1>2 DEF Upload
  <2>3. releases' \in [Artifacts -> [Files -> Builds]]
    <3>1. releases \in [Artifacts -> [Files -> Builds]]
      BY DEF InstallInv, InstallTypes
    <3>2. [f \in Files |-> IF f \in fs THEN b ELSE releases[a][f]] \in [Files -> Builds]
      BY <3>1, <2>2
    <3> QED BY <2>2, <3>1, <3>2
  <2>4. InstallTypes'
    BY <2>1, <2>3, BuildFacts DEF InstallInv, InstallTypes
  <2> QED BY <2>1, <2>4 DEF InstallInv, OnlyVerified
<1> QED BY <1>1, <1>2

\* Every step of an updater, and every upload and damage, keeps the invariant.
LEMMA InstallKept == InstallInv /\ [InstallerNext]_iVars => InstallInv'
<1> SUFFICES ASSUME InstallInv, [InstallerNext]_iVars PROVE InstallInv'
  OBVIOUS
<1>1. CASE UNCHANGED iVars
  BY <1>1 DEF iVars, InstallInv, InstallTypes, OnlyVerified
<1>2. CASE InstallerNext
  BY <1>2, BinaryStep, FetchStep, VerifyStep, ExtractStep, ReviewStep, DiskStep DEF InstallerNext
<1> QED BY <1>1, <1>2

\* What is installed was verified, and a process that downloads the review page
\* is alone and finds no whole one.
LEMMA InstallSound == InstallInv => InstallerTypeOK /\ OnlyVerified /\ DownloadsOnce
<1> SUFFICES ASSUME InstallInv PROVE InstallerTypeOK /\ OnlyVerified /\ DownloadsOnce
  OBVIOUS
<1>1. InstallerTypeOK
  BY UpdaterHere DEF InstallInv, InstallTypes, InstallerTypeOK
<1>2. ASSUME NEW p \in Installers, Downloads(p)
      PROVE  lockHolder = p /\ installed \notin Builds
  BY <1>2, UpdaterHere DEF Downloads, UpdaterOk, Loading, Files
<1> QED BY <1>1, <1>2 DEF DownloadsOnce, InstallInv

\* Nobody moves away or replaces files that are whole.
LEMMA InstallSteps == InstallInv /\ [InstallerNext]_iVars => ValidStays
<1> SUFFICES ASSUME InstallInv, InstallerNext, installed \in Builds, installed' # installed
             PROVE  installed' = "damaged"
  BY DEF ValidStays, iVars
<1>1. ASSUME NEW p \in Installers PROVE ~quarantine(p)
  BY UpdaterHere DEF quarantine, UpdaterAt, UpdaterOk
<1>2. ASSUME NEW p \in Installers, extract(p) PROVE FALSE
  BY <1>2, BuildFacts DEF extract
<1>3. ASSUME NEW p \in Installers, InstallDevelopment(p) PROVE FALSE
  BY <1>3, BuildFacts DEF InstallDevelopment
<1>4. CASE Damage
  BY <1>4 DEF Damage
<1>5. ASSUME NEW a \in Artifacts, NEW fs, Upload(a, fs) PROVE FALSE
  BY <1>5 DEF Upload
<1>6. ASSUME NEW p \in Installers,
             \/ install_latest(p) \/ latest_release(p) \/ fetch_signing_key(p)
             \/ fetch(p) \/ verify(p) \/ extract_binary(p) \/ availability(p)
             \/ acquire_install_lock(p) \/ look(p) \/ sync_directory(p) \/ fail(p)
      PROVE  FALSE
  BY <1>6 DEF install_latest, latest_release, fetch_signing_key, fetch, verify, extract_binary,
     availability, acquire_install_lock, look, sync_directory, fail
<1> QED BY <1>1, <1>2, <1>3, <1>4, <1>5, <1>6 DEF InstallerNext

-----------------------------------------------------------------------------
(* One provider call. *)

AttemptRow ==
    [status : {"started", "received", "rejected", "timed_out", "failed", "cancelled"},
     http : Statuses \cup {0}, dispatched : BOOLEAN, uncertain : BOOLEAN]
ItemMaps == UNION {[D -> Items] : D \in SUBSET Indices}
DecoderRow ==
    [id : 0..2, items : ItemMaps, observed : BOOLEAN, text : BOOLEAN, terminal : BOOLEAN,
     history : Seq(Items), usage : {Unknown, 1}, cost : {Unknown, 1}]
CallPcs == {"headers", "connect", "send", "stream", "sleep", "done"}
Wires == [transport : {"http", "websocket"}, dialect : {"openai", "chatgpt"}]

CallTypes ==
    /\ callPc \in CallPcs /\ wire \in Wires
    /\ attempts \in Seq(AttemptRow) /\ Len(attempts) <= MaxAttempts
    /\ decoder \in DecoderRow /\ recovered \in BOOLEAN /\ headerCost \in {Unknown, 1, 2}
    /\ generations \in 0..1 /\ events \in 0..MaxEvents

\* Between attempts, and until the request is sent, nothing was generated or
\* decoded, and another attempt is made only if one is left.
Quiet ==
    /\ callPc \in {"headers", "connect", "send", "sleep"} => decoder = NoDecoder /\ generations = 0
    /\ callPc = "stream" /\ events = 0 => decoder = NoDecoder
    /\ callPc \in {"headers", "sleep"} => Len(attempts) < MaxAttempts

\* What the attempts say of what was generated.
AttemptsTell(sq, n) ==
    /\ sq # <<>> /\ Clean(sq[Len(sq)].http) => n = 0
    /\ n # 0 => \E i \in 1..Len(sq) : sq[i].dispatched
Open_ ==
    /\ callPc \in {"connect", "send", "stream"} =>
          Len(attempts) > 0 /\ attempts[Len(attempts)].http = 0
    /\ callPc = "stream" => attempts[Len(attempts)].dispatched
    /\ AttemptsTell(attempts, generations)

Measured(d, n) == d.usage # Unknown => d.usage = 1 /\ n = 1

CallInv ==
    /\ CallTypes /\ Quiet /\ Open_ /\ Measured(decoder, generations)
    /\ decoder.terminal => callPc = "done"
    /\ ResponseConfirmed

\* The constants of a call.
LEMMA CallConstants ==
    MaxAttempts \in Nat \ {0} /\ MaxEvents \in Nat \ {0} /\ Unknown \notin 0..2
BY ProviderAssumption

\* The decoder of a call that has read nothing.
LEMMA NoDecoderFacts ==
    /\ NoDecoder \in DecoderRow /\ NoDecoder.usage = Unknown /\ NoDecoder.terminal = FALSE
<1>1. PICK m \in ItemMaps : m = [i \in {} |-> "call"]
  <2>1. [i \in {} |-> "call"] \in [{} -> Items] /\ {} \in SUBSET Indices
    OBVIOUS
  <2> QED BY <2>1 DEF ItemMaps
<1>2. PICK h \in Seq(Items) : h = <<>>
  <2>1. <<>> \in Seq(Items)
    OBVIOUS
  <2> QED BY <2>1, Zenon
<1>3. ASSUME NEW u \in BOOLEAN
      PROVE  LET d == [id |-> 0, items |-> m, observed |-> u, text |-> u, terminal |-> u,
                       history |-> h, usage |-> Unknown, cost |-> Unknown]
             IN  d \in DecoderRow /\ d.usage = Unknown /\ d.terminal = u
  BY DEF DecoderRow
<1>4. NoDecoder = [id |-> 0, items |-> m, observed |-> FALSE, text |-> FALSE, terminal |-> FALSE,
                   history |-> h, usage |-> Unknown, cost |-> Unknown]
  BY <1>1, <1>2, Zenon DEF NoDecoder
<1> QED BY <1>3, <1>4, Zenon

\* A call starts without an attempt.
LEMMA CallStart == ProviderInit => CallInv
<1> SUFFICES ASSUME ProviderInit PROVE CallInv
  OBVIOUS
<1>1. CallTypes
  <2>1. attempts \in Seq(AttemptRow) /\ Len(attempts) = 0
    BY DEF ProviderInit
  <2>2. recovered \in BOOLEAN /\ decoder \in DecoderRow
    BY NoDecoderFacts DEF ProviderInit
  <2> QED BY <2>1, <2>2, CallConstants DEF ProviderInit, CallTypes, CallPcs, Wires
<1>2. Quiet /\ Open_
  BY CallConstants DEF ProviderInit, Quiet, Open_, AttemptsTell
<1>3. decoder.usage = Unknown /\ decoder.terminal = FALSE
  BY NoDecoderFacts DEF ProviderInit
<1> QED BY <1>1, <1>2, <1>3 DEF CallInv, Measured, ResponseConfirmed

\* An attempt has ended: the call goes on with another one, sleeps before it,
\* or is over.
LEMMA EndsStep ==
    ASSUME CallInv, attempts' \in Seq(AttemptRow), Len(attempts') = Len(attempts),
           AttemptsTell(attempts', generations),
           generations' = generations, wire' = wire, events' \in 0..MaxEvents,
           recovered' \in BOOLEAN, headerCost' \in {Unknown, 1, 2}, decoder' \in DecoderRow,
           Measured(decoder', generations), ResponseConfirmed',
           decoder'.terminal => callPc' = "done",
           callPc' \in {"headers", "sleep", "done"},
           callPc' # "done" => Len(attempts) < MaxAttempts /\ decoder' = NoDecoder /\ generations = 0
    PROVE  CallInv'
<1>1. CallTypes'
  BY DEF CallInv, CallTypes, CallPcs
<1>2. Quiet' /\ Open_'
  BY DEF Quiet, Open_, AttemptsTell
<1> QED BY <1>1, <1>2 DEF CallInv, Measured

\* respond closes an attempt that is still open; what was sent stays.
AttemptFail(r, s, u) == [r EXCEPT !.status = s, !.uncertain = u]
\* An attempt that is closed keeps whether it was dispatched.
LEMMA AttemptFailFacts ==
    \A r \in AttemptRow, s \in {"cancelled", "timed_out", "failed"}, u \in BOOLEAN :
        /\ AttemptFail(r, s, u) \in AttemptRow /\ AttemptFail(r, s, u).http = r.http
        /\ AttemptFail(r, s, u).dispatched = r.dispatched
BY DEF AttemptFail, AttemptRow

\* Attempts that differ in their outcome only.
SameSent(sq, bs) ==
    /\ bs \in Seq(AttemptRow) /\ Len(bs) = Len(sq)
    /\ \A i \in 1..Len(sq) : bs[i].dispatched = sq[i].dispatched

\* The last attempt of a call that has one.
LEMMA LastFacts ==
    \A sq \in Seq(AttemptRow) :
        /\ Len(sq) \in Nat /\ (sq = <<>> <=> Len(sq) = 0)
        /\ \A i \in 1..Len(sq) : sq[i] \in AttemptRow
        /\ sq # <<>> => Len(sq) \in 1..Len(sq) /\ sq[Len(sq)] \in AttemptRow
<1> TAKE sq \in Seq(AttemptRow)
<1>1. sq = <<>> <=> Len(sq) = 0
  BY EmptySeq
<1>2. Len(sq) \in Nat /\ \A i \in 1..Len(sq) : sq[i] \in AttemptRow
  OBVIOUS
<1> QED BY <1>1, <1>2

\* The last attempt is replaced.
LEMMA LastReplaced ==
    ASSUME NEW sq \in Seq(AttemptRow), sq # <<>>, NEW r \in AttemptRow,
           NEW bs, bs = [sq EXCEPT ![Len(sq)] = r]
    PROVE  /\ bs \in Seq(AttemptRow) /\ Len(bs) = Len(sq) /\ bs[Len(sq)] = r
           /\ \A i \in 1..Len(sq) : i # Len(sq) => bs[i] = sq[i]
<1>1. PICK n \in 1..Len(sq) : n = Len(sq)
  BY LastFacts
<1>2. \A s \in Seq(AttemptRow), e \in AttemptRow : \A i \in 1..Len(s) :
         /\ [s EXCEPT ![i] = e] \in Seq(AttemptRow)
         /\ Len([s EXCEPT ![i] = e]) = Len(s)
         /\ \A j \in 1..Len(s) : [s EXCEPT ![i] = e][j] = IF j = i THEN e ELSE s[j]
  BY ExceptSeq
<1>3. /\ [sq EXCEPT ![n] = r] \in Seq(AttemptRow)
      /\ Len([sq EXCEPT ![n] = r]) = Len(sq)
      /\ \A j \in 1..Len(sq) : [sq EXCEPT ![n] = r][j] = IF j = n THEN r ELSE sq[j]
  BY <1>2
<1>4. bs = [sq EXCEPT ![n] = r]
  BY <1>1
<1> QED BY <1>1, <1>3, <1>4

\* respond closes an attempt that is still open and changes no other.
LEMMA FailedFacts ==
    ASSUME NEW sq \in Seq(AttemptRow), NEW kind, NEW auth_, Failed_(sq, kind, auth_)
    PROVE  /\ callPc' = "done" /\ SameSent(sq, attempts')
           /\ \A i \in 1..Len(sq) : attempts'[i].http = sq[i].http
<1>1. CASE sq = <<>> \/ sq[Len(sq)].status # "started"
  <2>1. attempts' = sq /\ callPc' = "done"
    BY <1>1, Zenon DEF Failed_
  <2> QED BY <2>1, Zenon DEF SameSent
<1>2. CASE ~(sq = <<>> \/ sq[Len(sq)].status # "started")
  <2>1. Len(sq) \in 1..Len(sq) /\ sq[Len(sq)] \in AttemptRow
    BY <1>2, LastFacts
  <2>2. PICK s \in {"cancelled", "timed_out", "failed"}, u \in BOOLEAN :
           attempts' = [sq EXCEPT ![Len(sq)] = AttemptFail(sq[Len(sq)], s, u)]
    <3>1. sq[Len(sq)].dispatched \in BOOLEAN
      BY <2>1 DEF AttemptRow
    <3>2. PICK s \in {"cancelled", "timed_out", "failed"} :
             s = CASE kind = "cancelled" -> "cancelled"
                   [] kind = "timeout" -> "timed_out" [] OTHER -> "failed"
      OBVIOUS
    <3>3. attempts' = [sq EXCEPT ![Len(sq)].status = s,
                                 ![Len(sq)].uncertain = sq[Len(sq)].dispatched]
      BY <1>2, <3>2 DEF Failed_
    <3>4. attempts' = [sq EXCEPT ![Len(sq)] = AttemptFail(sq[Len(sq)], s, sq[Len(sq)].dispatched)]
      BY <2>1, <3>3 DEF AttemptFail
    <3> QED BY <3>1, <3>4
  <2>3. PICK r \in AttemptRow :
           /\ r = AttemptFail(sq[Len(sq)], s, u) /\ r.http = sq[Len(sq)].http
           /\ r.dispatched = sq[Len(sq)].dispatched
    BY <2>1, AttemptFailFacts
  <2>4. attempts' = [sq EXCEPT ![Len(sq)] = r]
    BY <2>2, <2>3
  <2>5. /\ attempts' \in Seq(AttemptRow) /\ Len(attempts') = Len(sq)
        /\ attempts'[Len(sq)] = r /\ \A i \in 1..Len(sq) : i # Len(sq) => attempts'[i] = sq[i]
    BY <1>2, <2>1, <2>4, LastReplaced
  <2>6. callPc' = "done"
    BY DEF Failed_
  <2> QED BY <2>3, <2>5, <2>6 DEF SameSent
<1> QED BY <1>1, <1>2

Outcomes == {"received", "rejected", "timed_out", "failed"}
HttpCodes == Statuses \cup {0}
AttemptEnd(r, s, h, u) == [r EXCEPT !.status = s, !.http = h, !.uncertain = u]
\* An attempt that has ended keeps whether it was dispatched.
LEMMA AttemptEndFacts ==
    \A r \in AttemptRow, s \in Outcomes, h \in HttpCodes, u \in BOOLEAN :
        /\ AttemptEnd(r, s, h, u) \in AttemptRow /\ AttemptEnd(r, s, h, u).http = h
        /\ AttemptEnd(r, s, h, u).dispatched = r.dispatched
BY DEF AttemptEnd, AttemptRow, Outcomes, HttpCodes

\* EndAttempt changes the last attempt only.
LEMMA EndFacts ==
    ASSUME attempts \in Seq(AttemptRow), attempts # <<>>,
           NEW s \in Outcomes, NEW h \in HttpCodes, NEW u \in BOOLEAN,
           NEW sq, sq = EndAttempt(s, h, u)
    PROVE  /\ SameSent(attempts, sq) /\ sq[Len(attempts)].http = h
           /\ sq # <<>>
<1>1. /\ Len(attempts) \in 1..Len(attempts) /\ attempts[Len(attempts)] \in AttemptRow
      /\ Len(attempts) # 0
  BY LastFacts
<1>2. PICK r \in AttemptRow :
         /\ r = AttemptEnd(attempts[Len(attempts)], s, h, u) /\ r.http = h
         /\ r.dispatched = attempts[Len(attempts)].dispatched
  BY <1>1, AttemptEndFacts
<1>3. sq = [attempts EXCEPT ![Len(attempts)] = r]
  BY <1>1, <1>2 DEF EndAttempt, LastAttempt, AttemptEnd
<1>4. /\ sq \in Seq(AttemptRow) /\ Len(sq) = Len(attempts) /\ sq[Len(attempts)] = r
      /\ \A i \in 1..Len(attempts) : i # Len(attempts) => sq[i] = attempts[i]
  BY <1>3, LastReplaced
<1>5. sq # <<>>
  BY <1>1, <1>4, LastFacts
<1> QED BY <1>2, <1>4, <1>5 DEF SameSent

\* The Err arm of run.
LEMMA RejectFacts ==
    ASSUME CallInv, attempts # <<>>, NEW kind, NEW status \in Statuses \cup {0},
           reject(kind, status)
    PROVE  /\ SameSent(attempts, attempts') /\ attempts'[Len(attempts)].http = status
           /\ recovered' \in BOOLEAN /\ callPc' \in {"headers", "sleep", "done"}
           /\ callPc' # "done" => Clean(status) /\ Len(attempts) < MaxAttempts
<1>1. /\ attempts \in Seq(AttemptRow) /\ Len(attempts) <= MaxAttempts /\ recovered \in BOOLEAN
      /\ Len(attempts) \in 1..Len(attempts) /\ attempts[Len(attempts)] \in AttemptRow
  BY LastFacts DEF CallInv, CallTypes
<1>2. PICK s \in Outcomes : s = IF status # 0 THEN "rejected"
                                ELSE IF kind = "timeout" THEN "timed_out" ELSE "failed"
  BY DEF Outcomes
<1>3. PICK u \in BOOLEAN : u = (attempts[Len(attempts)].dispatched /\ ~Clean(status))
  OBVIOUS
<1>4. PICK sq :
         /\ sq = EndAttempt(IF status # 0 THEN "rejected"
                            ELSE IF kind = "timeout" THEN "timed_out" ELSE "failed",
                            status, attempts[LastAttempt].dispatched /\ ~Clean(status))
         /\ sq = EndAttempt(s, status, u)
  BY <1>2, <1>3, Zenon DEF LastAttempt
<1>5. /\ SameSent(attempts, sq) /\ sq[Len(attempts)].http = status /\ sq \in Seq(AttemptRow)
      /\ Len(sq) = Len(attempts)
  <2>1. sq = EndAttempt(s, status, u)
    BY <1>4
  <2>2. attempts \in Seq(AttemptRow)
    BY <1>1
  <2>3. SameSent(attempts, sq) /\ sq[Len(attempts)].http = status
    <3>1. s \in Outcomes /\ status \in HttpCodes /\ u \in BOOLEAN
      BY <1>2, <1>3 DEF HttpCodes
    <3> QED BY <2>1, <2>2, <3>1, EndFacts
  <2> QED BY <2>3 DEF SameSent
<1>6. \/ /\ status = 401 /\ ~recovered
         /\ \/ Failed_(sq, "authentication", TRUE) /\ UNCHANGED recovered
            \/ /\ recovered' = TRUE
               /\ IF Len(attempts) < MaxAttempts
                  THEN callPc' = "headers" /\ attempts' = sq /\ UNCHANGED callResult
                  ELSE Failed_(sq, "authentication", FALSE)
      \/ /\ UNCHANGED recovered
         /\ IF Final(status)
            THEN Failed_(sq, kind, FALSE)
            ELSE callPc' = "sleep" /\ attempts' = sq /\ UNCHANGED callResult
  BY <1>4, Zenon DEF reject, LastAttempt
<1>7. recovered' \in BOOLEAN
  BY <1>1, <1>6
<1>8. CASE \E k, a : Failed_(sq, k, a)
  <2>1. PICK k, a : Failed_(sq, k, a)
    BY <1>8
  <2>2. /\ callPc' = "done" /\ SameSent(sq, attempts')
        /\ \A i \in 1..Len(sq) : attempts'[i].http = sq[i].http
    BY <1>5, <2>1, FailedFacts
  <2>3. SameSent(attempts, attempts')
    BY <1>5, <2>2, Zenon DEF SameSent
  <2> QED BY <1>1, <1>5, <1>7, <2>2, <2>3
<1>9. CASE callPc' = "headers" /\ attempts' = sq /\ status = 401 /\ Len(attempts) < MaxAttempts
  BY <1>5, <1>7, <1>9 DEF Clean
<1>10. CASE callPc' = "sleep" /\ attempts' = sq /\ ~Final(status)
  <2>1. status = 429 /\ Len(attempts) # MaxAttempts
    BY <1>10 DEF Final, LastAttempt
  <2>2. Len(attempts) < MaxAttempts
    BY <1>1, <2>1, CallConstants
  <2> QED BY <1>5, <1>7, <1>10, <2>1, <2>2 DEF Clean
<1> QED BY <1>6, <1>8, <1>9, <1>10

\* Attempts that differ in their outcome tell the same of what was generated.
LEMMA ToldKept ==
    ASSUME CallInv, NEW sq, SameSent(attempts, sq),
           attempts # <<>> /\ Clean(sq[Len(attempts)].http) => generations = 0
    PROVE  AttemptsTell(sq, generations)
<1>1. /\ attempts \in Seq(AttemptRow) /\ AttemptsTell(attempts, generations)
      /\ sq \in Seq(AttemptRow) /\ Len(sq) = Len(attempts)
  BY DEF CallInv, CallTypes, Open_, SameSent
<1>2. sq # <<>> => attempts # <<>>
  BY <1>1, LastFacts
<1>3. generations # 0 => \E i \in 1..Len(sq) : sq[i].dispatched
  BY <1>1, Zenon DEF AttemptsTell, SameSent
<1> QED BY <1>1, <1>2, <1>3 DEF AttemptsTell

\* The Err arm of run keeps the invariant.
LEMMA RejectStep ==
    ASSUME CallInv, callPc \in {"connect", "stream"}, NEW kind, NEW status \in Statuses \cup {0},
           reject(kind, status), UNCHANGED <<wire, generations>>,
           Clean(status) => generations = 0 /\ decoder' = NoDecoder,
           decoder' \in DecoderRow, Measured(decoder', generations), ~decoder'.terminal,
           events' \in 0..MaxEvents, headerCost' \in {Unknown, 1, 2}
    PROVE  CallInv'
<1>1. attempts # <<>> /\ Len(attempts) > 0
  BY LastFacts DEF CallInv, CallTypes, Open_
<1>2. /\ SameSent(attempts, attempts') /\ attempts'[Len(attempts)].http = status
      /\ recovered' \in BOOLEAN /\ callPc' \in {"headers", "sleep", "done"}
      /\ callPc' # "done" => Clean(status) /\ Len(attempts) < MaxAttempts
  BY <1>1, RejectFacts
<1>3. AttemptsTell(attempts', generations)
  BY <1>2, ToldKept
<1>4. ResponseConfirmed'
  BY DEF ResponseConfirmed
<1>5. attempts' \in Seq(AttemptRow) /\ Len(attempts') = Len(attempts)
  BY <1>2 DEF SameSent
<1> QED BY <1>2, <1>3, <1>4, <1>5, EndsStep

\* respond ends a call from wherever it is.
LEMMA FailStep ==
    ASSUME CallInv, NEW kind, NEW auth_, Failed_(attempts, kind, auth_), callPc # "done",
           UNCHANGED <<wire, decoder, recovered, generations>>,
           events' \in 0..MaxEvents, headerCost' \in {Unknown, 1, 2}
    PROVE  CallInv'
<1>1. /\ attempts \in Seq(AttemptRow) /\ recovered \in BOOLEAN /\ decoder \in DecoderRow
      /\ Measured(decoder, generations) /\ ~decoder.terminal /\ AttemptsTell(attempts, generations)
  BY DEF CallInv, CallTypes, Open_
<1>2. /\ callPc' = "done" /\ SameSent(attempts, attempts')
      /\ \A i \in 1..Len(attempts) : attempts'[i].http = attempts[i].http
  BY <1>1, FailedFacts
<1>3. attempts # <<>> /\ Clean(attempts'[Len(attempts)].http) => generations = 0
  BY <1>1, <1>2, LastFacts DEF AttemptsTell
<1>4. AttemptsTell(attempts', generations)
  BY <1>2, <1>3, ToldKept
<1>5. attempts' \in Seq(AttemptRow) /\ Len(attempts') = Len(attempts)
  BY <1>2 DEF SameSent
<1>6. ResponseConfirmed' /\ ~decoder'.terminal
  BY <1>1 DEF ResponseConfirmed
<1>7. recovered' \in BOOLEAN /\ decoder' \in DecoderRow /\ Measured(decoder', generations)
  BY <1>1
<1> QED BY <1>2, <1>4, <1>5, <1>6, <1>7, EndsStep

\* The record of a new attempt.
NewAttempt == [status |-> "started", http |-> 0, dispatched |-> FALSE, uncertain |-> FALSE]
\* The record of a new attempt.
LEMMA NewAttemptFacts == NewAttempt \in AttemptRow /\ NewAttempt.http = 0
<1>1. ASSUME NEW u \in BOOLEAN
      PROVE  LET r == [status |-> "started", http |-> 0, dispatched |-> u, uncertain |-> u]
             IN  r \in AttemptRow /\ r.http = 0
  BY DEF AttemptRow
<1> QED BY <1>1, Zenon DEF NewAttempt

\* The head of an attempt.
LEMMA AttemptStep == ASSUME CallInv, attempt PROVE CallInv'
<1>1. /\ callPc = "headers" /\ headerCost' = Unknown /\ events' = 0
      /\ UNCHANGED <<wire, decoder, recovered, generations>>
  BY DEF attempt
<1>2. events' \in 0..MaxEvents /\ headerCost' \in {Unknown, 1, 2}
  BY <1>1, CallConstants
<1>3. CASE Failed_(attempts, "authentication", TRUE)
  BY <1>1, <1>2, <1>3, FailStep
<1>4. CASE /\ attempts' = Append(attempts, NewAttempt)
           /\ callPc' = IF wire.transport = "http" THEN "send" ELSE "connect"
  <2>1. /\ attempts \in Seq(AttemptRow) /\ Len(attempts) < MaxAttempts
        /\ decoder = NoDecoder /\ generations = 0 /\ callPc' \in {"send", "connect"}
    BY <1>1, <1>4 DEF CallInv, CallTypes, Quiet
  <2>2. /\ attempts' \in Seq(AttemptRow) /\ Len(attempts') = Len(attempts) + 1
        /\ attempts'[Len(attempts')] = NewAttempt
    BY <1>4, <2>1, NewAttemptFacts
  <2>3. Len(attempts') <= MaxAttempts /\ Len(attempts') > 0
    BY <2>1, <2>2, CallConstants, LastFacts
  <2>4. CallTypes'
    BY <1>1, <1>2, <2>1, <2>2, <2>3 DEF CallInv, CallTypes, CallPcs
  <2>5. Quiet' /\ Open_'
    BY <1>1, <2>1, <2>2, <2>3, NewAttemptFacts DEF Quiet, Open_, AttemptsTell
  <2> QED BY <1>1, <2>4, <2>5 DEF CallInv, Measured, ResponseConfirmed
<1> QED BY <1>3, <1>4 DEF attempt, NewAttempt

\* The state of a call with an attempt under way.
LEMMA UnderWay ==
    ASSUME CallInv, callPc \in {"connect", "send", "stream"}
    PROVE  /\ attempts \in Seq(AttemptRow) /\ attempts # <<>> /\ Len(attempts) <= MaxAttempts
           /\ Len(attempts) > 0 /\ Len(attempts) \in 1..Len(attempts)
           /\ attempts[Len(attempts)] \in AttemptRow /\ attempts[Len(attempts)].http = 0
           /\ decoder \in DecoderRow /\ Measured(decoder, generations) /\ ~decoder.terminal
           /\ events \in 0..MaxEvents /\ headerCost \in {Unknown, 1, 2} /\ generations \in 0..1
BY LastFacts DEF CallInv, CallTypes, Open_

\* The handshake of a WebSocket.
LEMMA ConnectStep == ASSUME CallInv, connect PROVE CallInv'
<1>1. callPc = "connect" /\ UNCHANGED <<wire, decoder, headerCost, generations, events>>
  BY DEF connect
<1>2. decoder = NoDecoder /\ generations = 0
  BY <1>1 DEF CallInv, Quiet
<1>3. CASE callPc' = "send" /\ UNCHANGED <<attempts, callResult, recovered>>
  <2>1. CallTypes' /\ Quiet' /\ Open_'
    BY <1>1, <1>2, <1>3 DEF CallInv, CallTypes, Quiet, Open_, CallPcs, AttemptsTell
  <2> QED BY <1>1, <2>1, UnderWay DEF CallInv, Measured, ResponseConfirmed
<1>4. ASSUME NEW k, NEW st \in Statuses \cup {0}, reject(k, st) PROVE CallInv'
  <2>1. /\ decoder' = NoDecoder /\ decoder' \in DecoderRow /\ Measured(decoder', generations)
        /\ ~decoder'.terminal
    BY <1>1, <1>2, UnderWay
  <2>2. events' \in 0..MaxEvents /\ headerCost' \in {Unknown, 1, 2}
    BY <1>1, UnderWay
  <2> QED BY <1>1, <1>2, <1>4, <2>1, <2>2, RejectStep
<1> QED BY <1>3, <1>4 DEF connect

\* The request is on its way: from here on something may be generated.
Sent(r) == [r EXCEPT !.dispatched = TRUE]
\* The record of an attempt that was dispatched.
LEMMA SentFacts ==
    \A r \in AttemptRow : Sent(r) \in AttemptRow /\ Sent(r).http = r.http /\ Sent(r).dispatched = TRUE
<1> TAKE r \in AttemptRow
<1>1. ASSUME NEW u \in BOOLEAN
      PROVE  LET x == [r EXCEPT !.dispatched = u]
             IN  x \in AttemptRow /\ x.http = r.http /\ x.dispatched = u
  BY DEF AttemptRow
<1> QED BY <1>1, Zenon DEF Sent

\* The request is sent, and the provider may generate from here on.
LEMMA SendCallStep == ASSUME CallInv, send PROVE CallInv'
<1>1. /\ callPc = "send" /\ callPc' = "stream" /\ attempts' = Dispatched
      /\ UNCHANGED <<wire, decoder, recovered, headerCost, events>>
  BY DEF send
<1>2. decoder = NoDecoder /\ generations = 0 /\ generations' \in 0..1
  <2>1. decoder = NoDecoder /\ generations = 0
    BY <1>1 DEF CallInv, Quiet
  <2>2. \E n \in 0..1 : generations' = generations + n
    BY DEF send
  <2> QED BY <2>1, <2>2
<1>3. PICK r \in AttemptRow : r = Sent(attempts[Len(attempts)]) /\ r.http = 0 /\ r.dispatched = TRUE
  BY <1>1, UnderWay, SentFacts
<1>4. attempts' = [attempts EXCEPT ![Len(attempts)] = r]
  BY <1>1, <1>3, UnderWay DEF Dispatched, LastAttempt, Sent
<1>5. /\ attempts' \in Seq(AttemptRow) /\ Len(attempts') = Len(attempts)
      /\ attempts'[Len(attempts)] = r
  BY <1>1, <1>4, UnderWay, LastReplaced
<1>6. CallTypes'
  BY <1>1, <1>2, <1>5 DEF CallInv, CallTypes, CallPcs
<1>7. Quiet'
  BY <1>1, <1>2 DEF Quiet
<1>8. Open_'
  <2>1. \E i \in 1..Len(attempts') : attempts'[i].dispatched
    BY <1>1, <1>3, <1>5, UnderWay
  <2>2. ~Clean(r.http)
    BY <1>3 DEF Clean
  <2>3. attempts'[Len(attempts')].dispatched /\ Len(attempts') > 0
    BY <1>1, <1>3, <1>5, UnderWay
  <2> QED BY <1>1, <1>3, <1>5, <2>1, <2>2, <2>3 DEF Open_, AttemptsTell
<1>9. Measured(decoder', generations') /\ ~decoder'.terminal
  BY <1>1, <1>2, NoDecoderFacts DEF Measured
<1> QED BY <1>6, <1>7, <1>8, <1>9 DEF CallInv, ResponseConfirmed, Measured

\* An answer that is not a success.
LEMMA StatusStep == ASSUME CallInv, http_status PROVE CallInv'
<1>1. callPc = "stream" /\ events = 0 /\ UNCHANGED <<wire, decoder, generations, events>>
  BY DEF http_status
<1>2. PICK st \in Statuses, c \in {Unknown, 1} :
         (Clean(st) => generations = 0) /\ reject("rejected", st) /\ headerCost' = c
  BY DEF http_status
<1>3. decoder' = NoDecoder /\ decoder' \in DecoderRow /\ Measured(decoder', generations)
      /\ ~decoder'.terminal
  BY <1>1, UnderWay DEF CallInv, Quiet
<1>4. events' \in 0..MaxEvents /\ headerCost' \in {Unknown, 1, 2}
  BY <1>1, <1>2, UnderWay
<1> QED BY <1>1, <1>2, <1>3, <1>4, RejectStep

\* The cost an HTTP header tells.
LEMMA CostStep == ASSUME CallInv, http_cost PROVE CallInv'
BY DEF http_cost, CallInv, CallTypes, Quiet, Open_, Measured, ResponseConfirmed

\* A stream that breaks.
LEMMA BrokenStep == ASSUME CallInv, broken PROVE CallInv'
<1>1. callPc = "stream" /\ UNCHANGED <<wire, decoder, headerCost, generations, events>>
  BY DEF broken
<1>2. PICK k : reject(k, 0)
  BY DEF broken
<1>3. /\ decoder' \in DecoderRow /\ Measured(decoder', generations) /\ ~decoder'.terminal
      /\ events' \in 0..MaxEvents /\ headerCost' \in {Unknown, 1, 2}
  BY <1>1, UnderWay
<1>4. 0 \in Statuses \cup {0} /\ ~Clean(0)
  BY DEF Clean
<1> QED BY <1>1, <1>2, <1>3, <1>4, RejectStep

\* The delay before the next attempt.
LEMMA DelayStep == ASSUME CallInv, retry_delay PROVE CallInv'
BY DEF retry_delay, CallInv, CallTypes, Quiet, Open_, Measured, ResponseConfirmed, CallPcs

-----------------------------------------------------------------------------
(* The events of a stream. *)

\* A decoder that has observed an event.
LEMMA SeenFacts ==
    \A d \in DecoderRow :
        /\ Seen(d) \in DecoderRow /\ Seen(d).usage = d.usage /\ Seen(d).terminal = d.terminal
        /\ Seen(d).items = d.items /\ Seen(d).id = d.id
<1> TAKE d \in DecoderRow
<1>1. ASSUME NEW u \in BOOLEAN
      PROVE  LET x == [d EXCEPT !.observed = u]
             IN  /\ x \in DecoderRow /\ x.usage = d.usage /\ x.terminal = d.terminal
                 /\ x.items = d.items /\ x.id = d.id
  BY DEF DecoderRow
<1> QED BY <1>1, Zenon DEF Seen

\* The id of the response, its text or one of its items.
WithId(d, id) == [d EXCEPT !.id = id]
WithText(d) == [d EXCEPT !.text = TRUE]
WithItems(d, m) == [d EXCEPT !.items = m]
\* A decoder that has read an identity, a text or an item.
LEMMA WithFacts ==
    \A d \in DecoderRow :
        /\ \A id \in 0..2 :
              /\ WithId(d, id) \in DecoderRow /\ WithId(d, id).usage = d.usage
              /\ WithId(d, id).terminal = d.terminal
        /\ WithText(d) \in DecoderRow /\ WithText(d).usage = d.usage
        /\ WithText(d).terminal = d.terminal
        /\ \A m \in ItemMaps :
              /\ WithItems(d, m) \in DecoderRow /\ WithItems(d, m).usage = d.usage
              /\ WithItems(d, m).terminal = d.terminal
<1> TAKE d \in DecoderRow
<1>1. ASSUME NEW u \in BOOLEAN
      PROVE  LET x == [d EXCEPT !.text = u]
             IN  x \in DecoderRow /\ x.usage = d.usage /\ x.terminal = d.terminal
  BY DEF DecoderRow
<1>2. /\ WithText(d) \in DecoderRow /\ WithText(d).usage = d.usage
      /\ WithText(d).terminal = d.terminal
  BY <1>1, Zenon DEF WithText
<1>3. \A id \in 0..2 :
        /\ WithId(d, id) \in DecoderRow /\ WithId(d, id).usage = d.usage
        /\ WithId(d, id).terminal = d.terminal
  BY DEF DecoderRow, WithId
<1>4. \A m \in ItemMaps :
        /\ WithItems(d, m) \in DecoderRow /\ WithItems(d, m).usage = d.usage
        /\ WithItems(d, m).terminal = d.terminal
  BY DEF DecoderRow, WithItems
<1> QED BY <1>2, <1>3, <1>4

\* An item more.
LEMMA ItemMore ==
    ASSUME NEW m \in ItemMaps, NEW i \in Indices, NEW x \in Items
    PROVE  [j \in DOMAIN m \cup {i} |-> IF j = i THEN x ELSE m[j]] \in ItemMaps
<1>1. PICK D \in SUBSET Indices : m \in [D -> Items]
  BY DEF ItemMaps
<1>2. [j \in D \cup {i} |-> IF j = i THEN x ELSE m[j]] \in [D \cup {i} -> Items]
  BY <1>1
<1>3. D \cup {i} \in SUBSET Indices /\ DOMAIN m = D
  BY <1>1
<1> QED BY <1>2, <1>3 DEF ItemMaps

\* An event that is not the last one.
LEMMA ProgressStep == ASSUME CallInv, progress PROVE CallInv'
<1>1. /\ callPc = "stream" /\ events < MaxEvents /\ events' = events + 1 /\ generations = 1
      /\ UNCHANGED <<callPc, wire, attempts, recovered, headerCost, generations>>
  BY DEF progress
<1>2. PICK d \in DecoderRow : d = Seen(decoder) /\ d.usage = decoder.usage
                              /\ d.terminal = decoder.terminal /\ d.items = decoder.items
  BY <1>1, UnderWay, SeenFacts
<1>3. decoder' \in DecoderRow /\ decoder'.usage = d.usage /\ decoder'.terminal = d.terminal
  <2>1. CASE \E id \in 1..2 : decoder' = [Seen(decoder) EXCEPT !.id = id]
    <3>1. PICK id \in 0..2 : decoder' = WithId(d, id)
      BY <1>2, <2>1 DEF WithId
    <3> QED BY <3>1, WithFacts
  <2>2. CASE decoder' = [Seen(decoder) EXCEPT !.text = TRUE]
    <3>1. decoder' = WithText(d)
      BY <1>2, <2>2, Zenon DEF WithText
    <3> QED BY <3>1, WithFacts
  <2>3. CASE \E i \in Indices, x \in Items :
               decoder' = [Seen(decoder) EXCEPT !.items =
                              [j \in DOMAIN @ \cup {i} |-> IF j = i THEN x ELSE @[j]]]
    <3>1. PICK i \in Indices, x \in Items :
             decoder' = [d EXCEPT !.items =
                           [j \in DOMAIN d.items \cup {i} |-> IF j = i THEN x ELSE d.items[j]]]
      BY <1>2, <2>3
    <3>2. d.items \in ItemMaps
      BY DEF DecoderRow
    <3>3. PICK m \in ItemMaps :
             m = [j \in DOMAIN d.items \cup {i} |-> IF j = i THEN x ELSE d.items[j]]
      BY <3>2, ItemMore
    <3>4. decoder' = WithItems(d, m)
      BY <3>1, <3>3 DEF WithItems
    <3> QED BY <3>4, WithFacts
  <2>4. CASE decoder' = Seen(decoder)
    BY <1>2, <2>4
  <2> QED BY <2>1, <2>2, <2>3, <2>4 DEF progress
<1>4. Measured(decoder', generations') /\ ~decoder'.terminal
  <2>1. Measured(decoder, generations) /\ ~decoder.terminal
    BY <1>1, UnderWay
  <2>2. ~decoder'.terminal
    BY <1>2, <1>3, <2>1, Zenon
  <2> QED BY <1>1, <1>2, <1>3, <2>1, <2>2 DEF Measured
<1>5. events' \in 0..MaxEvents /\ events' # 0
  BY <1>1, UnderWay, CallConstants
<1>6. CallTypes' /\ Quiet' /\ Open_'
  BY <1>1, <1>3, <1>5 DEF CallInv, CallTypes, Quiet, Open_
<1> QED BY <1>4, <1>6 DEF CallInv, ResponseConfirmed, Measured

\* The items that were streamed, in order.
LEMMA StreamedIs == ASSUME decoder \in DecoderRow PROVE Streamed \in Seq(Items)
<1>1. decoder.items \in ItemMaps
  BY DEF DecoderRow
<1>0. PICK D \in SUBSET Indices : decoder.items \in [D -> Items]
  BY <1>1 DEF ItemMaps
<1>2. PICK m \in [D -> Items] : m = decoder.items /\ DOMAIN m = D
  BY <1>0
<1>3. CASE D = {0, 1}
  <2>1. m[0] \in Items /\ m[1] \in Items
    BY <1>2, <1>3
  <2>2. <<m[0], m[1]>> \in Seq(Items)
    BY <2>1
  <2> QED BY <1>2, <1>3, <2>2 DEF Streamed
<1>4. CASE D # {0, 1}
  <2>1. IsFiniteSet(D) /\ Cardinality(D) \in Nat
    <3>1. IsFiniteSet(Indices)
      <4>1. 0 \in Int /\ 1 \in Int
        OBVIOUS
      <4> QED BY <4>1, FS_Interval DEF Indices
    <3> QED BY <1>0, <3>1, FS_Subset, FS_CardinalityType
  <2>2. PICK c \in Nat : c = Cardinality(D)
    BY <2>1
  <2>3. PICK e : e = CHOOSE i \in D : TRUE
    OBVIOUS
  <2>4. Streamed = [n \in 1..c |-> m[e]]
    BY <1>2, <1>4, <2>2, <2>3 DEF Streamed
  <2>5. c # 0 => e \in D
    <3>1. D = {} => c = 0
      BY <2>2, FS_EmptySet
    <3> QED BY <2>3, <3>1
  <2>6. CASE c = 0
    <3>1. Streamed = <<>>
      BY <2>4, <2>6
    <3> QED BY <3>1
  <2>7. CASE c # 0
    <3>1. m[e] \in Items
      BY <1>2, <2>5, <2>7
    <3> QED BY <2>4, <3>1
  <2> QED BY <2>6, <2>7
<1> QED BY <1>3, <1>4

\* The decoder of an accepted response.
Amounts == {Unknown, 1}
ResponseIds == 0..2
DecodedBy(d, id, h, u, c) ==
    [d EXCEPT !.id = id, !.terminal = TRUE, !.history = h, !.usage = u, !.cost = c]
\* The decoder of an accepted response.
LEMMA DecodedFacts ==
    \A d \in DecoderRow, id \in ResponseIds, h \in Seq(Items), u \in Amounts, c \in Amounts :
        /\ DecodedBy(d, id, h, u, c) \in DecoderRow /\ DecodedBy(d, id, h, u, c).usage = u
        /\ DecodedBy(d, id, h, u, c).items = d.items /\ DecodedBy(d, id, h, u, c).history = h
<1> TAKE d \in DecoderRow, id \in ResponseIds, h \in Seq(Items), u \in Amounts, c \in Amounts
<1>1. ASSUME NEW t \in BOOLEAN
      PROVE  LET x == [d EXCEPT !.id = id, !.terminal = t, !.history = h, !.usage = u, !.cost = c]
             IN  x \in DecoderRow /\ x.usage = u /\ x.items = d.items /\ x.history = h
  BY DEF DecoderRow, ResponseIds, Amounts
<1> QED BY <1>1, Zenon DEF DecodedBy

\* The last event: an accepted response confirms every item that was streamed,
\* another one breaks the attempt.
LEMMA TerminalStep == ASSUME CallInv, terminal_event PROVE CallInv'
<1>1. /\ callPc = "stream" /\ events < MaxEvents /\ events' = events + 1 /\ generations = 1
      /\ UNCHANGED <<wire, headerCost, generations>>
  BY DEF terminal_event
<1>2. PICK id \in 1..2, status \in {"completed", "other"}, usage \in {"exact", "absent"},
           cost \in {Unknown, 1}, n \in 0..2 : \E output \in [1..n -> Items] :
        IF Accepts(id, History(status, output))
        THEN /\ decoder' = [Seen(decoder) EXCEPT !.id = id, !.terminal = TRUE,
                               !.history = History(status, output),
                               !.usage = Usage(usage), !.cost = cost]
             /\ attempts' = EndAttempt("received", 0, Usage(usage) = Unknown)
             /\ callPc' = "done" /\ UNCHANGED <<callResult, recovered>>
        ELSE /\ decoder' = [Seen(decoder) EXCEPT !.id = IF Binds(id) THEN id ELSE @]
             /\ reject("malformed", 0)
  BY DEF terminal_event
<1>3. PICK output \in [1..n -> Items] :
        IF Accepts(id, History(status, output))
        THEN /\ decoder' = [Seen(decoder) EXCEPT !.id = id, !.terminal = TRUE,
                               !.history = History(status, output),
                               !.usage = Usage(usage), !.cost = cost]
             /\ attempts' = EndAttempt("received", 0, Usage(usage) = Unknown)
             /\ callPc' = "done" /\ UNCHANGED <<callResult, recovered>>
        ELSE /\ decoder' = [Seen(decoder) EXCEPT !.id = IF Binds(id) THEN id ELSE @]
             /\ reject("malformed", 0)
  BY <1>2
<1>4. PICK h \in Seq(Items) : h = History(status, output)
  <2>1. output \in Seq(Items)
    BY <1>2, <1>3
  <2> QED BY <1>1, <2>1, UnderWay, StreamedIs DEF History
<1>5. PICK d \in DecoderRow : /\ d = Seen(decoder) /\ d.usage = decoder.usage /\ d.id = decoder.id
                              /\ d.terminal = decoder.terminal /\ d.items = decoder.items
  BY <1>1, UnderWay, SeenFacts
<1>6. PICK u \in {Unknown, 1} : u = Usage(usage)
  BY DEF Usage
<1>7. events' \in 0..MaxEvents /\ headerCost' \in {Unknown, 1, 2}
  BY <1>1, UnderWay, CallConstants
<1>8. CASE Accepts(id, h)
  <2>1. /\ decoder' = DecodedBy(d, id, h, u, cost) /\ callPc' = "done" /\ recovered' = recovered
        /\ attempts' = EndAttempt("received", 0, u = Unknown)
    BY <1>3, <1>4, <1>5, <1>6, <1>8, Zenon DEF DecodedBy
  <2>2. /\ decoder' \in DecoderRow /\ decoder'.usage = u /\ decoder'.items = decoder.items
        /\ decoder'.history = h
    <3>1. id \in 0..2 /\ cost \in {Unknown, 1}
      BY <1>2
    <3>2. PICK k \in ResponseIds, c \in Amounts : k = id /\ c = cost
      BY <3>1 DEF ResponseIds, Amounts
    <3>3. /\ DecodedBy(d, k, h, u, c) \in DecoderRow /\ DecodedBy(d, k, h, u, c).usage = u
          /\ DecodedBy(d, k, h, u, c).items = d.items /\ DecodedBy(d, k, h, u, c).history = h
      <4>1. /\ d \in DecoderRow /\ k \in ResponseIds /\ h \in Seq(Items) /\ u \in Amounts
            /\ c \in Amounts
        BY <1>4, <1>5, <1>6, <3>2 DEF Amounts
      <4> QED BY <4>1, DecodedFacts
    <3> QED BY <1>5, <2>1, <3>2, <3>3
  <2>3. /\ SameSent(attempts, attempts') /\ attempts'[Len(attempts)].http = 0
    <3>1. "received" \in Outcomes /\ 0 \in Statuses \cup {0} /\ (u = Unknown) \in BOOLEAN
      BY DEF Outcomes
    <3>2. attempts \in Seq(AttemptRow) /\ attempts # <<>>
      BY <1>1, UnderWay
    <3>3. PICK v \in BOOLEAN : v = (u = Unknown)
      OBVIOUS
    <3>4. attempts' = EndAttempt("received", 0, v)
      BY <2>1, <3>3, Zenon
    <3>5. PICK s \in Outcomes, z \in HttpCodes : s = "received" /\ z = 0
      BY <3>1 DEF HttpCodes
    <3>6. attempts' = EndAttempt(s, z, v)
      BY <3>4, <3>5
    <3>7. SameSent(attempts, attempts') /\ attempts'[Len(attempts)].http = z
      <4>1. s \in Outcomes /\ z \in HttpCodes /\ v \in BOOLEAN
        BY <3>3, <3>5
      <4> QED BY <3>2, <3>6, <4>1, EndFacts
    <3> QED BY <3>5, <3>7
  <2>4. AttemptsTell(attempts', generations)
    BY <2>3, ToldKept DEF Clean
  <2>5. ResponseConfirmed'
    <3>1. ASSUME NEW i \in DOMAIN decoder.items
          PROVE  i + 1 <= Len(h) /\ (CallId(decoder.items[i]) => h[i + 1] = decoder.items[i])
      BY <1>8, <3>1 DEF Accepts, terminal_item_confirms, CallId
    <3>2. Cardinality({i \in DOMAIN h : CallId(h[i])}) <= 1
      <4>1. \A i, j \in {k \in DOMAIN h : CallId(h[k])} : i = j
        BY <1>8, Zenon DEF Accepts, Distinct
      <4> DEFINE C == {k \in DOMAIN h : CallId(h[k])}
      <4> HIDE DEF C
      <4>2. \A i, j \in C : i = j
        BY <4>1 DEF C
      <4>3. Cardinality(C) <= 1
        <5>1. CASE C = {}
          <6>1. Cardinality(C) = 0
            BY <5>1, FS_EmptySet
          <6> QED BY <6>1
        <5>2. CASE C # {}
          <6>1. PICK k \in C : TRUE
            BY <5>2
          <6>2. C = {k}
            BY <4>2, <6>1
          <6>3. Cardinality({k}) = 1
            BY FS_Singleton
          <6> QED BY <6>2, <6>3
        <5> QED BY <5>1, <5>2
      <4> QED BY <4>3 DEF C
    <3> QED BY <2>2, <3>1, <3>2 DEF ResponseConfirmed
  <2>6. Measured(decoder', generations)
    BY <1>1, <1>6, <2>2 DEF Measured
  <2>7. attempts' \in Seq(AttemptRow) /\ Len(attempts') = Len(attempts) /\ recovered' \in BOOLEAN
    BY <2>1, <2>3 DEF SameSent, CallInv, CallTypes
  <2> QED BY <1>1, <1>7, <2>1, <2>2, <2>4, <2>5, <2>6, <2>7, EndsStep
<1>9. CASE ~Accepts(id, h)
  <2>1. /\ reject("malformed", 0)
        /\ decoder' = [Seen(decoder) EXCEPT !.id = IF Binds(id) THEN id ELSE @]
    BY <1>3, <1>4, <1>9
  <2>2. PICK k \in 0..2 : decoder' = WithId(d, k)
    <3>1. d.id \in 0..2
      BY DEF DecoderRow
    <3> QED BY <1>2, <1>5, <2>1, <3>1 DEF WithId
  <2>3. decoder' \in DecoderRow /\ decoder'.usage = decoder.usage /\ decoder'.terminal = decoder.terminal
    BY <1>5, <2>2, WithFacts
  <2>4. Measured(decoder, generations) /\ ~decoder.terminal
    BY <1>1, UnderWay
  <2>5. Measured(decoder', generations)
    BY <2>3, <2>4 DEF Measured
  <2>6. ~decoder'.terminal
    BY <2>3, <2>4, Zenon
  <2>7. 0 \in Statuses \cup {0} /\ ~Clean(0)
    BY DEF Clean
  <2> QED BY <1>1, <1>7, <2>1, <2>3, <2>5, <2>6, <2>7, RejectStep
<1> QED BY <1>8, <1>9

\* A cancellation or a timeout at any point of the call.
LEMMA InterruptedStep == ASSUME CallInv, NEW k, interrupted(k) PROVE CallInv'
<1>1. /\ callPc # "done" /\ Failed_(attempts, k, FALSE)
      /\ UNCHANGED <<wire, decoder, recovered, headerCost, generations, events>>
  BY DEF interrupted
<1>2. events' \in 0..MaxEvents /\ headerCost' \in {Unknown, 1, 2}
  BY <1>1 DEF CallInv, CallTypes
<1> QED BY <1>1, <1>2, FailStep

\* Every step of a call keeps its invariant.
LEMMA CallKept == CallInv /\ [ProviderNext]_providerVars => CallInv'
<1> SUFFICES ASSUME CallInv, [ProviderNext]_providerVars PROVE CallInv'
  OBVIOUS
<1>1. CASE UNCHANGED providerVars
  BY <1>1 DEF providerVars, CallInv, CallTypes, Quiet, Open_, Measured, ResponseConfirmed
<1>2. CASE ProviderNext
  BY <1>2, AttemptStep, ConnectStep, SendCallStep, StatusStep, CostStep, BrokenStep, DelayStep,
     ProgressStep, TerminalStep, InterruptedStep DEF ProviderNext
<1> QED BY <1>1, <1>2

\* What the receipt leaves unknown is told apart from every amount.
LEMMA CostFacts ==
    ASSUME CallInv
    PROVE  /\ cost_usd # Unknown => cost_usd # 0
           /\ NeverDispatched => generations = 0
           /\ retryable_pre_generation_rejection => generations = 0
           /\ decoder.usage \in {Unknown, generations}
<1>1. headerCost \in {Unknown, 1, 2} /\ decoder.cost \in {Unknown, 1}
  BY DEF CallInv, CallTypes, DecoderRow
<1>2. cost_usd # Unknown => cost_usd # 0
  BY <1>1, CallConstants DEF cost_usd
<1>3. attempts \in Seq(AttemptRow) /\ AttemptsTell(attempts, generations) /\ generations \in 0..1
  BY DEF CallInv, CallTypes, Open_
<1>4. NeverDispatched => generations = 0
  <2>1. DOMAIN attempts = 1..Len(attempts)
    BY <1>3
  <2> QED BY <1>3, <2>1 DEF NeverDispatched, AttemptsTell
<1>5. retryable_pre_generation_rejection => generations = 0
  <2>1. \A s \in {401, 429} : clean_rejection(s) => Clean(attempts[Len(attempts)].http)
    BY DEF clean_rejection, LastAttempt, Clean
  <2>2. \A s \in {401, 429} : clean_rejection(s) => attempts # <<>>
    BY DEF clean_rejection
  <2> QED BY <1>3, <2>1, <2>2 DEF retryable_pre_generation_rejection, AttemptsTell
<1>6. decoder.usage \in {Unknown, generations}
  BY DEF CallInv, Measured
<1> QED BY <1>2, <1>4, <1>5, <1>6

\* The receipt of a call is exact, one attempt at most generated, and every
\* attempt starts with an empty decoder.
LEMMA CallSound ==
    CallInv =>
        /\ ProviderTypeOK /\ AccountedExact /\ GeneratedOnce
        /\ AttemptStartsFresh /\ ResponseConfirmed
<1> SUFFICES ASSUME CallInv
             PROVE  /\ ProviderTypeOK /\ AccountedExact /\ GeneratedOnce
                    /\ AttemptStartsFresh /\ ResponseConfirmed
  OBVIOUS
<1>1. ProviderTypeOK
  <2>1. \A i \in DOMAIN attempts : attempts[i] \in AttemptRow
    BY DEF CallInv, CallTypes
  <2>2. decoder.id \in 0..2 /\ decoder.items \in ItemMaps
    BY DEF CallInv, CallTypes, DecoderRow
  <2>3. DOMAIN decoder.items \subseteq Indices
    BY <2>2 DEF ItemMaps
  <2>4. \A r \in AttemptRow :
          /\ r.status \in {"started", "received", "rejected", "timed_out", "failed", "cancelled"}
          /\ r.http \in Statuses \cup {0} /\ r.dispatched \in BOOLEAN /\ r.uncertain \in BOOLEAN
    BY DEF AttemptRow
  <2> QED BY <2>1, <2>2, <2>3, <2>4 DEF ProviderTypeOK, CallInv, CallTypes, CallPcs, Wires
<1>2. AccountedExact
  <2>1. accounted_tokens \in {Unknown, generations}
    BY CostFacts, Zenon DEF accounted_tokens
  <2>2. accounted_cost = 0 => generations = 0
    BY CostFacts, CallConstants DEF accounted_cost
  <2> QED BY <2>1, <2>2 DEF AccountedExact
<1>3. GeneratedOnce
  BY DEF GeneratedOnce, CallInv, CallTypes
<1>4. AttemptStartsFresh /\ ResponseConfirmed
  BY DEF AttemptStartsFresh, CallInv, Quiet
<1> QED BY <1>1, <1>2, <1>3, <1>4

-----------------------------------------------------------------------------
(* The composition. *)

\* A behaviour is one of the component it is about.
ServiceInv ==
    /\ part = "auth" => CredInv
    /\ part = "installer" => InstallInv
    /\ part = "provider" => CallInv
    /\ part = "review" => ReviewInv
    /\ part = "browser" => BrowserInv

\* A step is one of the component, or changes nothing of it.
LEMMA ServiceStep ==
    [Next]_vars =>
        /\ part' = part
        /\ part = "auth" => [CredentialsNext]_credVars
        /\ part = "installer" => [InstallerNext]_iVars
        /\ part = "provider" => [ProviderNext]_providerVars
        /\ part = "review" => [ReviewNext]_reviewVars
        /\ part = "browser" => [BrowserNext]_browserVars
BY DEF Next, vars

\* Each invariant holds at the start and is kept.
LEMMA ServicesKept == Spec => []ServiceInv
<1>1. Init => ServiceInv
  BY CredStart, InstallStart, CallStart, ReviewStart, BrowserStart DEF Init, ServiceInv
<1>2. ServiceInv /\ [Next]_vars => ServiceInv'
  BY ServiceStep, CredKept, InstallKept, CallKept, ReviewKept, BrowserKept DEF ServiceInv
<1> QED BY <1>1, <1>2, PTL DEF Spec

\* transport.rs, protocol.rs, auth.rs, update.rs and assets.rs: a receipt never
\* understates what was generated, a call generates once, a response is of one
\* attempt and confirms what was streamed; a login is not undone and an
\* instance keeps its account; only a whole, verified release is installed,
\* and one process at a time downloads a page that is missing.
THEOREM ProviderAlwaysSound == Spec => []ProviderSound
<1>1. ServiceInv => ProviderSound
  BY CredSound, InstallSound, CallSound DEF ServiceInv, ProviderSound
<1> QED BY <1>1, ServicesKept, PTL

\* review/server.rs, app.ts, review-state.ts and question-state.ts: everything
\* a session shows is of one version of the workspace although handlers come
\* back to it after a refresh, the agent has one operation, threads and
\* overviews wait only for one that runs; the page is of the session shown, a
\* question shown as being answered is followed, and whatever blocks the page
\* is still to be answered, although answers are lost, late or of an older
\* generation.
THEOREM ReviewAlwaysSound == Spec => []ReviewSound
<1>1. ServiceInv => ReviewSound
  BY ReviewSoundness, BrowserSoundness DEF ServiceInv, ReviewSound
<1> QED BY <1>1, ServicesKept, PTL

\* auth.rs: an instance never presents a refresh token twice, and presents
\* only one whose access token expired or was rejected; assets.rs: a page
\* that is whole is not moved away; review/server.rs: a decision is taken once,
\* about a page of the session that is current when it is taken.
THEOREM ServiceStepsSound ==
    Spec => [][ /\ part = "auth" => PresentedOnce /\ RefreshNeeded
                /\ part = "installer" => ValidStays
                /\ part = "review" => DecisionAboutCurrent ]_vars
<1>1. ServiceInv /\ [Next]_vars =>
        [ /\ part = "auth" => PresentedOnce /\ RefreshNeeded
          /\ part = "installer" => ValidStays
          /\ part = "review" => DecisionAboutCurrent ]_vars
  BY ServiceStep, CredSteps, InstallSteps, DecisionStep DEF ServiceInv
<1> QED BY <1>1, ServicesKept, PTL DEF Spec
=============================================================================
