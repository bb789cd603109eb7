----------------------- MODULE OneTimePasswordsProofs -----------------------
(***************************************************************************)
(* Proofs about OneTimePasswords, for any number of phones, addresses,     *)
(* rows, attempts, levels and requests, however they overlap and wherever  *)
(* the process dies.                                                       *)
(*                                                                         *)
(* The limits and the attempts are columns of rows that other requests     *)
(* update, delete and create again.  What is counted of a phone is bounded *)
(* by its row, or by what the request that replaces the row has read, as   *)
(* long as there is one such request.  The wrong answers about a code are  *)
(* bounded by a potential: what the requests in flight can still bring     *)
(* about, with the attempts that the row has and those they have read.     *)
(***************************************************************************)
EXTENDS OneTimePasswords, SumLemmas

N == Cardinality(Reqs)

\* How many codes have been sent at most, at a level and a count.
Most(level, count) == IF level = 1 THEN count ELSE count + 1

-----------------------------------------------------------------------------
(* The inductive invariant. *)

\* Where a request may be, and what it has in its variables there.
AfterFind == {"expire", "wrong", "mark", "drop", "accept"}

StageOK(q) ==
  \/ q = Idle
  \/ /\ q.pc \in {"byPhone", "verify"}
     /\ q.phone \in Phones /\ q.seen = None /\ q.updates = <<>>
  \/ /\ q.pc = "byIp"
     /\ q.phone \in Phones /\ q.seen \in Limit \cup {None} /\ q.updates = <<>>
  \/ /\ q.pc = "block"
     /\ q.phone \in Phones /\ q.seen = None /\ q.updates # <<>>
  \/ /\ q.pc \in {"clear", "create"}
     /\ q.phone \in Phones /\ q.seen = None /\ q.updates = <<>>
     /\ q.count >= 1 /\ Most(q.level, q.count) <= 2
  \/ /\ q.pc \in AfterFind
     /\ q.phone \in Phones /\ q.seen \in Found /\ q.updates = <<>>
     /\ q.pc = "wrong" => q.seen.attempts < MaxAttempts

\* A row that was found is one of the phone, if it is still there.
RefOK(q) ==
  q.pc \in AfterFind /\ IsRow(q.seen.id) => otps[q.seen.id].phone = q.phone

\* A row counts no more than the limits allow, and a pending one has attempts
\* left.
RowOK(row) ==
  /\ Most(row.level, row.count) <= 2
  /\ row.status = "PENDING" => row.attempts < MaxAttempts

HistoryOK ==
  /\ sent \in [Phones -> Nat]
  /\ crowded \subseteq Phones
  /\ wrong \in [Ids -> Nat] /\ uses \in [Ids -> Nat]
  /\ left \subseteq Ids

\* Types, and what is known of rows and requests on their own.
TInv ==
  /\ purpose \in Purposes
  /\ otps \in [Ids -> Otp \cup {None}]
  /\ \A id \in Ids : IsRow(id) => RowOK(otps[id])
  /\ req \in [Reqs -> ReqRow]
  /\ \A r \in Reqs : StageOK(req[r]) /\ RefOK(req[r])
  /\ HistoryOK

\* What a request for a code has read still bounds what was sent.
SendOK(q) ==
  /\ q.pc = "byIp" /\ q.seen = None => sent[q.phone] = 0
  /\ q.pc = "byIp" /\ q.seen # None /\ ~q.seen.blocked =>
       sent[q.phone] <= Most(q.seen.level, q.seen.count)
  /\ q.pc \in {"clear", "create"} =>
       sent[q.phone] + 1 <= Most(q.level, q.count)
  /\ q.pc = "create" => OfPhone(q.phone) = {}

\* The requests that are about to create a code of a phone.
Creators(p) == {r \in Reqs : At(r, "create") /\ Phone(r) = p}

\* A phone that is not crowded: one request for a code, one row, and both
\* bound what was sent.
LimitOK(p) ==
  p \notin crowded =>
    /\ \A i, j \in OfPhone(p) : i = j
    /\ \A q1, q2 \in Senders(p) : q1 = q2
    /\ \A q \in Senders(p) : SendOK(req[q])
    /\ \A id \in OfPhone(p) :
         otps[id].blocked \/ sent[p] <= Most(otps[id].level, otps[id].count)
    /\ OfPhone(p) = {} /\ Creators(p) = {} => sent[p] = 0
    /\ sent[p] <= 2

\* Each code of a phone was created by a request that would now have to be in
\* flight to create another one.
CodesOK(p) == Cardinality(OfPhone(p)) + Cardinality(Creators(p)) <= N

Pending(id) == IsRow(id) /\ otps[id].status = "PENDING"

\* A request that stands at pc with the row it found.
Holds(r, pc, id) == At(r, pc) /\ req[r].seen.id = id

\* The requests that are about to drop a code that was used, and those that
\* are about to use it.
Dropping(id) == {r \in Reqs : Holds(r, "drop", id)}
Using(id) == {r \in Reqs : Holds(r, "mark", id) \/ Holds(r, "accept", id)}

UsesOK(id) ==
  id \notin left =>
    IF Pending(id) THEN uses[id] = Cardinality(Dropping(id))
    ELSE uses[id] + Cardinality(Using(id)) <= N

\* The wrong answers that a request still stands for: it is about to count one
\* from the attempts a it has read, or not, and the code is pending with v
\* attempts, or not.
StakeOf(pending, counting, a, v) ==
  IF pending
  THEN Answers[MaxAttempts - (IF counting /\ a < v THEN a ELSE v)]
  ELSE IF counting THEN 1 ELSE 0

Stake(r, id) ==
  StakeOf(Pending(id), Holds(r, "wrong", id),
          req[r].seen.attempts, otps[id].attempts)

Stakes(id) == SumFunctionOnSet([r \in Reqs |-> Stake(r, id)], Reqs)

GuessOK(id) ==
  /\ wrong[id] <= N * Answers[MaxAttempts]
  /\ IsRow(id) => wrong[id] + Stakes(id) <= N * Answers[MaxAttempts]

IInv ==
  /\ TInv
  /\ \A p \in Phones : LimitOK(p) /\ CodesOK(p)
  /\ \A id \in Ids : UsesOK(id) /\ GuessOK(id)

-----------------------------------------------------------------------------
(* Constants. *)

\* The bounds are numbers.
LEMMA Bounds ==
  /\ MaxAttempts \in Nat /\ MaxAttempts >= 1 /\ MaxLevel \in Nat /\ MaxLevel >= 1
  /\ 1 \in Levels /\ 0 \in Counts /\ \A l \in Levels : l \in Nat
  /\ \A c \in Counts : c \in Nat
  /\ \A a \in 0..MaxAttempts : a \in Nat /\ MaxAttempts - a \in 0..MaxAttempts
  /\ 0 \in 0..MaxAttempts
  /\ IsFiniteSet(Reqs) /\ N \in Nat /\ IsFiniteSet(Ids)
<1>1. MaxAttempts \in Nat /\ MaxAttempts >= 1 /\ MaxLevel \in Nat
      /\ MaxLevel >= 1 /\ MaxId \in Nat
  BY OneTimePasswordsAssumption
<1>2. IsFiniteSet(Reqs) /\ N \in Nat
  BY OneTimePasswordsAssumption, FS_CardinalityType DEF N
<1>3. IsFiniteSet(Ids)
  BY <1>1, FS_Interval DEF Ids
<1> QED
  BY <1>1, <1>2, <1>3 DEF Levels, Counts

\* Null is no phone, no row and nothing that was read.
LEMMA NullApart ==
  None \notin Phones /\ None \notin Otp /\ None \notin Found
  /\ None \notin Limit /\ None \notin Ids
BY OneTimePasswordsAssumption DEF Ids

\* A slot with no request has its type.
LEMMA IdleType ==
  /\ Idle \in ReqRow /\ Idle.pc = "idle" /\ Idle.phone = None
  /\ Idle.seen = None /\ Idle.updates = <<>>
  /\ Idle.pc \notin AfterFind /\ Idle.pc \notin Sending
  /\ StageOK(Idle) /\ RefOK(Idle)
<1>1. <<>> \in Seq(Level)
  OBVIOUS
<1>2. /\ Idle \in ReqRow /\ Idle.pc = "idle" /\ Idle.phone = None
      /\ Idle.seen = None /\ Idle.updates = <<>>
  BY <1>1, Bounds DEF Idle, ReqRow
<1> QED
  BY <1>2 DEF AfterFind, Sending, StageOK, RefOK

-----------------------------------------------------------------------------
(* Answers. *)

\* Induction up to a bound, for a set instead of a predicate.
LEMMA UpTo ==
  ASSUME NEW m \in Nat, NEW G, 0 \in G,
         \A n \in 0..(m - 1) : n \in G => n + 1 \in G
  PROVE  \A n \in 0..m : n \in G
<1> DEFINE Bad == {i \in 1..(m + 1) : m + 1 - i \notin G}
<1> SUFFICES ASSUME NEW n \in 0..m, n \notin G PROVE FALSE
  OBVIOUS
<1>1. m + 1 - n \in 1..(m + 1) /\ m + 1 - (m + 1 - n) = n
  OBVIOUS
<1>2. m + 1 - n \in Bad
  BY <1>1
<1>3. Bad \in SUBSET (1..(m + 1)) /\ Bad # {} /\ m + 1 \in Nat
  <2>1. Bad \subseteq 1..(m + 1)
    OBVIOUS
  <2> HIDE DEF Bad
  <2> QED
    BY <1>2, <2>1
<1>4. PICK i \in Bad : \A j \in Bad : j <= i
  <2> HIDE DEF Bad
  <2> QED
    BY <1>3, LastIndex
<1>5. i # m + 1 /\ i \in 1..(m + 1)
  <2>1. m + 1 - (m + 1) = 0
    OBVIOUS
  <2> QED
    BY <1>4, <2>1
<1>6. i + 1 \in 1..(m + 1) /\ ~(i + 1 <= i)
  BY <1>5
<1>7. m + 1 - (i + 1) \in G
  BY <1>4, <1>6
<1>8. m + 1 - (i + 1) \in 0..(m - 1) /\ m + 1 - (i + 1) + 1 = m + 1 - i
  BY <1>5
<1>9. m + 1 - i \in G
  BY <1>7, <1>8
<1> QED
  BY <1>4, <1>9

\* h is Answers, up to m.
Recurs(h, m) == h = [n \in 0..m |-> IF n = 0 THEN 0 ELSE N * h[n - 1] + 1]

LEMMA RecursExists == \E h : Recurs(h, MaxAttempts)
<1> DEFINE G == {m \in 0..MaxAttempts : \E h : Recurs(h, m)}
<1>1. 0 \in G
  <2> DEFINE h == [n \in 0..0 |-> 0]
  <2>1. Recurs(h, 0)
    BY DEF Recurs
  <2> HIDE DEF h
  <2> QED
    BY <2>1, Bounds
<1>2. ASSUME NEW m \in 0..(MaxAttempts - 1), m \in G
      PROVE  m + 1 \in G
  <2>1. PICK g : Recurs(g, m)
    BY <1>2
  <2> DEFINE h == [n \in 0..(m + 1) |-> IF n = m + 1 THEN N * g[m] + 1 ELSE g[n]]
  <2>2. m \in Nat /\ m + 1 \in 0..MaxAttempts /\ m + 1 # 0 /\ m + 1 - 1 = m
    BY Bounds
  <2>3. ASSUME NEW n \in 0..(m + 1)
        PROVE  h[n] = IF n = 0 THEN 0 ELSE N * h[n - 1] + 1
    <3>1. CASE n = m + 1
      <4>1. h[m] = g[m] /\ h[m + 1] = N * g[m] + 1
        BY <2>2
      <4> HIDE DEF h
      <4> QED
        BY <2>2, <3>1, <4>1
    <3>2. CASE n # m + 1
      <4>1. n \in 0..m /\ h[n] = g[n]
        BY <2>2, <3>2
      <4>2. n # 0 => n - 1 \in 0..(m + 1) /\ n - 1 # m + 1
        BY <2>2
      <4>3. n # 0 => h[n - 1] = g[n - 1]
        BY <4>2
      <4>4. g[n] = IF n = 0 THEN 0 ELSE N * g[n - 1] + 1
        BY <2>1, <4>1 DEF Recurs
      <4> HIDE DEF h
      <4> QED
        BY <4>1, <4>3, <4>4
    <3> QED
      BY <3>1, <3>2
  <2>4. Recurs(h, m + 1)
    BY <2>3 DEF Recurs
  <2> HIDE DEF h
  <2> QED
    BY <2>2, <2>4
<1> HIDE DEF G
<1>3. \A m \in 0..MaxAttempts : m \in G
  BY <1>1, <1>2, Bounds, UpTo
<1> QED
  BY <1>3, Bounds DEF G

\* What Answers computes.
LEMMA AnswersFacts ==
  /\ Answers \in [0..MaxAttempts -> Nat]
  /\ Answers[0] = 0
  /\ \A n \in 1..MaxAttempts : Answers[n] = N * Answers[n - 1] + 1
<1>1. Recurs(Answers, MaxAttempts)
  BY RecursExists DEF Answers, Recurs, N
<1> DEFINE G == {m \in 0..MaxAttempts : Answers[m] \in Nat}
<1>2. /\ Answers[0] = 0
      /\ \A n \in 1..MaxAttempts : Answers[n] = N * Answers[n - 1] + 1
  <2>1. ASSUME NEW n \in 0..MaxAttempts
        PROVE  Answers[n] = IF n = 0 THEN 0 ELSE N * Answers[n - 1] + 1
    BY <1>1 DEF Recurs
  <2>2. 0 \in 0..MaxAttempts
        /\ \A n \in 1..MaxAttempts : n \in 0..MaxAttempts /\ n # 0
    BY Bounds
  <2> QED
    BY <2>1, <2>2
<1>3. 0 \in G
  BY <1>2, Bounds
<1>4. ASSUME NEW m \in 0..(MaxAttempts - 1), m \in G
      PROVE  m + 1 \in G
  <2>1. m + 1 \in 1..MaxAttempts /\ m + 1 - 1 = m /\ m + 1 \in 0..MaxAttempts
    BY Bounds
  <2>2. Answers[m + 1] = N * Answers[m] + 1
    BY <1>2, <2>1
  <2>3. Answers[m] \in Nat /\ N \in Nat
    BY <1>4, Bounds
  <2> QED
    BY <2>1, <2>2, <2>3
<1> HIDE DEF G
<1>5. \A m \in 0..MaxAttempts : m \in G
  BY <1>3, <1>4, Bounds, UpTo
<1>6. \A m \in 0..MaxAttempts : Answers[m] \in Nat
  BY <1>5 DEF G
<1> QED
  BY <1>1, <1>2, <1>6 DEF Recurs

\* More attempts that are left allow more answers.
LEMMA AnswersGrow ==
  ASSUME N >= 1
  PROVE  \A n \in 0..MaxAttempts : \A m \in 0..n : Answers[m] <= Answers[n]
<1> DEFINE G == {n \in 0..MaxAttempts : \A m \in 0..n : Answers[m] <= Answers[n]}
<1>1. 0 \in G
  BY AnswersFacts, Bounds
<1>2. ASSUME NEW n \in 0..(MaxAttempts - 1), n \in G
      PROVE  n + 1 \in G
  <2>1. /\ n + 1 \in 1..MaxAttempts /\ n + 1 - 1 = n /\ n + 1 \in 0..MaxAttempts
        /\ n \in 0..MaxAttempts /\ n \in Nat
    BY Bounds
  <2>2. Answers[n + 1] = N * Answers[n] + 1
    BY <2>1, AnswersFacts
  <2>3. Answers[n] \in Nat /\ N \in Nat
    BY <2>1, AnswersFacts, Bounds
  <2>4. Answers[n] <= Answers[n + 1] /\ Answers[n + 1] \in Nat
    <3>1. N * Answers[n] >= Answers[n]
      <4> DEFINE x == Answers[n]
      <4>1. x \in Nat /\ N \in Nat /\ N >= 1
        BY <2>3
      <4> HIDE DEF x
      <4>2. N * x >= 1 * x
        BY <4>1
      <4> QED
        BY <4>1, <4>2 DEF x
    <3> QED
      BY <2>1, <2>2, <2>3, <3>1, AnswersFacts
  <2>5. ASSUME NEW m \in 0..(n + 1)
        PROVE  Answers[m] <= Answers[n + 1]
    <3>1. CASE m = n + 1
      BY <2>4, <3>1
    <3>2. CASE m # n + 1
      <4>1. m \in 0..n /\ m \in 0..MaxAttempts
        BY <2>1, <3>2, Bounds
      <4>2. Answers[m] <= Answers[n] /\ Answers[m] \in Nat
        BY <1>2, <4>1, AnswersFacts
      <4> QED
        BY <2>3, <2>4, <4>2
    <3> QED
      BY <3>1, <3>2
  <2> QED
    BY <2>1, <2>5
<1> HIDE DEF G
<1>3. \A n \in 0..MaxAttempts : n \in G
  BY <1>1, <1>2, Bounds, UpTo
<1> QED
  BY <1>3 DEF G

-----------------------------------------------------------------------------
(* Types. *)

\* What a request is, at each place of the program.
LEMMA StageOf ==
  ASSUME TInv, NEW r \in Reqs
  PROVE  /\ req[r] \in ReqRow /\ req \in [Reqs -> ReqRow]
         /\ StageOK(req[r]) /\ RefOK(req[r])
         /\ At(r, "idle") <=> req[r] = Idle
         /\ ~At(r, "idle") => req[r].phone \in Phones
         /\ req[r].pc \in {"byPhone", "verify"} =>
              req[r].seen = None /\ req[r].updates = <<>>
         /\ At(r, "byIp") => /\ req[r].seen \in Limit \cup {None}
                             /\ req[r].updates = <<>>
         /\ At(r, "block") => req[r].seen = None /\ req[r].updates # <<>>
         /\ req[r].pc \in {"clear", "create"} =>
              /\ req[r].seen = None /\ req[r].updates = <<>>
              /\ req[r].count >= 1 /\ Most(req[r].level, req[r].count) <= 2
         /\ req[r].pc \in AfterFind =>
              req[r].seen \in Found /\ req[r].updates = <<>>
         /\ At(r, "wrong") => req[r].seen.attempts < MaxAttempts
<1>1. req[r] \in ReqRow /\ StageOK(req[r]) /\ RefOK(req[r])
      /\ req \in [Reqs -> ReqRow]
  BY DEF TInv
<1> QED
  BY <1>1, IdleType DEF At, StageOK, AfterFind

\* Types of what the steps read.
LEMMA TypesOf ==
  ASSUME TInv
  PROVE  /\ otps \in [Ids -> Otp \cup {None}]
         /\ \A id \in Ids : IsRow(id) => otps[id] \in Otp /\ RowOK(otps[id])
         /\ sent \in [Phones -> Nat] /\ wrong \in [Ids -> Nat]
         /\ uses \in [Ids -> Nat] /\ crowded \subseteq Phones
         /\ left \subseteq Ids
BY DEF TInv, HistoryOK, IsRow

\* A request that is somewhere after the code was found holds a row.
LEMMA FoundOf ==
  ASSUME TInv, NEW r \in Reqs, req[r].pc \in AfterFind
  PROVE  /\ req[r].seen.id \in Ids /\ req[r].seen.attempts \in 0..MaxAttempts
         /\ IsRow(req[r].seen.id) => otps[req[r].seen.id].phone = req[r].phone
BY StageOf DEF Found, RefOK

\* Finitely many rows and requests.
LEMMA Finite ==
  /\ \A p : IsFiniteSet(OfPhone(p)) /\ IsFiniteSet(Creators(p))
  /\ \A id : IsFiniteSet(Dropping(id)) /\ IsFiniteSet(Using(id))
<1>1. \A T : T \subseteq Reqs \/ T \subseteq Ids => IsFiniteSet(T)
  BY Bounds, FS_Subset
<1> QED
  BY <1>1 DEF OfPhone, Creators, Dropping, Using

\* A set that does not grow.
LEMMA FewerLess ==
  ASSUME NEW S, NEW T, IsFiniteSet(S), T \subseteq S
  PROVE  /\ IsFiniteSet(T) /\ Cardinality(T) \in Nat /\ Cardinality(S) \in Nat
         /\ Cardinality(T) <= Cardinality(S)
BY FS_Subset, FS_CardinalityType

\* The bound on guesses is a number.
LEMMA GuessBound ==
  /\ Answers[MaxAttempts] \in Nat /\ N * Answers[MaxAttempts] \in Nat
  /\ \A a \in 0..MaxAttempts : Answers[a] \in Nat
<1>1. Answers[MaxAttempts] \in Nat /\ \A a \in 0..MaxAttempts : Answers[a] \in Nat
  <2>1. MaxAttempts \in 0..MaxAttempts
    BY Bounds
  <2> QED
    BY <2>1, AnswersFacts
<1> DEFINE x == Answers[MaxAttempts]
<1>2. x \in Nat /\ N \in Nat
  BY <1>1, Bounds
<1> HIDE DEF x
<1>3. N * x \in Nat
  BY <1>2
<1> QED
  BY <1>1, <1>3 DEF x

\* The invariant holds at the start.
LEMMA InitInvariant == Init => IInv
<1> SUFFICES ASSUME Init PROVE IInv
  OBVIOUS
<1> USE IdleType, NullApart, Bounds DEF Init
<1>1. TInv
  BY DEF TInv, HistoryOK, IsRow
<1>2. ASSUME NEW p \in Phones PROVE LimitOK(p) /\ CodesOK(p)
  <2>1. OfPhone(p) = {} /\ Creators(p) = {} /\ Senders(p) = {}
    BY DEF OfPhone, Creators, Senders, IsRow, At
  <2>2. sent[p] = 0
    OBVIOUS
  <2>3. LimitOK(p)
    BY <2>1, <2>2 DEF LimitOK
  <2>4. CodesOK(p)
    BY <2>1, FS_EmptySet DEF CodesOK
  <2> QED
    BY <2>3, <2>4
<1>3. ASSUME NEW id \in Ids PROVE UsesOK(id) /\ GuessOK(id)
  <2>1. ~IsRow(id) /\ ~Pending(id) /\ Using(id) = {}
        /\ uses[id] = 0 /\ wrong[id] = 0
    BY DEF IsRow, Pending, Using, Holds, At
  <2>2. UsesOK(id)
    BY <2>1, FS_EmptySet DEF UsesOK
  <2>3. GuessOK(id)
    BY <2>1, GuessBound DEF GuessOK
  <2> QED
    BY <2>2, <2>3
<1> QED
  BY <1>1, <1>2, <1>3 DEF IInv

-----------------------------------------------------------------------------
(* What keeps the parts of the invariant. *)

\* The phone keeps its limit: nothing more is counted for it, its rows keep
\* theirs or are blocked, and there is one request that counts.
LEMMA LimitKept ==
  ASSUME TInv, TInv', NEW p \in Phones, LimitOK(p),
         p \notin crowded' => p \notin crowded,
         p \notin crowded' => sent'[p] = sent[p] \/ sent'[p] = 0,
         p \notin crowded' =>
           \A id \in OfPhone(p)' :
             /\ id \in OfPhone(p)
             /\ \/ sent'[p] = 0 \/ otps'[id].blocked
                \/ /\ otps'[id].level = otps[id].level
                   /\ otps'[id].count = otps[id].count
                   /\ otps'[id].blocked = otps[id].blocked,
         p \notin crowded' =>
           \A q1, q2 \in Senders(p)' : q1 = q2,
         p \notin crowded' =>
           \A q \in Senders(p)' :
             \/ q \in Senders(p) /\ req'[q] = req[q]
             \/ SendOK(req[q])',
         p \notin crowded' =>
           (OfPhone(p)' = {} /\ Creators(p)' = {} => sent'[p] = 0)
  PROVE  LimitOK(p)'
<1> SUFFICES ASSUME p \notin crowded' PROVE LimitOK(p)'
  BY DEF LimitOK
<1>1. /\ \A i, j \in OfPhone(p) : i = j
      /\ \A q \in Senders(p) : SendOK(req[q])
      /\ \A id \in OfPhone(p) :
           otps[id].blocked \/ sent[p] <= Most(otps[id].level, otps[id].count)
      /\ sent[p] <= 2
  BY DEF LimitOK
<1>2. sent[p] \in Nat /\ sent'[p] \in Nat /\ sent'[p] <= sent[p]
  BY TypesOf
<1>3. \A i, j \in OfPhone(p)' : i = j
  BY <1>1
<1>4. ASSUME NEW q \in Senders(p)'
      PROVE  SendOK(req[q])'
  <2> SUFFICES ASSUME q \in Senders(p), req'[q] = req[q] PROVE SendOK(req[q])'
    OBVIOUS
  <2>1. SendOK(req[q]) /\ q \in Reqs /\ req[q].phone = p
    BY <1>1 DEF Senders, Phone
  <2>2. /\ req[q].pc \in {"clear", "create"} => req[q].count \in Nat
        /\ req[q].pc = "byIp" /\ req[q].seen # None => req[q].seen.count \in Nat
    BY <2>1, StageOf, Bounds DEF At, ReqRow, Limit
  <2>3. /\ req[q].pc \in {"clear", "create"} =>
             Most(req[q].level, req[q].count) \in Nat
        /\ req[q].pc = "byIp" /\ req[q].seen # None =>
             Most(req[q].seen.level, req[q].seen.count) \in Nat
    BY <2>2 DEF Most
  <2>4. /\ req[q].pc = "byIp" /\ req[q].seen = None => sent'[p] = 0
        /\ req[q].pc = "byIp" /\ req[q].seen # None /\ ~req[q].seen.blocked =>
             sent'[p] <= Most(req[q].seen.level, req[q].seen.count)
        /\ req[q].pc \in {"clear", "create"} =>
             sent'[p] + 1 <= Most(req[q].level, req[q].count)
    BY <1>2, <2>1, <2>3 DEF SendOK
  <2>5. req[q].pc = "create" => OfPhone(p)' = {}
    BY <2>1 DEF SendOK
  <2> QED
    BY <2>1, <2>4, <2>5 DEF SendOK, Most
<1>5. ASSUME NEW id \in OfPhone(p)'
      PROVE  otps'[id].blocked
               \/ sent'[p] <= Most(otps'[id].level, otps'[id].count)
  <2>1. id \in Ids /\ id \in OfPhone(p) /\ IsRow(id) /\ IsRow(id)'
    BY DEF OfPhone
  <2>2. otps[id].count \in Nat /\ otps'[id].count \in Nat
    BY <2>1, TypesOf, Bounds DEF Otp, TInv, IsRow
  <2>3. /\ Most(otps[id].level, otps[id].count) \in Nat
        /\ Most(otps'[id].level, otps'[id].count) \in Nat
    BY <2>2 DEF Most
  <2>4. otps[id].blocked \/ sent[p] <= Most(otps[id].level, otps[id].count)
    BY <1>1, <2>1
  <2> QED
    BY <1>2, <2>1, <2>3, <2>4
<1>6. sent'[p] <= 2
  BY <1>1, <1>2
<1> QED
  BY <1>3, <1>4, <1>5, <1>6 DEF LimitOK, Most

\* No code of the phone is created, and no more requests are about to.
LEMMA CodesKept ==
  ASSUME NEW p \in Phones, CodesOK(p),
         OfPhone(p)' \subseteq OfPhone(p), Creators(p)' \subseteq Creators(p)
  PROVE  CodesOK(p)'
<1>1. /\ Cardinality(OfPhone(p)') \in Nat /\ Cardinality(Creators(p)') \in Nat
      /\ Cardinality(OfPhone(p)) \in Nat /\ Cardinality(Creators(p)) \in Nat
      /\ Cardinality(OfPhone(p)') <= Cardinality(OfPhone(p))
      /\ Cardinality(Creators(p)') <= Cardinality(Creators(p))
  BY Finite, FewerLess
<1> QED
  BY <1>1, Bounds DEF CodesOK, N

\* The uses of a code, and the requests that are about to use it.
LEMMA UsesBelow ==
  ASSUME TInv, NEW id \in Ids, UsesOK(id), id \notin left
  PROVE  /\ uses[id] \in Nat /\ N \in Nat /\ Cardinality(Using(id)) \in Nat
         /\ uses[id] + Cardinality(Using(id)) <= N
<1>1. /\ uses[id] \in Nat /\ N \in Nat
      /\ Cardinality(Using(id)) \in Nat /\ Cardinality(Dropping(id)) \in Nat
  BY TypesOf, Bounds, Finite, FS_CardinalityType
<1>2. CASE Pending(id)
  <2>1. uses[id] = Cardinality(Dropping(id))
    BY <1>2 DEF UsesOK
  <2>2. Dropping(id) \cap Using(id) = {}
    BY DEF Dropping, Using, Holds, At
  <2>3. Dropping(id) \cup Using(id) \subseteq Reqs
    BY DEF Dropping, Using
  <2>4. Cardinality(Dropping(id) \cup Using(id))
          = Cardinality(Dropping(id)) + Cardinality(Using(id))
              - Cardinality(Dropping(id) \cap Using(id))
    BY Finite, FS_Union
  <2>5. Cardinality(Dropping(id) \cap Using(id)) = 0
    BY <2>2, FS_EmptySet
  <2>6. Cardinality(Dropping(id) \cup Using(id)) <= N
    BY <2>3, Bounds, FewerLess DEF N
  <2> QED
    BY <1>1, <2>1, <2>4, <2>5, <2>6
<1>3. CASE ~Pending(id)
  BY <1>1, <1>3 DEF UsesOK
<1> QED
  BY <1>1, <1>2, <1>3

\* Nothing is counted as a use, and no more requests can use the code.
LEMMA UsesKept ==
  ASSUME TInv, TInv', NEW id \in Ids, UsesOK(id),
         id \notin left' => id \notin left /\ uses'[id] = uses[id],
         id \notin left' /\ Pending(id)' =>
           Pending(id) /\ Dropping(id)' = Dropping(id),
         ~Pending(id)' => Using(id)' \subseteq Using(id)
  PROVE  UsesOK(id)'
<1> SUFFICES ASSUME id \notin left' PROVE UsesOK(id)'
  BY DEF UsesOK
<1>1. id \notin left /\ uses'[id] = uses[id] /\ uses[id] \in Nat /\ N \in Nat
  BY TypesOf, Bounds
<1>2. CASE Pending(id)'
  <2>1. uses[id] = Cardinality(Dropping(id))
    BY <1>1, <1>2 DEF UsesOK
  <2> QED
    BY <1>1, <1>2, <2>1 DEF UsesOK
<1>3. CASE ~Pending(id)'
  <2>1. /\ Cardinality(Using(id)') \in Nat /\ Cardinality(Using(id)) \in Nat
        /\ Cardinality(Using(id)') <= Cardinality(Using(id))
    BY <1>3, Finite, FewerLess
  <2>2. uses[id] + Cardinality(Using(id)) <= N
    BY <1>1, UsesBelow
  <2>3. uses'[id] + Cardinality(Using(id)') <= N
    BY <1>1, <2>1, <2>2
  <2> QED
    BY <1>3, <2>3 DEF UsesOK, N
<1> QED
  BY <1>2, <1>3

\* Answers to a code with attempts left.
LEMMA AnswersPositive ==
  \A n \in 1..MaxAttempts : Answers[n] \in Nat /\ Answers[n] >= 1
<1> SUFFICES ASSUME NEW n \in 1..MaxAttempts
             PROVE  Answers[n] \in Nat /\ Answers[n] >= 1
  OBVIOUS
<1>1. n - 1 \in 0..MaxAttempts /\ n \in 0..MaxAttempts
  BY Bounds
<1> DEFINE x == Answers[n - 1]
<1>2. x \in Nat /\ N \in Nat /\ Answers[n] = N * x + 1
  BY <1>1, GuessBound, AnswersFacts, Bounds
<1> HIDE DEF x
<1>3. N * x \in Nat
  BY <1>2
<1> QED
  BY <1>2, <1>3

LEMMA StakeNat ==
  ASSUME NEW p, NEW h, NEW a, NEW v,
         h => a \in 0..MaxAttempts, p => v \in 0..MaxAttempts
  PROVE  StakeOf(p, h, a, v) \in Nat
<1>1. CASE p
  <2> DEFINE x == IF h /\ a < v THEN a ELSE v
  <2>1. x \in 0..MaxAttempts
    BY <1>1
  <2> HIDE DEF x
  <2>2. MaxAttempts - x \in 0..MaxAttempts
    BY <2>1, Bounds
  <2>3. Answers[MaxAttempts - x] \in Nat
    BY <2>2, GuessBound
  <2> QED
    BY <1>1, <2>3 DEF StakeOf, x
<1>2. CASE ~p
  BY <1>2 DEF StakeOf
<1> QED
  BY <1>1, <1>2

\* A request stands for no more than before when the code has as many attempts
\* or is not pending any more, and it has not read fewer.
LEMMA StakeLess ==
  ASSUME N >= 1,
         NEW p1, NEW h1, NEW a1, NEW v1, NEW p2, NEW h2, NEW a2, NEW v2,
         h1 => a1 \in 0..MaxAttempts /\ a1 < MaxAttempts,
         p1 => v1 \in 0..MaxAttempts,
         p2 => p1 /\ v2 = v1,
         h2 => (h1 /\ a2 = a1) \/ (p2 /\ a2 = v2)
  PROVE  StakeOf(p2, h2, a2, v2) <= StakeOf(p1, h1, a1, v1)
<1> DEFINE x1 == IF h1 /\ a1 < v1 THEN a1 ELSE v1
           x2 == IF h2 /\ a2 < v2 THEN a2 ELSE v2
<1>1. CASE p2
  <2>1. x1 \in 0..MaxAttempts /\ x2 \in 0..MaxAttempts /\ x1 <= x2
    BY <1>1
  <2> HIDE DEF x1, x2
  <2>2. MaxAttempts - x1 \in 0..MaxAttempts
        /\ MaxAttempts - x2 \in 0..(MaxAttempts - x1)
    BY <2>1, Bounds
  <2>3. Answers[MaxAttempts - x2] <= Answers[MaxAttempts - x1]
    BY <2>2, AnswersGrow
  <2> QED
    BY <1>1, <2>3 DEF StakeOf, x1, x2
<1>2. CASE ~p2 /\ h2
  <2>1. StakeOf(p2, h2, a2, v2) = 1
    BY <1>2 DEF StakeOf
  <2>2. CASE p1
    <3>1. x1 \in 0..MaxAttempts /\ x1 < MaxAttempts
      <4>1. /\ h1 /\ a1 \in 0..MaxAttempts /\ a1 < MaxAttempts
            /\ v1 \in 0..MaxAttempts
        BY <1>2, <2>2
      <4>2. x1 = IF a1 < v1 THEN a1 ELSE v1
        BY <4>1
      <4> HIDE DEF x1
      <4> QED
        BY <4>1, <4>2, Bounds
    <3> HIDE DEF x1
    <3>2. MaxAttempts - x1 \in 1..MaxAttempts
      BY <3>1, Bounds
    <3>3. Answers[MaxAttempts - x1] >= 1
      BY <3>2, AnswersPositive
    <3> QED
      BY <2>1, <2>2, <3>3 DEF StakeOf, x1
  <2>3. CASE ~p1
    BY <1>2, <2>1, <2>3 DEF StakeOf
  <2> QED
    BY <2>2, <2>3
<1>3. CASE ~p2 /\ ~h2
  <2>1. StakeOf(p2, h2, a2, v2) = 0
    BY <1>3 DEF StakeOf
  <2>2. StakeOf(p1, h1, a1, v1) \in Nat
    BY StakeNat
  <2> HIDE DEF StakeOf
  <2> QED
    BY <2>1, <2>2
<1> QED
  BY <1>1, <1>2, <1>3

\* With one attempt written back that was read earlier, a request stands for
\* no more than before and what this attempt leaves.
LEMMA StakeBumped ==
  ASSUME N >= 1, NEW h, NEW a, NEW v \in 0..MaxAttempts, NEW read \in 0..MaxAttempts,
         read + 1 < MaxAttempts, h => a \in 0..MaxAttempts
  PROVE  /\ Answers[MaxAttempts - (read + 1)] \in Nat
         /\ StakeOf(TRUE, h, a, read + 1)
              <= StakeOf(TRUE, h, a, v) + Answers[MaxAttempts - (read + 1)]
<1> DEFINE x1 == IF h /\ a < v THEN a ELSE v
           x2 == IF h /\ a < read + 1 THEN a ELSE read + 1
           before == StakeOf(TRUE, h, a, v)
           after == StakeOf(TRUE, h, a, read + 1)
<1>1. MaxAttempts - (read + 1) \in 0..MaxAttempts
  BY Bounds
<1>2. Answers[MaxAttempts - (read + 1)] \in Nat
  BY <1>1, GuessBound
<1>3. before \in Nat
  BY StakeNat
<1>4. CASE x2 = read + 1
  <2>1. after = Answers[MaxAttempts - (read + 1)]
    BY <1>4 DEF StakeOf
  <2> HIDE DEF before, after
  <2>2. after <= before + Answers[MaxAttempts - (read + 1)]
    BY <1>2, <1>3, <2>1
  <2> QED
    BY <1>2, <2>2 DEF before, after
<1>5. CASE x2 # read + 1
  <2>1. h /\ x2 = a
    BY <1>5
  <2>2. x1 \in 0..MaxAttempts /\ x2 \in 0..MaxAttempts /\ x1 <= x2
    BY <2>1
  <2>3. after = Answers[MaxAttempts - x2] /\ before = Answers[MaxAttempts - x1]
    BY DEF StakeOf
  <2> HIDE DEF x1, x2, before, after
  <2>4. MaxAttempts - x1 \in 0..MaxAttempts
        /\ MaxAttempts - x2 \in 0..(MaxAttempts - x1)
        /\ MaxAttempts - x2 \in 0..MaxAttempts
    BY <2>2, Bounds
  <2>5. Answers[MaxAttempts - x2] <= Answers[MaxAttempts - x1]
        /\ Answers[MaxAttempts - x2] \in Nat /\ Answers[MaxAttempts - x1] \in Nat
    BY <2>4, AnswersGrow, GuessBound
  <2>6. after <= before + Answers[MaxAttempts - (read + 1)]
    BY <1>2, <2>3, <2>5
  <2> QED
    BY <1>2, <2>6 DEF before, after
<1> QED
  BY <1>2, <1>4, <1>5

\* Attempts of requests and of rows.
LEMMA AttemptsOf ==
  ASSUME TInv, NEW id \in Ids
  PROVE  /\ Pending(id) => otps[id].attempts \in 0..MaxAttempts
         /\ \A q \in Reqs : Holds(q, "wrong", id) =>
              /\ req[q].seen.attempts \in 0..MaxAttempts
              /\ req[q].seen.attempts < MaxAttempts
<1>1. Pending(id) => otps[id].attempts \in 0..MaxAttempts
  BY TypesOf DEF Pending, Otp
<1>2. ASSUME NEW q \in Reqs, Holds(q, "wrong", id)
      PROVE  /\ req[q].seen.attempts \in 0..MaxAttempts
             /\ req[q].seen.attempts < MaxAttempts
  BY <1>2, StageOf, FoundOf DEF Holds, At, AfterFind
<1> QED
  BY <1>1, <1>2

LEMMA SomeRequest == ASSUME NEW r \in Reqs PROVE N >= 1
<1>1. Cardinality({r}) = 1 /\ {r} \subseteq Reqs
  BY FS_Singleton
<1>2. Cardinality({r}) <= Cardinality(Reqs) /\ Cardinality(Reqs) \in Nat
  BY <1>1, Bounds, FewerLess
<1> QED
  BY <1>1, <1>2 DEF N

\* No answer is given about the code, and requests stand for no more.
LEMMA GuessKept ==
  ASSUME TInv, TInv', NEW id \in Ids, GuessOK(id), wrong'[id] = wrong[id],
         IsRow(id)' => IsRow(id),
         Pending(id)' => Pending(id) /\ otps'[id].attempts = otps[id].attempts,
         \A q \in Reqs : Holds(q, "wrong", id)' =>
           \/ /\ Holds(q, "wrong", id)
              /\ req'[q].seen.attempts = req[q].seen.attempts
           \/ Pending(id)' /\ req'[q].seen.attempts = otps'[id].attempts
  PROVE  GuessOK(id)'
<1> SUFFICES ASSUME IsRow(id)' PROVE GuessOK(id)'
  BY DEF GuessOK
<1> DEFINE f == [q \in Reqs |-> Stake(q, id)]
           g == [q \in Reqs |-> Stake(q, id)']
<1>1. ASSUME NEW q \in Reqs
      PROVE  f[q] \in Int /\ g[q] \in Int /\ g[q] <= f[q] + 0
  <2> DEFINE p1 == Pending(id)
             h1 == Holds(q, "wrong", id)
             a1 == req[q].seen.attempts
             v1 == otps[id].attempts
             p2 == Pending(id)'
             h2 == Holds(q, "wrong", id)'
             a2 == req'[q].seen.attempts
             v2 == otps'[id].attempts
  <2>1. /\ h1 => a1 \in 0..MaxAttempts /\ a1 < MaxAttempts
        /\ p1 => v1 \in 0..MaxAttempts
    BY AttemptsOf
  <2>2. /\ p2 => p1 /\ v2 = v1
        /\ h2 => (h1 /\ a2 = a1) \/ (p2 /\ a2 = v2)
    OBVIOUS
  <2>3. N >= 1
    BY SomeRequest
  <2>4. f[q] = StakeOf(p1, h1, a1, v1) /\ g[q] = StakeOf(p2, h2, a2, v2)
    BY DEF Stake
  <2> HIDE DEF f, g, p1, h1, a1, v1, p2, h2, a2, v2
  <2>5. StakeOf(p1, h1, a1, v1) \in Nat /\ StakeOf(p2, h2, a2, v2) \in Nat
    <3>1. StakeOf(p1, h1, a1, v1) \in Nat
      BY <2>1, StakeNat
    <3>2. (h2 => a2 \in 0..MaxAttempts) /\ (p2 => v2 \in 0..MaxAttempts)
      BY <2>1, <2>2
    <3>3. StakeOf(p2, h2, a2, v2) \in Nat
      BY <3>2, StakeNat
    <3> QED
      BY <3>1, <3>3
  <2>6. StakeOf(p2, h2, a2, v2) <= StakeOf(p1, h1, a1, v1)
    BY <2>1, <2>2, <2>3, StakeLess
  <2> QED
    BY <2>4, <2>5, <2>6
<1>2. Stakes(id) = SumFunctionOnSet(f, Reqs)
      /\ Stakes(id)' = SumFunctionOnSet(g, Reqs)
  BY DEF Stakes
<1> HIDE DEF f, g
<1>3. SumFunctionOnSet(g, Reqs) <= SumFunctionOnSet(f, Reqs) + N * 0
  BY <1>1, Bounds, SumWithin DEF N
<1>4. SumFunctionOnSet(g, Reqs) \in Int /\ SumFunctionOnSet(f, Reqs) \in Int
  BY <1>1, Bounds, SumOfOneMore
<1>5. /\ wrong[id] \in Nat /\ N * 0 = 0 /\ IsRow(id)
      /\ wrong[id] + Stakes(id) <= N * Answers[MaxAttempts]
      /\ wrong[id] <= N * Answers[MaxAttempts]
  BY TypesOf, Bounds DEF GuessOK
<1> DEFINE b == N * Answers[MaxAttempts]
<1>6. b \in Nat
  BY GuessBound
<1>7. wrong'[id] + Stakes(id)' <= b /\ wrong'[id] <= b
  <2>1. /\ wrong[id] \in Nat /\ wrong[id] + SumFunctionOnSet(f, Reqs) <= b
        /\ wrong[id] <= b
        /\ SumFunctionOnSet(g, Reqs) <= SumFunctionOnSet(f, Reqs)
    BY <1>2, <1>3, <1>4, <1>5
  <2> HIDE DEF b
  <2> QED
    BY <1>2, <1>4, <1>6, <2>1
<1> QED
  BY <1>7 DEF GuessOK, N

-----------------------------------------------------------------------------
(* Steps that leave the rows alone. *)

LEMMA SameRows ==
  ASSUME otps' = otps
  PROVE  /\ \A id : (IsRow(id)' <=> IsRow(id)) /\ (Pending(id)' <=> Pending(id))
         /\ \A p : OfPhone(p)' = OfPhone(p)
BY DEF IsRow, Pending, OfPhone

LEMMA MoveTypes ==
  ASSUME TInv, NEW r \in Reqs, NEW row \in ReqRow,
         req' = [req EXCEPT ![r] = row], UNCHANGED <<purpose, otps>>,
         StageOK(row), RefOK(row), HistoryOK'
  PROVE  /\ TInv' /\ req'[r] = row
         /\ \A q \in Reqs \ {r} : req'[q] = req[q]
<1>1. /\ req' \in [Reqs -> ReqRow] /\ req'[r] = row
      /\ \A q \in Reqs \ {r} : req'[q] = req[q]
  BY DEF TInv
<1>2. ASSUME NEW q \in Reqs
      PROVE  StageOK(req[q])' /\ RefOK(req[q])'
  <2>1. StageOK(req'[q]) /\ RefOK(req'[q])
    BY <1>1 DEF TInv
  <2>2. StageOK(req[q])'
    BY <2>1 DEF StageOK
  <2>3. RefOK(req[q])'
    BY <2>1, SameRows DEF RefOK
  <2> QED
    BY <2>2, <2>3
<1>3. \A id \in Ids : IsRow(id)' => RowOK(otps[id])'
  BY SameRows DEF TInv, RowOK
<1> QED
  BY <1>1, <1>2, <1>3 DEF TInv

\* A request arrives, goes on without a code it found, or ends.
LEMMA LeaveStep ==
  ASSUME IInv, NEW r \in Reqs, NEW row \in ReqRow,
         req' = [req EXCEPT ![r] = row], UNCHANGED <<purpose, otps, wrong>>,
         StageOK(row), row.pc \notin AfterFind, row.pc # "create", HistoryOK',
         \A id \in Ids : id \notin left' =>
           /\ id \notin left /\ uses'[id] = uses[id]
           /\ Holds(r, "drop", id) => ~Pending(id),
         \A p \in Phones : LimitOK(p)'
  PROVE  IInv'
<1>1. /\ TInv' /\ req'[r] = row
      /\ \A q \in Reqs \ {r} : req'[q] = req[q]
  BY MoveTypes DEF IInv, RefOK
<1>2. ASSUME NEW p \in Phones PROVE CodesOK(p)'
  <2>1. OfPhone(p)' \subseteq OfPhone(p)
    BY SameRows
  <2>2. Creators(p)' \subseteq Creators(p)
    BY <1>1 DEF Creators, At, Phone
  <2> QED
    BY <2>1, <2>2, CodesKept DEF IInv
<1>3. ASSUME NEW id \in Ids PROVE UsesOK(id)' /\ GuessOK(id)'
  <2>1. ~Holds(r, "drop", id)' /\ ~Holds(r, "mark", id)'
        /\ ~Holds(r, "accept", id)' /\ ~Holds(r, "wrong", id)'
    BY <1>1 DEF Holds, At, AfterFind
  <2>2. \A q \in Reqs \ {r} : \A pc : Holds(q, pc, id)' <=> Holds(q, pc, id)
    BY <1>1 DEF Holds, At
  <2>3. id \notin left' /\ Pending(id)' =>
          Pending(id) /\ Dropping(id)' = Dropping(id)
    BY <2>1, <2>2, SameRows DEF Dropping
  <2>4. Using(id)' \subseteq Using(id)
    BY <2>1, <2>2 DEF Using
  <2>5. UsesOK(id)'
    BY <1>1, <2>3, <2>4, UsesKept DEF IInv
  <2>6. \A q \in Reqs : Holds(q, "wrong", id)' =>
          /\ Holds(q, "wrong", id)
          /\ req'[q].seen.attempts = req[q].seen.attempts
    BY <1>1, <2>1, <2>2
  <2>7. GuessOK(id)'
    BY <1>1, <2>6, SameRows, GuessKept DEF IInv
  <2> QED
    BY <2>5, <2>7
<1> QED
  BY <1>1, <1>2, <1>3 DEF IInv

\* The limit of a phone when a request is no request for a code any more.
LEMMA LimitOnLeave ==
  ASSUME TInv, TInv', NEW p \in Phones, LimitOK(p), NEW r \in Reqs, NEW row,
         req'[r] = row, \A q \in Reqs \ {r} : req'[q] = req[q],
         otps' = otps, row.pc \notin Sending,
         p \notin crowded' => p \notin crowded /\ sent'[p] = sent[p],
         At(r, "create") /\ Phone(r) = p => p \in crowded'
  PROVE  LimitOK(p)'
<1>1. /\ OfPhone(p)' = OfPhone(p)
  BY SameRows
<1>2. \A q \in Senders(p)' : q \in Senders(p) /\ req'[q] = req[q]
  BY DEF Senders, Phone
<1>3. p \notin crowded' => Creators(p)' = Creators(p)
  BY DEF Creators, At, Phone, Sending
<1>4. p \notin crowded' => \A q1, q2 \in Senders(p)' : q1 = q2
  BY <1>2 DEF LimitOK
<1>5. p \notin crowded' =>
        (OfPhone(p)' = {} /\ Creators(p)' = {} => sent'[p] = 0)
  BY <1>1, <1>3 DEF LimitOK
<1> QED
  BY <1>1, <1>2, <1>4, <1>5, LimitKept

\* The limit of a phone when a request for a code goes on.
LEMMA LimitOnSend ==
  ASSUME TInv, TInv', NEW p \in Phones, LimitOK(p), NEW r \in Reqs, NEW row,
         req'[r] = row, \A q \in Reqs \ {r} : req'[q] = req[q],
         UNCHANGED <<otps, sent, crowded>>, row.phone = req[r].phone,
         req[r].pc \in Sending \ {"create"}, row.pc \in Sending \ {"create"},
         p \notin crowded /\ row.phone = p => SendOK(row)
  PROVE  LimitOK(p)'
<1>1. /\ OfPhone(p)' = OfPhone(p)
  BY SameRows
<1>2. \A q \in Senders(p)' : q \in Senders(p)
  BY DEF Senders, Phone
<1>3. Creators(p)' = Creators(p)
  BY DEF Creators, At, Phone
<1>4. p \notin crowded' => \A q1, q2 \in Senders(p)' : q1 = q2
  BY <1>2 DEF LimitOK
<1>5. p \notin crowded' =>
        (OfPhone(p)' = {} /\ Creators(p)' = {} => sent'[p] = 0)
  BY <1>1, <1>3 DEF LimitOK
<1>6. ASSUME p \notin crowded', NEW q \in Senders(p)'
      PROVE  req'[q] = req[q] \/ SendOK(req[q])'
  <2>1. CASE q = r
    <3>1. row.phone = p
      BY <2>1 DEF Senders, Phone
    <3>2. SendOK(row)
      BY <1>6, <3>1
    <3> QED
      BY <1>1, <2>1, <3>1, <3>2 DEF SendOK, Most
  <2>2. CASE q # r
    BY <2>2 DEF Senders
  <2> QED
    BY <2>1, <2>2
<1> QED
  BY <1>1, <1>2, <1>4, <1>5, <1>6, LimitKept

-----------------------------------------------------------------------------
(* Steps that update a row. *)

LEMMA PutTypes ==
  ASSUME TInv, NEW id \in Ids, IsRow(id), NEW new \in Otp, RowOK(new),
         Write(id, new), new.phone = otps[id].phone, UNCHANGED purpose,
         HistoryOK', req' \in [Reqs -> ReqRow],
         \A q \in Reqs : \/ req'[q] = req[q]
                         \/ req'[q].pc \notin AfterFind /\ StageOK(req'[q])
  PROVE  /\ TInv' /\ otps'[id] = new
         /\ \A other \in Ids \ {id} : otps'[other] = otps[other]
         /\ \A other \in Ids : IsRow(other)' <=> IsRow(other)
         /\ \A other \in Ids \ {id} : Pending(other)' <=> Pending(other)
         /\ Pending(id)' <=> new.status = "PENDING"
         /\ \A p : OfPhone(p)' = OfPhone(p)
<1>1. /\ otps \in [Ids -> Otp \cup {None}]
      /\ otps' = [otps EXCEPT ![id] = new]
      /\ otps'[id] = new /\ new # None
      /\ \A other \in Ids \ {id} : otps'[other] = otps[other]
  BY TypesOf, NullApart DEF Write
<1>2. \A other \in Ids : IsRow(other)' <=> IsRow(other)
  BY <1>1 DEF IsRow
<1>3. \A other \in Ids : IsRow(other) => otps'[other].phone = otps[other].phone
  BY <1>1
<1>4. /\ \A other \in Ids \ {id} : Pending(other)' <=> Pending(other)
      /\ Pending(id)' <=> new.status = "PENDING"
  BY <1>1, <1>2 DEF Pending
<1>5. \A p : OfPhone(p)' = OfPhone(p)
  BY <1>2, <1>3 DEF OfPhone
<1>6. ASSUME NEW q \in Reqs
      PROVE  StageOK(req[q])' /\ RefOK(req[q])'
  <2>1. StageOK(req'[q])
    BY DEF TInv
  <2>2. StageOK(req[q])'
    BY <2>1 DEF StageOK
  <2>3. RefOK(req[q])'
    <3> SUFFICES ASSUME req'[q].pc \in AfterFind, IsRow(req[q].seen.id)'
                 PROVE  otps'[req'[q].seen.id].phone = req'[q].phone
      BY DEF RefOK
    <3>1. req'[q] = req[q] /\ RefOK(req[q]) /\ req[q].seen.id \in Ids
      BY FoundOf DEF TInv
    <3> QED
      BY <1>2, <1>3, <3>1 DEF RefOK
  <2> QED
    BY <2>2, <2>3
<1>7. ASSUME NEW other \in Ids, IsRow(other)' PROVE RowOK(otps[other])'
  <2>1. RowOK(otps'[other])
    BY <1>1, <1>2, <1>7 DEF TInv
  <2> QED
    BY <2>1 DEF RowOK
<1>8. otps' \in [Ids -> Otp \cup {None}]
  BY <1>1
<1>9. TInv'
  BY <1>6, <1>7, <1>8 DEF TInv
<1> QED
  BY <1>1, <1>2, <1>4, <1>5, <1>9

\* What is not about the row itself.
LEMMA PutStep ==
  ASSUME IInv, NEW id \in Ids, IsRow(id), NEW new \in Otp, RowOK(new),
         Write(id, new), new.phone = otps[id].phone, UNCHANGED <<purpose, left>>,
         HistoryOK', req' \in [Reqs -> ReqRow],
         \A q \in Reqs :
           \/ req'[q] = req[q]
           \/ /\ req'[q].pc \notin AfterFind \cup {"create"} /\ StageOK(req'[q])
              /\ req[q].pc # "drop"
              /\ req[q].pc \in AfterFind => req[q].seen.id = id,
         \A other \in Ids \ {id} :
           wrong'[other] = wrong[other] /\ uses'[other] = uses[other],
         TInv' => UsesOK(id)' /\ GuessOK(id)',
         TInv' => \A p \in Phones : LimitOK(p)'
  PROVE  IInv'
<1>1. /\ TInv' /\ otps'[id] = new
      /\ \A other \in Ids \ {id} : otps'[other] = otps[other]
      /\ \A other \in Ids : IsRow(other)' <=> IsRow(other)
      /\ \A other \in Ids \ {id} : Pending(other)' <=> Pending(other)
      /\ \A p : OfPhone(p)' = OfPhone(p)
  BY PutTypes DEF IInv
<1>2. ASSUME NEW p \in Phones PROVE CodesOK(p)'
  <2>1. OfPhone(p)' \subseteq OfPhone(p) /\ Creators(p)' \subseteq Creators(p)
    BY <1>1 DEF Creators, At, Phone
  <2> QED
    BY <2>1, CodesKept DEF IInv
<1>3. ASSUME NEW other \in Ids \ {id} PROVE UsesOK(other)' /\ GuessOK(other)'
  <2>1. \A q \in Reqs : \A pc \in AfterFind :
          Holds(q, pc, other)' <=> Holds(q, pc, other)
    BY DEF Holds, At
  <2>2. Dropping(other)' = Dropping(other) /\ Using(other)' = Using(other)
    BY <2>1 DEF Dropping, Using, AfterFind
  <2>3. UsesOK(other)'
    BY <1>1, <2>2, UsesKept DEF IInv
  <2>4. \A q \in Reqs : Holds(q, "wrong", other)' =>
          /\ Holds(q, "wrong", other)
          /\ req'[q].seen.attempts = req[q].seen.attempts
    BY <2>1 DEF AfterFind, Holds, At
  <2>5. GuessOK(other)'
    BY <1>1, <2>4, GuessKept DEF IInv
  <2> QED
    BY <2>3, <2>5
<1> QED
  BY <1>1, <1>2, <1>3 DEF IInv

\* A row that is updated in another respect, or closed: nobody answers or uses.
LEMMA PutCode ==
  ASSUME TInv, TInv', NEW id \in Ids, UsesOK(id), GuessOK(id), IsRow(id),
         otps'[id].status = "PENDING" =>
           /\ otps[id].status = "PENDING"
           /\ otps'[id].attempts = otps[id].attempts,
         UNCHANGED <<wrong, uses, left>>,
         \A q \in Reqs : \/ req'[q] = req[q]
                         \/ req'[q].pc \notin AfterFind /\ req[q].pc # "drop"
  PROVE  UsesOK(id)' /\ GuessOK(id)'
<1>1. \A q \in Reqs : \A pc \in AfterFind :
        /\ Holds(q, pc, id)' => Holds(q, pc, id) /\ req'[q] = req[q]
        /\ Holds(q, "drop", id)' <=> Holds(q, "drop", id)
  BY DEF Holds, At, AfterFind
<1>2. Dropping(id)' = Dropping(id) /\ Using(id)' \subseteq Using(id)
  BY <1>1 DEF Dropping, Using, AfterFind
<1>3. Pending(id)' =>
        Pending(id) /\ otps'[id].attempts = otps[id].attempts
  BY DEF Pending
<1>4. UsesOK(id)'
  BY <1>2, <1>3, UsesKept
<1>5. \A q \in Reqs : Holds(q, "wrong", id)' =>
        /\ Holds(q, "wrong", id)
        /\ req'[q].seen.attempts = req[q].seen.attempts
  BY <1>1 DEF AfterFind
<1>6. GuessOK(id)'
  BY <1>3, <1>5, GuessKept
<1> QED
  BY <1>4, <1>6

\* The limits when a row is updated.
LEMMA LimitOnPut ==
  ASSUME TInv, TInv', NEW p \in Phones, LimitOK(p), NEW id \in Ids,
         \A other \in Ids \ {id} : otps'[other] = otps[other],
         OfPhone(p)' = OfPhone(p), crowded' = crowded,
         p \notin crowded => sent'[p] = sent[p] \/ sent'[p] = 0,
         p \notin crowded /\ id \in OfPhone(p) =>
           \/ sent'[p] = 0 \/ otps'[id].blocked
           \/ /\ otps'[id].level = otps[id].level
              /\ otps'[id].count = otps[id].count
              /\ otps'[id].blocked = otps[id].blocked,
         \A q \in Reqs :
           \/ req'[q] = req[q]
           \/ /\ req[q].pc # "create" /\ req'[q].pc # "create"
              /\ req'[q].pc \in Sending =>
                   /\ req[q].pc = "block" /\ req'[q].pc = "block"
                   /\ req'[q].phone = req[q].phone
  PROVE  LimitOK(p)'
<1>1. Creators(p)' = Creators(p)
  BY DEF Creators, At, Phone
<1>2. \A q \in Senders(p)' : q \in Senders(p)
  BY DEF Senders, Phone, Sending
<1>3. p \notin crowded' => \A q1, q2 \in Senders(p)' : q1 = q2
  BY <1>2 DEF LimitOK
<1>4. ASSUME NEW q \in Senders(p)'
      PROVE  req'[q] = req[q] \/ SendOK(req[q])'
  <2>1. CASE req'[q].pc = "block"
    BY <2>1 DEF SendOK
  <2> QED
    BY <2>1 DEF Senders
<1>5. p \notin crowded' =>
        (OfPhone(p)' = {} /\ Creators(p)' = {} => sent'[p] = 0)
  BY <1>1 DEF LimitOK
<1>6. ASSUME p \notin crowded', NEW other \in OfPhone(p)'
      PROVE  /\ other \in OfPhone(p)
             /\ \/ sent'[p] = 0 \/ otps'[other].blocked
                \/ /\ otps'[other].level = otps[other].level
                   /\ otps'[other].count = otps[other].count
                   /\ otps'[other].blocked = otps[other].blocked
  <2>1. other \in OfPhone(p) /\ other \in Ids
    BY DEF OfPhone
  <2> QED
    BY <1>6, <2>1
<1> QED
  BY <1>2, <1>3, <1>4, <1>5, <1>6, LimitKept

-----------------------------------------------------------------------------
(* Steps that delete rows. *)

LEMMA DeleteTypes ==
  ASSUME TInv, NEW ids, Delete(ids), UNCHANGED purpose,
         HistoryOK', req' \in [Reqs -> ReqRow],
         \A q \in Reqs : \/ req'[q] = req[q]
                         \/ req'[q].pc \notin AfterFind /\ StageOK(req'[q])
  PROVE  /\ TInv'
         /\ \A id \in Ids :
              /\ IsRow(id)' <=> IsRow(id) /\ id \notin ids
              /\ Pending(id)' <=> Pending(id) /\ id \notin ids
              /\ IsRow(id)' =>
                   /\ otps'[id].phone = otps[id].phone
                   /\ otps'[id].attempts = otps[id].attempts
                   /\ otps'[id].level = otps[id].level
                   /\ otps'[id].count = otps[id].count
                   /\ otps'[id].blocked = otps[id].blocked
         /\ \A p : OfPhone(p)' = OfPhone(p) \ ids
<1>1. /\ otps \in [Ids -> Otp \cup {None}] /\ None \notin Otp
      /\ \A id \in Ids : IsRow(id) => otps[id] \in Otp /\ RowOK(otps[id])
  BY TypesOf, NullApart
<1>2. ASSUME NEW id \in Ids
      PROVE  /\ IsRow(id)' <=> IsRow(id) /\ id \notin ids
             /\ otps'[id] \in Otp \cup {None}
             /\ IsRow(id)' =>
                  /\ otps'[id].phone = otps[id].phone
                  /\ otps'[id].status = otps[id].status
                  /\ otps'[id].attempts = otps[id].attempts
                  /\ otps'[id].level = otps[id].level
                  /\ otps'[id].count = otps[id].count
                  /\ otps'[id].blocked = otps[id].blocked
  <2>1. CASE ~IsRow(id) \/ id \in ids
    <3>1. otps'[id] = None
      BY <2>1 DEF Delete
    <3> QED
      BY <2>1, <3>1 DEF IsRow
  <2>2. CASE IsRow(id) /\ id \notin ids
    <3> DEFINE row == [otps[id] EXCEPT !.older = @ \ ids]
    <3>1. otps'[id] = row
      BY <2>2 DEF Delete
    <3>2. otps[id] \in Otp
      BY <1>1, <2>2
    <3>3. /\ row \in Otp
          /\ row.phone = otps[id].phone /\ row.status = otps[id].status
          /\ row.attempts = otps[id].attempts /\ row.level = otps[id].level
          /\ row.count = otps[id].count /\ row.blocked = otps[id].blocked
      BY <3>2 DEF Otp
    <3> HIDE DEF row
    <3> QED
      BY <1>1, <2>2, <3>1, <3>3 DEF IsRow
  <2> QED
    BY <2>1, <2>2
<1>3. \A id \in Ids : Pending(id)' <=> Pending(id) /\ id \notin ids
  BY <1>2 DEF Pending
<1>4. \A p : OfPhone(p)' = OfPhone(p) \ ids
  BY <1>2 DEF OfPhone
<1>5. otps' \in [Ids -> Otp \cup {None}]
  BY <1>2 DEF Delete
<1>6. ASSUME NEW id \in Ids, IsRow(id)' PROVE RowOK(otps[id])'
  <2>1. RowOK(otps[id])
    BY <1>1, <1>2, <1>6
  <2> QED
    BY <1>2, <1>6, <2>1 DEF RowOK, Most
<1>7. ASSUME NEW q \in Reqs
      PROVE  StageOK(req[q])' /\ RefOK(req[q])'
  <2>1. StageOK(req'[q])
    BY DEF TInv
  <2>2. StageOK(req[q])'
    BY <2>1 DEF StageOK
  <2>3. RefOK(req[q])'
    <3> SUFFICES ASSUME req'[q].pc \in AfterFind, IsRow(req[q].seen.id)'
                 PROVE  otps'[req'[q].seen.id].phone = req'[q].phone
      BY DEF RefOK
    <3>1. req'[q] = req[q] /\ RefOK(req[q]) /\ req[q].seen.id \in Ids
      BY FoundOf DEF TInv
    <3> QED
      BY <1>2, <3>1 DEF RefOK
  <2> QED
    BY <2>2, <2>3
<1>8. TInv'
  BY <1>5, <1>6, <1>7 DEF TInv
<1> QED
  BY <1>2, <1>3, <1>4, <1>8

\* Codes that are deleted are not answered or used any more.
LEMMA DeleteStep ==
  ASSUME IInv, NEW ids, Delete(ids), UNCHANGED <<purpose, wrong, uses, left>>,
         HistoryOK', req' \in [Reqs -> ReqRow],
         \A q \in Reqs :
           \/ req'[q] = req[q]
           \/ /\ req'[q].pc \notin AfterFind /\ StageOK(req'[q])
              /\ req[q].pc = "drop" => req[q].seen.id \in ids,
         TInv' => \A p \in Phones : LimitOK(p)' /\ CodesOK(p)'
  PROVE  IInv'
<1>1. /\ TInv'
      /\ \A id \in Ids :
           /\ IsRow(id)' <=> IsRow(id) /\ id \notin ids
           /\ Pending(id)' <=> Pending(id) /\ id \notin ids
           /\ IsRow(id)' => otps'[id].attempts = otps[id].attempts
  BY DeleteTypes DEF IInv
<1>2. ASSUME NEW id \in Ids PROVE UsesOK(id)' /\ GuessOK(id)'
  <2>1. \A q \in Reqs : \A pc \in AfterFind :
          Holds(q, pc, id)' => Holds(q, pc, id) /\ req'[q] = req[q]
    BY DEF Holds, At
  <2>2. id \notin ids => Dropping(id)' = Dropping(id)
    BY <2>1 DEF Dropping, Holds, At, AfterFind
  <2>3. Using(id)' \subseteq Using(id)
    BY <2>1 DEF Using, AfterFind
  <2>4. UsesOK(id)'
    BY <1>1, <2>2, <2>3, UsesKept DEF IInv
  <2>5. \A q \in Reqs : Holds(q, "wrong", id)' =>
          /\ Holds(q, "wrong", id)
          /\ req'[q].seen.attempts = req[q].seen.attempts
    BY <2>1 DEF AfterFind
  <2>6. Pending(id)' => Pending(id) /\ otps'[id].attempts = otps[id].attempts
    BY <1>1 DEF Pending
  <2>7. GuessOK(id)'
    BY <1>1, <2>5, <2>6, GuessKept DEF IInv
  <2> QED
    BY <2>4, <2>7
<1> QED
  BY <1>1, <1>2 DEF IInv

-----------------------------------------------------------------------------
(* Requests that arrive and end. *)

LEMMA ArrivalRow ==
  ASSUME TInv, NEW r \in Reqs, NEW p \in Phones,
         NEW ip \in Addresses \cup {None}, NEW pc \in {"byPhone", "verify"},
         Arrival(r, pc, p, ip)
  PROVE  \E row \in ReqRow :
           /\ req' = [req EXCEPT ![r] = row] /\ StageOK(row)
           /\ row.pc = pc /\ row.phone = p /\ req[r] = Idle
<1>1. req[r] = Idle /\ req \in [Reqs -> ReqRow]
  BY StageOf DEF Arrival
<1> DEFINE one == [Idle EXCEPT !.pc = pc, !.phone = p]
           row == [one EXCEPT !.ip = ip]
<1>2. /\ one \in ReqRow /\ one.pc = pc /\ one.phone = p
      /\ one.seen = None /\ one.updates = <<>>
  BY IdleType DEF ReqRow
<1> HIDE DEF one
<1>3. /\ row \in ReqRow /\ row.pc = pc /\ row.phone = p
      /\ row.seen = None /\ row.updates = <<>>
  BY <1>2 DEF ReqRow
<1>4. req' = [req EXCEPT ![r] = row]
  BY <1>1 DEF Arrival, one
<1> HIDE DEF row
<1>5. StageOK(row)
  BY <1>3 DEF StageOK
<1> QED
  BY <1>1, <1>3, <1>4, <1>5

\* A phone that two requests want a code for is crowded from then on; others
\* have one.
LEMMA StartSendStep ==
  ASSUME IInv, NEW r \in Reqs, NEW source \in Sources[purpose],
         StartSend(r, source)
  PROVE  IInv'
<1> DEFINE p0 == source[1]
<1>1. p0 \in Phones /\ source[2] \in Addresses \cup {None}
  BY OneTimePasswordsAssumption DEF IInv, TInv
<1>2. PICK row \in ReqRow :
        /\ req' = [req EXCEPT ![r] = row] /\ StageOK(row)
        /\ row.pc = "byPhone" /\ row.phone = p0 /\ req[r] = Idle
  BY <1>1, ArrivalRow DEF StartSend, IInv
<1>3. /\ UNCHANGED <<purpose, otps, wrong, uses, left>>
      /\ IF Senders(p0) = {} THEN UNCHANGED <<sent, crowded>> ELSE Crowd(p0)
  BY DEF StartSend, Arrival
<1> HIDE DEF p0
<1>4. /\ HistoryOK' /\ \A p \in Phones :
           p \notin crowded' => p \notin crowded /\ sent'[p] = sent[p]
      /\ Senders(p0) # {} => p0 \in crowded'
  BY <1>1, <1>3, TypesOf DEF IInv, HistoryOK, Crowd
<1>5. /\ row.pc \notin AfterFind /\ row.pc # "create"
      /\ row.pc \in Sending /\ RefOK(row)
  BY <1>2 DEF AfterFind, Sending, RefOK
<1>6. /\ TInv' /\ req'[r] = row
      /\ \A q \in Reqs \ {r} : req'[q] = req[q]
  BY <1>2, <1>3, <1>4, <1>5, MoveTypes DEF IInv
<1>7. \A id : ~Holds(r, "drop", id)
  BY <1>2, IdleType DEF Holds, At
<1>8. ASSUME NEW p \in Phones PROVE LimitOK(p)'
  <2>1. OfPhone(p)' = OfPhone(p)
    BY <1>3, SameRows
  <2>2. Creators(p)' = Creators(p)
    BY <1>2, <1>5, <1>6, IdleType DEF Creators, At, Phone
  <2>3. LimitOK(p)
    BY DEF IInv
  <2>4. \A q \in Senders(p)' : q # r => q \in Senders(p)
    BY <1>6 DEF Senders, Phone
  <2>5. r \in Senders(p)' => p = p0
    BY <1>2, <1>6 DEF Senders, Phone
  <2>6. p \notin crowded' => \A q1, q2 \in Senders(p)' : q1 = q2
    BY <1>4, <2>3, <2>4, <2>5 DEF LimitOK
  <2>7. SendOK(req[r])'
    BY <1>2, <1>6 DEF SendOK
  <2>8. \A q \in Senders(p)' :
          \/ q \in Senders(p) /\ req'[q] = req[q]
          \/ SendOK(req[q])'
    BY <1>6, <2>4, <2>7 DEF Senders
  <2>9. p \notin crowded' =>
          (OfPhone(p)' = {} /\ Creators(p)' = {} => sent'[p] = 0)
    BY <1>4, <2>1, <2>2, <2>3 DEF LimitOK
  <2> QED
    BY <1>3, <1>4, <1>6, <2>1, <2>3, <2>6, <2>8, <2>9, LimitKept DEF IInv
<1> QED
  BY <1>2, <1>3, <1>4, <1>5, <1>7, <1>8, LeaveStep

LEMMA StartVerifyStep ==
  ASSUME IInv, NEW r \in Reqs, NEW p \in Entering[purpose], StartVerify(r, p)
  PROVE  IInv'
<1>1. p \in Phones
  BY OneTimePasswordsAssumption DEF IInv, TInv
<1>2. PICK row \in ReqRow :
        /\ req' = [req EXCEPT ![r] = row] /\ StageOK(row)
        /\ row.pc = "verify" /\ row.phone = p /\ req[r] = Idle
  BY <1>1, ArrivalRow DEF StartVerify, IInv
<1>3. UNCHANGED <<purpose, otps, sent, crowded, wrong, uses, left>>
  BY DEF StartVerify, Arrival
<1>4. HistoryOK'
  BY <1>3 DEF IInv, TInv, HistoryOK
<1>5. /\ row.pc \notin AfterFind /\ row.pc # "create"
      /\ row.pc \notin Sending /\ RefOK(row)
  BY <1>2 DEF AfterFind, Sending, RefOK
<1>6. /\ TInv' /\ req'[r] = row
      /\ \A q \in Reqs \ {r} : req'[q] = req[q]
  BY <1>2, <1>3, <1>4, <1>5, MoveTypes DEF IInv
<1>7. (\A id : ~Holds(r, "drop", id)) /\ ~At(r, "create")
  BY <1>2, IdleType DEF Holds, At
<1>8. \A q \in Phones : LimitOK(q)'
  BY <1>3, <1>5, <1>6, <1>7, LimitOnLeave DEF IInv
<1> QED
  BY <1>2, <1>3, <1>4, <1>5, <1>7, <1>8, LeaveStep

\* A request ends, with what a statement threw: none of these lost anything.
LEMMA ThrowStep ==
  ASSUME IInv, NEW r \in Reqs, Throw(r), ~At(r, "create"),
         At(r, "drop") => ~IsRow(req[r].seen.id)
  PROVE  IInv'
<1>1. /\ req' = [req EXCEPT ![r] = Idle]
      /\ UNCHANGED <<purpose, otps, sent, crowded, wrong, uses, left>>
  BY DEF Throw, Done, Local, history
<1>2. HistoryOK'
  BY <1>1 DEF IInv, TInv, HistoryOK
<1>3. /\ TInv' /\ req'[r] = Idle
      /\ \A q \in Reqs \ {r} : req'[q] = req[q]
  BY <1>1, <1>2, MoveTypes, IdleType DEF IInv
<1>4. \A id \in Ids : Holds(r, "drop", id) => ~Pending(id)
  BY DEF Holds, Pending
<1>5. \A q \in Phones : LimitOK(q)'
  BY <1>1, <1>3, IdleType, LimitOnLeave DEF IInv
<1>6. Idle.pc # "create"
  BY IdleType
<1> QED
  BY <1>1, <1>2, <1>4, <1>5, <1>6, IdleType, LeaveStep

LEMMA GoneStep ==
  ASSUME IInv, NEW r \in Reqs, Gone(r), ~At(r, "create")
  PROVE  IInv'
BY ThrowStep DEF Gone

\* The process dies: a phone whose code was about to be created is crowded,
\* and a code that was used and about to be dropped is left.
LEMMA DieStep ==
  ASSUME IInv, NEW r \in Reqs, Die(r)
  PROVE  IInv'
<1>1. /\ req' = [req EXCEPT ![r] = Idle] /\ UNCHANGED <<purpose, otps, wrong>>
      /\ IF At(r, "create") THEN Crowd(Phone(r)) ELSE UNCHANGED <<sent, crowded>>
      /\ IF At(r, "drop") /\ req[r].seen.id \in PendingOf(Phone(r))
         THEN /\ left' = left \cup {req[r].seen.id}
              /\ uses' = [uses EXCEPT ![req[r].seen.id] = 0]
         ELSE UNCHANGED <<uses, left>>
      /\ Phone(r) \in Phones
  BY StageOf DEF Die, Done, IInv, Phone
<1>2. At(r, "drop") => req[r].seen.id \in Ids
  BY FoundOf DEF IInv, At, AfterFind
<1>3. /\ sent' \in [Phones -> Nat] /\ crowded' \subseteq Phones
      /\ \A p \in Phones :
           p \notin crowded' => p \notin crowded /\ sent'[p] = sent[p]
      /\ At(r, "create") => Phone(r) \in crowded'
  BY <1>1, TypesOf DEF IInv, Crowd
<1>4. /\ uses' \in [Ids -> Nat] /\ left' \subseteq Ids
      /\ \A id \in Ids : id \notin left' => id \notin left /\ uses'[id] = uses[id]
  BY <1>1, <1>2, TypesOf DEF IInv
<1>5. HistoryOK'
  BY <1>1, <1>3, <1>4, TypesOf DEF IInv, HistoryOK
<1>6. /\ TInv' /\ req'[r] = Idle
      /\ \A q \in Reqs \ {r} : req'[q] = req[q]
  BY <1>1, <1>5, MoveTypes, IdleType DEF IInv
<1>7. ASSUME NEW id \in Ids, id \notin left', Holds(r, "drop", id)
      PROVE  ~Pending(id)
  <2>1. At(r, "drop") /\ req[r].seen.id = id /\ req[r].pc \in AfterFind
    BY <1>7 DEF Holds, At, AfterFind
  <2>2. IsRow(id) => otps[id].phone = Phone(r)
    BY <2>1, FoundOf DEF IInv, Phone
  <2>3. id \notin PendingOf(Phone(r))
    BY <1>1, <1>7, <2>1
  <2> QED
    BY <2>2, <2>3 DEF Pending, PendingOf, OfPhone
<1>8. ASSUME NEW p \in Phones PROVE LimitOK(p)'
  BY <1>1, <1>3, <1>6, IdleType, LimitOnLeave DEF IInv
<1>9. Idle.pc # "create"
  BY IdleType
<1> QED
  BY <1>1, <1>4, <1>5, <1>7, <1>8, <1>9, IdleType, LeaveStep

-----------------------------------------------------------------------------
(* The latest row. *)

\* A row of the phone, or none when there is none.
LEMMA LatestOfPhone ==
  ASSUME TInv, NEW p \in Phones, NEW id \in Latest(OfPhone(p))
  PROVE  \/ id = None /\ OfPhone(p) = {}
         \/ id # None /\ id \in OfPhone(p) /\ id \in Ids /\ IsRow(id)
<1>1. CASE OfPhone(p) = {}
  BY <1>1 DEF Latest, OfPhone
<1>2. CASE OfPhone(p) # {}
  <2>1. id \in OfPhone(p)
    BY <1>2 DEF Latest
  <2> QED
    BY <2>1, OneTimePasswordsAssumption DEF OfPhone, Ids
<1> QED
  BY <1>1, <1>2

LEMMA LatestPending ==
  ASSUME TInv, NEW p \in Phones, NEW id \in Latest(PendingOf(p)), id # None
  PROVE  /\ id \in Ids /\ IsRow(id) /\ otps[id].phone = p
         /\ otps[id].status = "PENDING"
BY DEF Latest, OfPhone, PendingOf

LEMMA LatestOfAddress ==
  ASSUME TInv, NEW ip, NEW id \in Latest(OfAddress(ip))
  PROVE  id = None \/ (id \in Ids /\ IsRow(id))
BY DEF Latest, OfAddress

\* What is read of a row.
LEMMA LimitType ==
  ASSUME TInv, NEW id, id = None \/ (id \in Ids /\ IsRow(id))
  PROVE  /\ LimitOf(id) \in Limit \cup {None}
         /\ id # None => /\ LimitOf(id) # None /\ LimitOf(id).id = id
                         /\ LimitOf(id).level = otps[id].level
                         /\ LimitOf(id).count = otps[id].count
                         /\ LimitOf(id).blocked = otps[id].blocked
         /\ id = None => LimitOf(id) = None
<1>1. CASE id = None
  BY <1>1 DEF LimitOf
<1>2. CASE id # None /\ id \in Ids /\ IsRow(id)
  <2>1. otps[id] \in Otp
    BY <1>2, TypesOf
  <2>2. LimitOf(id) = [id |-> id, level |-> otps[id].level,
                       count |-> otps[id].count, blocked |-> otps[id].blocked]
    BY <1>2 DEF LimitOf
  <2>3. LimitOf(id) \in Limit
    BY <1>2, <2>1, <2>2 DEF Otp, Limit
  <2> QED
    BY <1>2, <2>2, <2>3, NullApart
<1> QED
  BY <1>1, <1>2

-----------------------------------------------------------------------------
(* The limits. *)

\* A limit that is not passed allows two codes, and one more than before.
LEMMA NextLimitFacts ==
  ASSUME NEW row \in Limit \cup {None}
  PROVE  LET next == NextLimit(row)
         IN  /\ next.level \in Levels /\ next.over \in BOOLEAN
             /\ next.over => row # None
             /\ ~next.over =>
                  /\ next.count \in Counts /\ next.count >= 1
                  /\ Most(next.level, next.count) <= 2
                  /\ row = None => Most(next.level, next.count) = 1
                  /\ row # None => Most(next.level, next.count)
                                     = Most(row.level, row.count) + 1
<1>1. CASE row = None
  <2>1. NextLimit(row) = [level |-> 1, count |-> 1, over |-> FALSE]
    <3>1. (1 > 2) = FALSE
      OBVIOUS
    <3> QED
      BY <1>1, <3>1 DEF NextLimit
  <2> QED
    BY <1>1, <2>1, Bounds DEF Most, Counts
<1>2. CASE row # None
  <2>1. row.level \in 1..MaxLevel /\ row.count \in 0..2 /\ MaxLevel \in Nat
    BY <1>2, Bounds DEF Limit, Levels, Counts
  <2> DEFINE count == row.count + 1
             over == count > (IF row.level = 1 THEN 2 ELSE 1)
             level == IF over /\ row.level < MaxLevel THEN row.level + 1
                      ELSE row.level
  <2>2. NextLimit(row) = [level |-> level, count |-> count, over |-> over]
    BY <1>2 DEF NextLimit
  <2>3. level \in 1..MaxLevel /\ over \in BOOLEAN
    BY <2>1
  <2>4. ~over => /\ count \in 0..2 /\ count >= 1 /\ Most(level, count) <= 2
                 /\ Most(level, count) = Most(row.level, row.count) + 1
    BY <2>1 DEF Most
  <2> HIDE DEF count, over, level
  <2> QED
    BY <1>2, <2>2, <2>3, <2>4 DEF Levels, Counts
<1> QED
  BY <1>1, <1>2

\* The higher of two limits allows as much as each of them.
LEMMA MergedFacts ==
  ASSUME NEW seen \in Limit \cup {None}, NEW other \in Limit \cup {None},
         ~NextLimit(seen).over, ~NextLimit(other).over
  PROVE  LET m == Merged(NextLimit(seen), NextLimit(other))
         IN  /\ m.level \in Levels /\ m.count \in Counts /\ m.count >= 1
             /\ Most(m.level, m.count) <= 2
             /\ Most(NextLimit(seen).level, NextLimit(seen).count)
                  <= Most(m.level, m.count)
<1> DEFINE a == NextLimit(seen)
           b == NextLimit(other)
<1>1. /\ a.level \in Levels /\ a.count \in Counts /\ a.count >= 1
      /\ Most(a.level, a.count) <= 2
  BY NextLimitFacts
<1>2. /\ b.level \in Levels /\ b.count \in Counts /\ b.count >= 1
      /\ Most(b.level, b.count) <= 2
  BY NextLimitFacts
<1> HIDE DEF a, b
<1>3. /\ a.level \in Nat /\ a.count \in Nat /\ a.level >= 1
      /\ b.level \in Nat /\ b.count \in Nat /\ b.level >= 1
  BY <1>1, <1>2, Bounds DEF Levels, Counts
<1>4. \/ Merged(a, b) = a
      \/ /\ Merged(a, b) = b
         /\ ~(a.level > b.level \/ (a.level = b.level /\ a.count >= b.count))
  BY DEF Merged
<1>5. Merged(a, b) = b =>
        Merged(a, b) = a \/ Most(a.level, a.count) <= Most(b.level, b.count)
  BY <1>1, <1>2, <1>3, <1>4 DEF Most
<1>6. /\ Most(a.level, a.count) \in Nat /\ Most(b.level, b.count) \in Nat
  BY <1>3 DEF Most
<1>7. CASE Merged(a, b) = a
  BY <1>1, <1>6, <1>7 DEF a, b
<1>8. CASE Merged(a, b) = b /\ Most(a.level, a.count) <= Most(b.level, b.count)
  BY <1>2, <1>8 DEF a, b
<1> QED
  BY <1>4, <1>5, <1>7, <1>8

\* The rows that are blocked are named with the level they get.
LEMMA BlockingType ==
  ASSUME NEW seen \in Limit \cup {None}, NEW other \in Limit \cup {None}
  PROVE  Blocking(seen, other) \in Seq(Level)
<1> DEFINE a == NextLimit(seen)
           b == NextLimit(other)
           one == IF a.over THEN <<[id |-> seen.id, level |-> a.level]>>
                  ELSE <<>>
           two == IF b.over /\ (seen = None \/ other.id # seen.id)
                  THEN <<[id |-> other.id, level |-> b.level]>> ELSE <<>>
<1>1. /\ a.level \in Levels /\ b.level \in Levels
      /\ a.over => seen \in Limit
      /\ b.over => other \in Limit
  BY NextLimitFacts
<1>2. Blocking(seen, other) = one \o two
  BY DEF Blocking
<1> HIDE DEF a, b
<1>3. /\ a.over => [id |-> seen.id, level |-> a.level] \in Level
      /\ b.over => [id |-> other.id, level |-> b.level] \in Level
  BY <1>1 DEF Limit, Level
<1>4. one \in Seq(Level) /\ two \in Seq(Level)
  BY <1>3
<1> HIDE DEF one, two
<1> QED
  BY <1>2, <1>4

-----------------------------------------------------------------------------
(* Requests for a code. *)

\* A request for a code goes on, and what it has read bounds what was sent.
LEMMA GoOn ==
  ASSUME IInv, NEW r \in Reqs, NEW row \in ReqRow,
         req' = [req EXCEPT ![r] = row], Local, row.phone = req[r].phone,
         req[r].pc \in Sending \ {"create"}, row.pc \in Sending \ {"create"},
         StageOK(row), req[r].phone \notin crowded => SendOK(row)
  PROVE  IInv'
<1>1. UNCHANGED <<purpose, otps, sent, crowded, wrong, uses, left>>
  BY DEF Local, history
<1>2. HistoryOK'
  BY <1>1 DEF IInv, TInv, HistoryOK
<1>3. row.pc \notin AfterFind /\ row.pc # "create" /\ RefOK(row)
  BY DEF AfterFind, Sending, RefOK
<1>4. /\ TInv' /\ req'[r] = row
      /\ \A q \in Reqs \ {r} : req'[q] = req[q]
  BY <1>1, <1>2, <1>3, MoveTypes DEF IInv
<1>5. \A id : ~Holds(r, "drop", id)
  BY DEF Holds, At, Sending
<1>6. \A p \in Phones : LimitOK(p)'
  BY <1>1, <1>4, LimitOnSend DEF IInv
<1> QED
  BY <1>1, <1>2, <1>3, <1>5, <1>6, LeaveStep

\* The one request for a code of a phone is not about to create it when it is
\* somewhere else.
LEMMA NoCreator ==
  ASSUME TInv, NEW r \in Reqs, req[r].pc \in Sending \ {"create"},
         LimitOK(req[r].phone), req[r].phone \notin crowded
  PROVE  Creators(req[r].phone) = {} /\ SendOK(req[r])
<1>1. r \in Senders(req[r].phone)
  BY DEF Senders, Phone
<1>2. \A q \in Creators(req[r].phone) : q \in Senders(req[r].phone)
  BY DEF Senders, Creators, At, Phone, Sending
<1> QED
  BY <1>1, <1>2 DEF LimitOK, Creators, At

LEMMA ReadByPhoneStep ==
  ASSUME IInv, NEW r \in Reqs, ReadByPhone(r)
  PROVE  IInv'
<1>1. PICK id \in Latest(OfPhone(Phone(r))) :
        /\ At(r, "byPhone") /\ Local
        /\ req' = [req EXCEPT ![r].pc = "byIp", ![r].seen = LimitOf(id)]
  BY DEF ReadByPhone
<1>2. /\ req[r] \in ReqRow /\ req[r].pc = "byPhone" /\ req[r].phone \in Phones
      /\ req[r].updates = <<>> /\ req \in [Reqs -> ReqRow]
  BY <1>1, StageOf, IdleType DEF At, IInv
<1>3. \/ id = None /\ OfPhone(req[r].phone) = {}
      \/ id # None /\ id \in OfPhone(req[r].phone) /\ id \in Ids /\ IsRow(id)
  BY <1>1, <1>2, LatestOfPhone DEF Phone, IInv
<1>4. /\ LimitOf(id) \in Limit \cup {None}
      /\ id # None => /\ LimitOf(id) # None
                      /\ LimitOf(id).level = otps[id].level
                      /\ LimitOf(id).count = otps[id].count
                      /\ LimitOf(id).blocked = otps[id].blocked
      /\ id = None => LimitOf(id) = None
  BY <1>3, LimitType DEF IInv
<1> DEFINE row == [req[r] EXCEPT !.pc = "byIp", !.seen = LimitOf(id)]
<1>5. /\ row \in ReqRow /\ row.pc = "byIp" /\ row.phone = req[r].phone
      /\ row.seen = LimitOf(id) /\ row.updates = <<>>
  BY <1>2, <1>4 DEF ReqRow
<1>6. req' = [req EXCEPT ![r] = row]
  BY <1>1, <1>2
<1> HIDE DEF row
<1>7. StageOK(row)
  BY <1>2, <1>4, <1>5 DEF StageOK
<1>8. /\ row.pc \in Sending \ {"create"} /\ req[r].pc \in Sending \ {"create"}
  BY <1>2, <1>5 DEF Sending
<1>9. ASSUME req[r].phone \notin crowded
      PROVE  SendOK(row)
  <2>1. LimitOK(req[r].phone)
    BY <1>2 DEF IInv
  <2>2. Creators(req[r].phone) = {}
    BY <1>8, <1>9, <2>1, NoCreator DEF IInv
  <2>3. CASE id = None
    <3>1. sent[req[r].phone] = 0
      BY <1>3, <1>9, <2>1, <2>2, <2>3 DEF LimitOK, OfPhone
    <3> QED
      BY <1>4, <1>5, <2>3, <3>1 DEF SendOK
  <2>4. CASE id # None
    <3>1. otps[id].blocked
            \/ sent[req[r].phone] <= Most(otps[id].level, otps[id].count)
      BY <1>3, <1>9, <2>1, <2>4 DEF LimitOK
    <3> QED
      BY <1>4, <1>5, <2>4, <3>1 DEF SendOK
  <2> QED
    BY <2>3, <2>4
<1> QED
  BY <1>1, <1>5, <1>6, <1>7, <1>8, <1>9, GoOn

LEMMA ReadByIpStep ==
  ASSUME IInv, NEW r \in Reqs, ReadByIp(r)
  PROVE  IInv'
<1> DEFINE seen == req[r].seen
<1>1. PICK id \in IF req[r].ip = None THEN {None}
                  ELSE Latest(OfAddress(req[r].ip)) :
        LET other == LimitOf(id)
            limits == {NextLimit(seen), NextLimit(other)}
            merged == Merged(NextLimit(seen), NextLimit(other))
        IN  \/ /\ ~Blocked(seen) /\ ~Blocked(other)
               /\ \E l \in limits : l.over
               /\ Blocking(seen, other) # <<>>
               /\ req' = [req EXCEPT ![r].pc = "block", ![r].seen = None,
                                     ![r].updates = Blocking(seen, other)]
               /\ Local
            \/ /\ ~Blocked(seen) /\ ~Blocked(other)
               /\ \A l \in limits : ~l.over
               /\ req' = [req EXCEPT ![r].pc = "clear", ![r].seen = None,
                                     ![r].level = merged.level,
                                     ![r].count = merged.count]
               /\ Local
            \/ Throw(r)
  BY Zenon DEF ReadByIp
<1> DEFINE other == LimitOf(id)
<1>2. /\ req[r] \in ReqRow /\ req[r].pc = "byIp" /\ req[r].phone \in Phones
      /\ seen \in Limit \cup {None} /\ req[r].updates = <<>>
      /\ req \in [Reqs -> ReqRow] /\ req[r].pc \in Sending \ {"create"}
  BY StageOf, IdleType DEF ReadByIp, At, IInv, Sending
<1>3. other \in Limit \cup {None}
  BY LatestOfAddress, LimitType, <1>1 DEF IInv
<1> HIDE DEF other
<1>4. CASE Throw(r)
  BY <1>2, <1>4, ThrowStep DEF At
<1>5. CASE /\ Blocking(seen, other) # <<>> /\ Local
           /\ req' = [req EXCEPT ![r].pc = "block", ![r].seen = None,
                                 ![r].updates = Blocking(seen, other)]
  <2> DEFINE one == [req[r] EXCEPT !.pc = "block", !.seen = None]
             row == [one EXCEPT !.updates = Blocking(seen, other)]
  <2>1. one \in ReqRow /\ one.pc = "block" /\ one.seen = None
          /\ one.phone = req[r].phone
    BY <1>2 DEF ReqRow
  <2> HIDE DEF one
  <2>2. /\ row \in ReqRow /\ row.pc = "block" /\ row.seen = None
        /\ row.phone = req[r].phone /\ row.updates = Blocking(seen, other)
    BY <1>2, <1>3, <2>1, BlockingType DEF ReqRow
  <2>3. req' = [req EXCEPT ![r] = row]
    BY <1>2, <1>5 DEF one
  <2> HIDE DEF row
  <2>4. StageOK(row) /\ SendOK(row) /\ row.pc \in Sending \ {"create"}
    BY <1>2, <1>5, <2>2 DEF StageOK, SendOK, Sending
  <2> QED
    BY <1>2, <1>5, <2>2, <2>3, <2>4, GoOn
<1> DEFINE m == Merged(NextLimit(seen), NextLimit(other))
<1>6. CASE /\ ~Blocked(seen) /\ Local
           /\ ~NextLimit(seen).over /\ ~NextLimit(other).over
           /\ req' = [req EXCEPT ![r].pc = "clear", ![r].seen = None,
                                 ![r].level = m.level, ![r].count = m.count]
  <2>1. /\ m.level \in Levels /\ m.count \in Counts /\ m.count >= 1
        /\ Most(m.level, m.count) <= 2
        /\ Most(NextLimit(seen).level, NextLimit(seen).count)
             <= Most(m.level, m.count)
    BY <1>2, <1>3, <1>6, MergedFacts
  <2> DEFINE so == sent[req[r].phone]
  <2>2. ASSUME req[r].phone \notin crowded
        PROVE  so + 1 <= Most(NextLimit(seen).level, NextLimit(seen).count)
    <3>1. SendOK(req[r]) /\ so \in Nat
      BY <1>2, <2>2, TypesOf, NoCreator DEF IInv
    <3>2. CASE seen = None
      <4>1. so = 0
        BY <1>2, <3>1, <3>2 DEF SendOK
      <4>2. Most(NextLimit(seen).level, NextLimit(seen).count) = 1
        BY <1>2, <1>6, <3>2, NextLimitFacts
      <4> QED
        BY <4>1, <4>2
    <3>3. CASE seen # None
      <4>1. so <= Most(seen.level, seen.count)
        BY <1>2, <1>6, <3>1, <3>3 DEF SendOK, Blocked
      <4>2. Most(NextLimit(seen).level, NextLimit(seen).count)
              = Most(seen.level, seen.count) + 1
        BY <1>2, <1>6, <3>3, NextLimitFacts
      <4>3. Most(seen.level, seen.count) \in Nat
        <5>1. seen.count \in Nat
          BY <1>2, <3>3, Bounds DEF Limit
        <5> QED
          BY <5>1 DEF Most
      <4> HIDE DEF seen, so
      <4> QED
        BY <3>1, <4>1, <4>2, <4>3
    <3> QED
      BY <3>2, <3>3
  <2>3. /\ Most(NextLimit(seen).level, NextLimit(seen).count) \in Nat
        /\ Most(m.level, m.count) \in Nat /\ so \in Nat
    <3>1. NextLimit(seen).count \in Nat /\ m.count \in Nat
      BY <1>2, <1>6, <2>1, NextLimitFacts, Bounds
    <3>2. so \in Nat
      BY <1>2, TypesOf DEF IInv
    <3> QED
      BY <3>1, <3>2 DEF Most
  <2> HIDE DEF so
  <2>4. req[r].phone \notin crowded => so + 1 <= Most(m.level, m.count)
    BY <2>1, <2>2, <2>3
  <2> DEFINE one == [req[r] EXCEPT !.pc = "clear", !.seen = None]
             row == [one EXCEPT !.level = m.level, !.count = m.count]
  <2> HIDE DEF m
  <2>5. /\ one \in ReqRow /\ one.pc = "clear" /\ one.seen = None
        /\ one.phone = req[r].phone /\ one.updates = <<>>
    BY <1>2 DEF ReqRow
  <2>6. req' = [req EXCEPT ![r] = row]
    BY <1>2, <1>6
  <2> HIDE DEF one
  <2>7. /\ row \in ReqRow /\ row.pc = "clear" /\ row.seen = None
        /\ row.phone = req[r].phone /\ row.updates = <<>>
        /\ row.level = m.level /\ row.count = m.count
    BY <2>1, <2>5 DEF ReqRow
  <2> HIDE DEF row
  <2>8. StageOK(row) /\ row.pc \in Sending \ {"create"}
    BY <1>2, <2>1, <2>7 DEF StageOK, Sending
  <2>9. req[r].phone \notin crowded => SendOK(row)
    BY <2>4, <2>7 DEF SendOK, so
  <2> QED
    BY <1>2, <1>6, <2>6, <2>7, <2>8, <2>9, GoOn
<1> QED
  BY <1>1, <1>4, <1>5, <1>6 DEF other

\* Each row is blocked by its id.
LEMMA BlockRowStep ==
  ASSUME IInv, NEW r \in Reqs, BlockRow(r)
  PROVE  IInv'
<1> DEFINE first == Head(req[r].updates)
<1>1. /\ At(r, "block") /\ req[r] \in ReqRow /\ req[r].updates # <<>>
      /\ req[r].phone \in Phones /\ req[r].seen = None
      /\ req \in [Reqs -> ReqRow]
  BY StageOf, IdleType DEF BlockRow, At, IInv
<1>2. req[r].updates \in Seq(Level) /\ first \in Level
      /\ Tail(req[r].updates) \in Seq(Level)
  BY <1>1 DEF ReqRow
<1>3. CASE Throw(r)
  BY <1>1, <1>3, ThrowStep DEF At
<1>5. PICK id \in Ids : id = first.id
  BY <1>2 DEF Level
<1> DEFINE new == [otps[id] EXCEPT !.level = first.level, !.count = 0,
                                   !.blocked = TRUE]
<1>4. CASE /\ IsRow(id) /\ Write(id, new) /\ UNCHANGED <<purpose, history>>
           /\ IF Len(req[r].updates) = 1 THEN Done(r)
              ELSE req' = [req EXCEPT ![r].updates = Tail(@)]
  <2>1. id \in Ids /\ first.level \in Levels
    BY <1>2 DEF Level
  <2>2. otps[id] \in Otp /\ RowOK(otps[id])
    BY <1>4, <2>1, TypesOf DEF IInv
  <2>3. /\ new \in Otp /\ new.phone = otps[id].phone /\ new.blocked
        /\ new.status = otps[id].status /\ new.attempts = otps[id].attempts
        /\ new.level \in Levels /\ new.count = 0
    BY <2>1, <2>2, Bounds DEF Otp
  <2>4. Write(id, new) /\ UNCHANGED <<purpose, sent, crowded, wrong, uses, left>>
    BY <1>4 DEF history
  <2> HIDE DEF new, first
  <2>5. RowOK(new)
    BY <2>2, <2>3 DEF RowOK, Most
  <2>6. HistoryOK'
    BY <2>4 DEF IInv, TInv, HistoryOK
  <2>7. /\ req' \in [Reqs -> ReqRow]
        /\ \A q \in Reqs \ {r} : req'[q] = req[q]
        /\ \/ req'[r] = Idle
           \/ /\ req'[r].pc = "block" /\ StageOK(req'[r])
              /\ req'[r].phone = req[r].phone
    <3>1. CASE Len(req[r].updates) = 1
      <4>1. req' = [req EXCEPT ![r] = Idle]
        BY <1>4, <3>1 DEF Done
      <4> QED
        BY <1>1, <4>1, IdleType
    <3>2. CASE Len(req[r].updates) # 1
      <4> DEFINE row == [req[r] EXCEPT !.updates = Tail(@)]
      <4>1. req' = [req EXCEPT ![r] = row]
        BY <1>1, <1>4, <3>2
      <4>2. Tail(req[r].updates) # <<>>
        <5> DEFINE s == req[r].updates
        <5>1. s \in Seq(Level) /\ s # <<>> /\ Len(s) # 1
          BY <1>1, <1>2, <3>2
        <5> HIDE DEF s
        <5>2. Len(s) \in Nat /\ Len(s) # 0
          BY <5>1
        <5>3. Len(Tail(s)) = Len(s) - 1 /\ Len(<<>>) = 0
          BY <5>1
        <5>4. Len(Tail(s)) # Len(<<>>)
          BY <5>1, <5>2, <5>3
        <5> QED
          BY <5>4 DEF s
      <4>3. /\ row \in ReqRow /\ row.pc = "block" /\ row.phone = req[r].phone
            /\ row.seen = None /\ row.updates # <<>>
        BY <1>1, <1>2, <4>2 DEF ReqRow, At
      <4> HIDE DEF row
      <4>4. StageOK(row)
        BY <1>1, <4>3 DEF StageOK
      <4> QED
        BY <1>1, <4>1, <4>3, <4>4
    <3> QED
      BY <3>1, <3>2
  <2>8. \A q \in Reqs :
          \/ req'[q] = req[q]
          \/ /\ req'[q].pc \notin AfterFind \cup {"create"} /\ StageOK(req'[q])
             /\ req[q].pc = "block"
             /\ req'[q].pc \in Sending =>
                  req'[q].pc = "block" /\ req'[q].phone = req[q].phone
    <3>1. req[r].pc = "block"
      BY <1>1 DEF At
    <3>2. Idle.pc \notin AfterFind \cup {"create"} /\ StageOK(Idle)
          /\ Idle.pc \notin Sending
      BY IdleType
    <3> QED
      BY <2>7, <3>1, <3>2 DEF AfterFind
  <2>9. ASSUME TInv'
        PROVE  /\ UsesOK(id)' /\ GuessOK(id)'
               /\ \A p \in Phones : LimitOK(p)'
    <3>1. /\ otps'[id] = new
          /\ \A other \in Ids \ {id} : otps'[other] = otps[other]
          /\ \A p : OfPhone(p)' = OfPhone(p)
      <4>1. \A q \in Reqs :
              \/ req'[q] = req[q]
              \/ req'[q].pc \notin AfterFind /\ StageOK(req'[q])
        BY <2>8
      <4> QED
        BY <1>4, <2>1, <2>3, <2>4, <2>5, <2>6, <2>7, <4>1, PutTypes DEF IInv
    <3>2. /\ UsesOK(id) /\ GuessOK(id)
      BY <2>1 DEF IInv
    <3>3. \A q \in Reqs :
            \/ req'[q] = req[q]
            \/ req'[q].pc \notin AfterFind /\ req[q].pc # "drop"
      BY <2>8
    <3>4. IsRow(id) /\ UNCHANGED <<wrong, uses, left>> /\ TInv
      BY <1>4, <2>4 DEF IInv
    <3>41. UsesOK(id)' /\ GuessOK(id)'
      BY <2>1, <2>3, <2>9, <3>1, <3>2, <3>3, <3>4, PutCode
    <3>5. ASSUME NEW p \in Phones PROVE LimitOK(p)'
      BY <2>1, <2>3, <2>4, <2>8, <2>9, <3>1, LimitOnPut DEF IInv
    <3> QED
      BY <3>41, <3>5
  <2>10. \A q \in Reqs :
           \/ req'[q] = req[q]
           \/ /\ req'[q].pc \notin AfterFind \cup {"create"} /\ StageOK(req'[q])
              /\ req[q].pc # "drop"
              /\ req[q].pc \in AfterFind => req[q].seen.id = id
    BY <2>8 DEF AfterFind
  <2>11. /\ UNCHANGED <<purpose, left>>
         /\ \A other \in Ids \ {id} :
              wrong'[other] = wrong[other] /\ uses'[other] = uses[other]
         /\ IsRow(id)
    BY <1>4, <2>4
  <2> QED
    BY <2>1, <2>3, <2>4, <2>5, <2>6, <2>7, <2>9, <2>10, <2>11, PutStep
<1> QED
  BY <1>3, <1>4, <1>5 DEF BlockRow

\* The codes of the phone are deleted by the request that creates the new one.
LEMMA ClearPhoneStep ==
  ASSUME IInv, NEW r \in Reqs, ClearPhone(r)
  PROVE  IInv'
<1>1. /\ At(r, "clear") /\ req[r] \in ReqRow /\ req[r].phone \in Phones
      /\ req[r].seen = None /\ req[r].updates = <<>>
      /\ req[r].count >= 1 /\ Most(req[r].level, req[r].count) <= 2
      /\ req \in [Reqs -> ReqRow]
  BY StageOf, IdleType DEF ClearPhone, At, IInv
<1>2. PICK p \in Phones : p = req[r].phone
  BY <1>1
<1> DEFINE row == [req[r] EXCEPT !.pc = "create"]
<1>3. /\ row \in ReqRow /\ row.pc = "create" /\ row.phone = p
      /\ row.seen = None /\ row.updates = <<>>
      /\ row.level = req[r].level /\ row.count = req[r].count
  BY <1>1, <1>2 DEF ReqRow
<1>4. /\ Delete(OfPhone(p))
      /\ UNCHANGED <<purpose, sent, crowded, wrong, uses, left>>
      /\ req' = [req EXCEPT ![r] = row]
  BY <1>1, <1>2 DEF ClearPhone, Phone, Goto, history
<1> HIDE DEF row
<1>5. StageOK(row)
  BY <1>1, <1>2, <1>3 DEF StageOK
<1>6. HistoryOK'
  BY <1>4 DEF IInv, TInv, HistoryOK
<1>7. /\ req' \in [Reqs -> ReqRow] /\ req'[r] = row
      /\ \A q \in Reqs \ {r} : req'[q] = req[q]
  BY <1>1, <1>3, <1>4
<1>8. \A q \in Reqs :
        \/ req'[q] = req[q]
        \/ /\ req'[q].pc \notin AfterFind /\ StageOK(req'[q])
           /\ req[q].pc # "drop"
  BY <1>1, <1>3, <1>5, <1>7 DEF AfterFind, At
<1>9. PICK gone : gone = OfPhone(p)
  OBVIOUS
<1>10. /\ \A id \in Ids : IsRow(id)' =>
            /\ otps'[id].level = otps[id].level
            /\ otps'[id].count = otps[id].count
            /\ otps'[id].blocked = otps[id].blocked
       /\ \A x : OfPhone(x)' = OfPhone(x) \ gone
  BY <1>4, <1>6, <1>7, <1>8, <1>9, DeleteTypes DEF IInv
<1>11. ASSUME TInv', NEW x \in Phones
       PROVE  LimitOK(x)' /\ CodesOK(x)'
  <2>1. LimitOK(x) /\ CodesOK(x)
    BY DEF IInv
  <2>2. x # p => OfPhone(x)' = OfPhone(x)
    BY <1>9, <1>10 DEF OfPhone
  <2>3. x = p => OfPhone(x)' = {}
    BY <1>9, <1>10
  <2>4. x # p => Creators(x)' = Creators(x)
    BY <1>2, <1>3, <1>7 DEF Creators, At, Phone
  <2>5. x = p => r \in Creators(x)' /\ r \in Senders(x)
    BY <1>1, <1>2, <1>3, <1>7 DEF Creators, Senders, Sending, At, Phone
  <2>6. CodesOK(x)'
    <3>1. CASE x # p
      BY <2>1, <2>2, <2>4, <3>1, CodesKept
    <3>2. CASE x = p
      <4>1. Cardinality(Creators(x)') \in Nat
            /\ Cardinality(Creators(x)') <= Cardinality(Reqs)
        BY Bounds, FewerLess DEF Creators
      <4>2. Cardinality(OfPhone(x)') = 0
        BY <2>3, <3>2, FS_EmptySet
      <4> QED
        BY <4>1, <4>2 DEF CodesOK, N
    <3> QED
      BY <3>1, <3>2
  <2>7. \A q \in Senders(x)' : q \in Senders(x)
    BY <1>1, <1>2, <1>3, <1>7 DEF Senders, Phone, At, Sending
  <2>8. x \notin crowded' => \A q1, q2 \in Senders(x)' : q1 = q2
    BY <1>4, <2>1, <2>7 DEF LimitOK
  <2>9. ASSUME x \notin crowded', NEW q \in Senders(x)'
        PROVE  (q \in Senders(x) /\ req'[q] = req[q]) \/ SendOK(req[q])'
    <3>1. CASE q # r
      BY <1>7, <2>7, <3>1 DEF Senders
    <3>2. CASE q = r
      <4>1. x = p
        BY <1>3, <1>7, <3>2 DEF Senders, Phone
      <4>2. SendOK(req[r])
        BY <1>4, <2>1, <2>5, <2>9, <4>1 DEF LimitOK
      <4>3. sent'[p] + 1 <= Most(row.level, row.count)
        BY <1>1, <1>2, <1>3, <1>4, <4>2 DEF SendOK, At
      <4> QED
        BY <1>3, <1>7, <2>3, <3>2, <4>1, <4>3 DEF SendOK, Most
    <3> QED
      BY <3>1, <3>2
  <2>10. x \notin crowded' =>
           (OfPhone(x)' = {} /\ Creators(x)' = {} => sent'[x] = 0)
    BY <1>4, <2>1, <2>2, <2>4, <2>5 DEF LimitOK
  <2>11. \A id \in OfPhone(x)' :
           /\ id \in OfPhone(x)
           /\ otps'[id].level = otps[id].level
           /\ otps'[id].count = otps[id].count
           /\ otps'[id].blocked = otps[id].blocked
    BY <1>10 DEF OfPhone
  <2>12. LimitOK(x)'
    BY <1>4, <1>11, <2>1, <2>8, <2>9, <2>10, <2>11, LimitKept DEF IInv
  <2> QED
    BY <2>6, <2>12
<1>12. Delete(gone)
  BY <1>4, <1>9
<1>13. UNCHANGED <<purpose, wrong, uses, left>>
  BY <1>4
<1> QED
  BY <1>6, <1>7, <1>8, <1>11, <1>12, <1>13, DeleteStep

\* A new code has an id that nothing refers to, all its attempts, and the
\* limit that the request decided on.
LEMMA CreateOtpStep ==
  ASSUME IInv, NEW r \in Reqs, CreateOtp(r)
  PROVE  IInv'
<1>1. /\ At(r, "create") /\ req[r] \in ReqRow /\ req[r].phone \in Phones
      /\ req[r].ip \in Addresses \cup {None}
      /\ req[r].level \in Levels /\ req[r].count \in Counts
      /\ req[r].count >= 1 /\ Most(req[r].level, req[r].count) <= 2
      /\ req \in [Reqs -> ReqRow]
  BY StageOf, IdleType DEF CreateOtp, At, IInv, ReqRow
<1>2. PICK p \in Phones : p = req[r].phone
  BY <1>1
<1> DEFINE new == [phone |-> p, ip |-> req[r].ip, status |-> "PENDING",
                   attempts |-> 0, level |-> req[r].level,
                   count |-> req[r].count, blocked |-> FALSE, late |-> FALSE,
                   older |-> {other \in Ids : IsRow(other)}]
<1>3. PICK id \in Ids :
        /\ Unused(id) /\ Write(id, new)
        /\ wrong' = [wrong EXCEPT ![id] = 0]
        /\ uses' = [uses EXCEPT ![id] = 0]
        /\ left' = left \ {id}
  BY <1>2 DEF CreateOtp, Phone
<1>4. /\ sent' = IF p \in crowded THEN sent ELSE [sent EXCEPT ![p] = sent[p] + 1]
      /\ req' = [req EXCEPT ![r] = Idle] /\ UNCHANGED <<purpose, crowded>>
  BY <1>2 DEF CreateOtp, Phone, Sent, Done
<1>5. /\ new \in Otp /\ new.phone = p /\ new.status = "PENDING"
      /\ new.attempts = 0 /\ new.level = req[r].level
      /\ new.count = req[r].count /\ new.blocked = FALSE
  BY <1>1, Bounds DEF Otp
<1>6. otps' = [otps EXCEPT ![id] = new]
  BY <1>3 DEF Write
<1> HIDE DEF new
<1>7. RowOK(new)
  BY <1>1, <1>5, Bounds DEF RowOK
<1>8. /\ otps' \in [Ids -> Otp \cup {None}] /\ otps'[id] = new /\ ~IsRow(id)
      /\ \A other \in Ids \ {id} : otps'[other] = otps[other]
  BY <1>3, <1>5, <1>6, TypesOf DEF IInv, Unused
<1>9. /\ req' \in [Reqs -> ReqRow] /\ req'[r] = Idle
      /\ \A q \in Reqs \ {r} : req'[q] = req[q]
  BY <1>1, <1>4, IdleType
<1>10. /\ IsRow(id)' /\ Pending(id)'
       /\ \A other \in Ids \ {id} :
            (IsRow(other)' <=> IsRow(other)) /\ (Pending(other)' <=> Pending(other))
  BY <1>5, <1>8, NullApart DEF IsRow, Pending
<1>11. /\ sent \in [Phones -> Nat] /\ wrong \in [Ids -> Nat]
       /\ uses \in [Ids -> Nat] /\ crowded \subseteq Phones
       /\ left \subseteq Ids
  BY TypesOf DEF IInv
<1>12. HistoryOK'
  <2>1. sent' \in [Phones -> Nat]
    BY <1>4, <1>11
  <2>2. wrong' \in [Ids -> Nat] /\ uses' \in [Ids -> Nat]
        /\ crowded' \subseteq Phones /\ left' \subseteq Ids
    BY <1>3, <1>4, <1>11
  <2> QED
    BY <2>1, <2>2 DEF HistoryOK
<1>13. ASSUME NEW q \in Reqs, NEW pc \in AfterFind
       PROVE  ~Holds(q, pc, id)'
  <2>1. q = r => ~Holds(q, pc, id)'
    BY <1>9, IdleType DEF Holds, At
  <2>2. ASSUME q # r, Holds(q, pc, id)
        PROVE  FALSE
    <3>1. req[q].pc \in AfterFind /\ req[q].seen.id = id
      BY <2>2 DEF Holds, At
    <3>2. req[q].seen # None
      BY <3>1, StageOf, NullApart DEF IInv
    <3> QED
      BY <1>3, <3>1, <3>2 DEF Unused
  <2> QED
    BY <1>9, <2>1, <2>2 DEF Holds, At
<1>14. TInv'
  <2>1. ASSUME NEW other \in Ids, IsRow(other)'
        PROVE  RowOK(otps[other])'
    <3>1. RowOK(otps'[other])
      BY <1>7, <1>8, <1>10, <2>1, TypesOf DEF IInv
    <3> QED
      BY <3>1 DEF RowOK
  <2>2. ASSUME NEW q \in Reqs
        PROVE  StageOK(req[q])' /\ RefOK(req[q])'
    <3>1. StageOK(req'[q]) /\ (req'[q] = req[q] => RefOK(req[q]))
      BY <1>9, IdleType DEF IInv, TInv
    <3>2. StageOK(req[q])'
      BY <3>1 DEF StageOK
    <3>3. RefOK(req[q])'
      <4> SUFFICES ASSUME req'[q].pc \in AfterFind, IsRow(req[q].seen.id)'
                   PROVE  otps'[req'[q].seen.id].phone = req'[q].phone
        BY DEF RefOK
      <4>1. q # r /\ req'[q] = req[q]
        BY <1>9, IdleType
      <4>2. req[q].seen.id \in Ids
        BY <4>1, FoundOf DEF IInv
      <4>3. req[q].seen.id # id
        BY <1>13, <4>1 DEF Holds, At
      <4> QED
        BY <1>8, <1>10, <3>1, <4>1, <4>2, <4>3 DEF RefOK
    <3> QED
      BY <3>2, <3>3
  <2>3. purpose' \in Purposes
    BY <1>4 DEF IInv, TInv
  <2> QED
    BY <1>8, <1>9, <1>12, <2>1, <2>2, <2>3 DEF TInv
<1>15. /\ OfPhone(p)' = OfPhone(p) \cup {id} /\ id \notin OfPhone(p)
       /\ \A x \in Phones \ {p} : OfPhone(x)' = OfPhone(x)
  <2>1. \A other \in Ids \ {id} : \A x :
          other \in OfPhone(x)' <=> other \in OfPhone(x)
    BY <1>8, <1>10 DEF OfPhone
  <2>2. id \in OfPhone(p)' /\ \A x \in Phones \ {p} : id \notin OfPhone(x)'
    BY <1>5, <1>8, <1>10 DEF OfPhone
  <2>3. \A x : id \notin OfPhone(x) /\ OfPhone(x) \subseteq Ids
               /\ OfPhone(x)' \subseteq Ids
    BY <1>8 DEF OfPhone
  <2> QED
    BY <2>1, <2>2, <2>3
<1>16. /\ Creators(p)' = Creators(p) \ {r} /\ r \in Creators(p) /\ r \in Senders(p)
       /\ \A x \in Phones \ {p} : Creators(x)' = Creators(x)
  BY <1>1, <1>2, <1>9, IdleType DEF Creators, Senders, At, Phone, Sending
<1>17. ASSUME NEW x \in Phones PROVE CodesOK(x)'
  <2>1. CASE x # p
    BY <1>15, <1>16, <2>1, CodesKept DEF IInv
  <2>2. CASE x = p
    <3>1. Cardinality(OfPhone(p)') = Cardinality(OfPhone(p)) + 1
          /\ Cardinality(OfPhone(p)) \in Nat
      BY <1>15, Finite, FS_AddElement, FS_CardinalityType
    <3>2. Cardinality(Creators(p)') = Cardinality(Creators(p)) - 1
          /\ Cardinality(Creators(p)) \in Nat
      BY <1>16, Finite, FS_RemoveElement, FS_CardinalityType
    <3>3. Cardinality(OfPhone(p)) + Cardinality(Creators(p)) <= N
      BY DEF IInv, CodesOK
    <3>4. Cardinality(OfPhone(p)') + Cardinality(Creators(p)') <= N
      BY <3>1, <3>2, <3>3, Bounds
    <3> QED
      BY <2>2, <3>4 DEF CodesOK, N
  <2> QED
    BY <2>1, <2>2
<1>18. ASSUME NEW x \in Phones PROVE LimitOK(x)'
  <2>1. LimitOK(x)
    BY DEF IInv
  <2>2. \A q \in Senders(x)' : q \in Senders(x) /\ q # r /\ req'[q] = req[q]
    BY <1>9, IdleType DEF Senders, Phone
  <2>3. CASE x # p
    <3>1. x \notin crowded' => x \notin crowded /\ sent'[x] = sent[x]
      BY <1>4, <1>11, <2>3
    <3>2. \A i \in OfPhone(x)' : i \in OfPhone(x) /\ otps'[i] = otps[i]
      BY <1>8, <1>15, <2>3 DEF OfPhone
    <3>3. x \notin crowded' => \A q1, q2 \in Senders(x)' : q1 = q2
      BY <1>4, <2>1, <2>2 DEF LimitOK
    <3>4. x \notin crowded' =>
            (OfPhone(x)' = {} /\ Creators(x)' = {} => sent'[x] = 0)
      BY <1>15, <1>16, <2>1, <2>3, <3>1 DEF LimitOK
    <3> QED
      BY <1>14, <2>1, <2>2, <3>1, <3>2, <3>3, <3>4, LimitKept DEF IInv
  <2>4. CASE x = p /\ p \notin crowded
    <3>1. SendOK(req[r])
      BY <1>16, <2>1, <2>4 DEF LimitOK
    <3>2. sent[p] + 1 <= Most(new.level, new.count) /\ OfPhone(p) = {}
      BY <1>1, <1>2, <1>5, <3>1 DEF SendOK, At
    <3>3. sent'[p] = sent[p] + 1 /\ OfPhone(p)' = {id}
      BY <1>4, <1>11, <1>15, <2>4, <3>2
    <3>4. Senders(p)' = {}
      <4>1. \A q \in Senders(p) : q = r
        BY <1>16, <2>1, <2>4 DEF LimitOK
      <4> QED
        BY <2>2, <2>4, <4>1
    <3>5. Most(new.level, new.count) <= 2 /\ new.count \in Nat
      BY <1>1, <1>5, Bounds
    <3>6. sent'[p] <= 2 /\ sent'[p] <= Most(new.level, new.count)
      <4>1. Most(new.level, new.count) \in Nat /\ sent[p] \in Nat
        BY <1>11, <3>5 DEF Most
      <4> QED
        BY <3>2, <3>3, <3>5, <4>1
    <3>7. sent'[p] <= Most(otps'[id].level, otps'[id].count)
      BY <1>8, <3>6
    <3> QED
      BY <2>4, <3>3, <3>4, <3>6, <3>7 DEF LimitOK, Most
  <2>5. CASE x = p /\ p \in crowded
    BY <1>4, <2>5 DEF LimitOK
  <2> QED
    BY <2>3, <2>4, <2>5
<1>19. UsesOK(id)'
  <2>1. Dropping(id)' = {}
    BY <1>13 DEF Dropping, AfterFind
  <2>2. uses'[id] = 0
    BY <1>3, <1>11
  <2> QED
    BY <1>10, <2>1, <2>2, FS_EmptySet DEF UsesOK
<1>20. GuessOK(id)'
  <2> DEFINE g == [q \in Reqs |-> Stake(q, id)']
             f == [q \in Reqs |-> 0]
             c == Answers[MaxAttempts]
  <2>1. ASSUME NEW q \in Reqs
        PROVE  g[q] = c
    <3>1. ~Holds(q, "wrong", id)' /\ otps'[id].attempts = 0
      BY <1>5, <1>8, <1>13 DEF AfterFind
    <3>2. MaxAttempts - 0 = MaxAttempts
      BY Bounds
    <3>3. Stake(q, id)' = Answers[MaxAttempts]
      BY <1>10, <3>1, <3>2 DEF Stake, StakeOf
    <3> QED
      BY <3>3
  <2>2. c \in Nat
    BY GuessBound
  <2>3. Stakes(id)' = SumFunctionOnSet(g, Reqs)
    BY DEF Stakes
  <2>4. \A q \in Reqs : f[q] = 0
    OBVIOUS
  <2> HIDE DEF g, f, c
  <2>5. \A q \in Reqs : f[q] \in Int /\ g[q] \in Int /\ g[q] <= f[q] + c
    BY <2>1, <2>2, <2>4
  <2>6. SumFunctionOnSet(g, Reqs) <= SumFunctionOnSet(f, Reqs) + N * c
    BY <2>2, <2>5, Bounds, SumWithin DEF N
  <2>7. SumFunctionOnSet(f, Reqs) = 0
    <3>1. SumFunctionOnSet(f, Reqs) = SumFunctionOnSet(f, {})
      <4>1. \A q \in Reqs : f[q] \in Int
        BY <2>4
      <4> QED
        BY <2>4, <4>1, Bounds, SumOfSupport
    <3> QED
      BY <3>1, SumOfNone
  <2>8. SumFunctionOnSet(g, Reqs) \in Int
    BY <2>5, Bounds, SumOfOneMore
  <2>9. wrong'[id] = 0
    BY <1>3, <1>11
  <2> DEFINE b == N * c
  <2>10. b \in Nat
    BY GuessBound DEF c
  <2>11. wrong'[id] + Stakes(id)' <= b /\ wrong'[id] <= b
    <3>1. SumFunctionOnSet(g, Reqs) <= 0 + b
      BY <2>6, <2>7
    <3> HIDE DEF b
    <3> QED
      BY <2>3, <2>8, <2>9, <2>10, <3>1
  <2> QED
    BY <2>11 DEF GuessOK, N, b, c
<1>21. ASSUME NEW other \in Ids, other # id
       PROVE  UsesOK(other)' /\ GuessOK(other)'
  <2>1. wrong'[other] = wrong[other] /\ uses'[other] = uses[other]
        /\ (other \in left' <=> other \in left)
    BY <1>3, <1>11, <1>21
  <2>2. \A q \in Reqs : \A pc \in AfterFind :
          /\ Holds(q, pc, other)' <=> Holds(q, pc, other)
          /\ Holds(q, pc, other)' => req'[q] = req[q]
    BY <1>1, <1>9, IdleType DEF Holds, At, AfterFind
  <2>3. Dropping(other)' = Dropping(other) /\ Using(other)' = Using(other)
    BY <2>2 DEF Dropping, Using, AfterFind
  <2>4. UsesOK(other) /\ GuessOK(other) /\ otps'[other] = otps[other]
    BY <1>8, <1>21 DEF IInv
  <2>5. UsesOK(other)'
    BY <1>10, <1>14, <1>21, <2>1, <2>3, <2>4, UsesKept DEF IInv
  <2>6. \A q \in Reqs : Holds(q, "wrong", other)' =>
          /\ Holds(q, "wrong", other)
          /\ req'[q].seen.attempts = req[q].seen.attempts
    BY <2>2 DEF AfterFind
  <2>7. GuessOK(other)'
    BY <1>10, <1>14, <1>21, <2>1, <2>4, <2>6, GuessKept DEF IInv
  <2> QED
    BY <2>5, <2>7
<1> QED
  BY <1>14, <1>17, <1>18, <1>19, <1>20, <1>21 DEF IInv

-----------------------------------------------------------------------------
(* Verifications. *)

\* A verification goes on with the pending code that was found.
LEMMA FindStep ==
  ASSUME IInv, NEW r \in Reqs, At(r, "verify"), NEW id \in Ids, IsRow(id),
         otps[id].phone = Phone(r), otps[id].status = "PENDING",
         NEW pc \in AfterFind \ {"drop"}, Local,
         req' = [req EXCEPT ![r].pc = pc,
                 ![r].seen = [id |-> id, attempts |-> otps[id].attempts]]
  PROVE  IInv'
<1>1. /\ req[r] \in ReqRow /\ req[r].phone \in Phones /\ req[r].pc = "verify"
      /\ req[r].updates = <<>> /\ req \in [Reqs -> ReqRow]
  BY StageOf, IdleType DEF At, IInv
<1>2. /\ otps[id] \in Otp /\ RowOK(otps[id])
      /\ otps[id].attempts \in 0..MaxAttempts
      /\ otps[id].attempts < MaxAttempts
  BY TypesOf DEF IInv, Otp, RowOK
<1>3. PICK found \in Found :
        found = [id |-> id, attempts |-> otps[id].attempts]
  BY <1>2 DEF Found
<1> DEFINE row == [req[r] EXCEPT !.pc = pc, !.seen = found]
<1>4. /\ row \in ReqRow /\ row.pc = pc /\ row.phone = req[r].phone
      /\ row.seen = found /\ row.updates = <<>>
  <2>1. pc \in {"expire", "wrong", "mark", "accept"}
    BY DEF AfterFind
  <2> QED
    BY <1>1, <2>1 DEF ReqRow
<1>5. req' = [req EXCEPT ![r] = row]
  BY <1>1, <1>3
<1> HIDE DEF row
<1>6. found.id = id /\ found.attempts = otps[id].attempts
  BY <1>3
<1>7. StageOK(row) /\ RefOK(row)
  BY <1>1, <1>2, <1>4, <1>6 DEF StageOK, RefOK, Phone
<1>8. UNCHANGED <<purpose, otps, sent, crowded, wrong, uses, left>>
  BY DEF Local, history
<1>9. HistoryOK'
  BY <1>8 DEF IInv, TInv, HistoryOK
<1>10. /\ TInv' /\ req'[r] = row
       /\ \A q \in Reqs \ {r} : req'[q] = req[q]
  BY <1>4, <1>5, <1>7, <1>8, <1>9, MoveTypes DEF IInv
<1>11. row.pc \notin Sending /\ ~At(r, "create") /\ row.pc # "create"
       /\ row.pc # "drop"
  BY <1>1, <1>4 DEF AfterFind, Sending, At
<1>12. \A p \in Phones : LimitOK(p)'
  BY <1>8, <1>10, <1>11, LimitOnLeave DEF IInv
<1>13. ASSUME NEW p \in Phones PROVE CodesOK(p)'
  <2>1. OfPhone(p)' \subseteq OfPhone(p) /\ Creators(p)' \subseteq Creators(p)
    BY <1>8, <1>10, <1>11, SameRows DEF Creators, At, Phone
  <2> QED
    BY <2>1, CodesKept DEF IInv
<1>14. Pending(id)
  BY DEF Pending
<1>15. ASSUME NEW other \in Ids PROVE UsesOK(other)' /\ GuessOK(other)'
  <2>1. /\ \A q \in Reqs \ {r} : \A at : Holds(q, at, other)' <=> Holds(q, at, other)
        /\ \A at \in AfterFind : ~Holds(r, at, other)
        /\ ~Holds(r, "drop", other)'
        /\ \A at : Holds(r, at, other)' => other = id
    BY <1>1, <1>4, <1>6, <1>10, <1>11 DEF Holds, At, AfterFind
  <2>2. Dropping(other)' = Dropping(other)
    BY <2>1 DEF Dropping, AfterFind
  <2>3. ~Pending(other)' => Using(other)' \subseteq Using(other)
    <3>1. ~Pending(other)' => other # id
      BY <1>8, <1>14, SameRows
    <3> QED
      BY <2>1, <3>1 DEF Using
  <2>4. (IsRow(other)' <=> IsRow(other)) /\ (Pending(other)' <=> Pending(other))
    BY <1>8, SameRows
  <2>5. UsesOK(other)'
    BY <1>8, <1>10, <2>2, <2>3, <2>4, UsesKept DEF IInv
  <2>6. \A q \in Reqs : Holds(q, "wrong", other)' =>
          \/ /\ Holds(q, "wrong", other)
             /\ req'[q].seen.attempts = req[q].seen.attempts
          \/ Pending(other)' /\ req'[q].seen.attempts = otps'[other].attempts
    <3>1. Holds(r, "wrong", other)' =>
            Pending(other)' /\ req'[r].seen.attempts = otps'[other].attempts
      BY <1>4, <1>6, <1>8, <1>10, <1>14, <2>1, <2>4
    <3> QED
      BY <1>10, <2>1, <3>1
  <2>7. GuessOK(other)'
    BY <1>8, <1>10, <2>4, <2>6, GuessKept DEF IInv
  <2> QED
    BY <2>5, <2>7
<1> QED
  BY <1>10, <1>12, <1>13, <1>15 DEF IInv

LEMMA FindOtpStep ==
  ASSUME IInv, NEW r \in Reqs, FindOtp(r)
  PROVE  IInv'
<1>1. /\ At(r, "verify") /\ Phone(r) \in Phones
  BY StageOf, IdleType DEF FindOtp, At, IInv, Phone
<1>2. PICK id \in Latest(PendingOf(Phone(r))) :
        \/ Throw(r)
        \/ /\ id # None /\ Local
           /\ \E pc \in AfterFind \ {"drop"} :
                req' = [req EXCEPT ![r].pc = pc,
                        ![r].seen = [id |-> id, attempts |-> otps[id].attempts]]
  BY DEF FindOtp, AfterFind
<1>3. CASE Throw(r)
  BY <1>1, <1>3, ThrowStep DEF At
<1>4. CASE ~Throw(r)
  <2>1. id # None
    BY <1>2, <1>4
  <2>2. PICK k \in Ids : k = id
    BY <1>1, <2>1, LatestPending DEF IInv
  <2>3. IsRow(k) /\ otps[k].phone = Phone(r) /\ otps[k].status = "PENDING"
    BY <1>1, <2>1, <2>2, LatestPending DEF IInv
  <2> QED
    BY <1>1, <1>2, <1>4, <2>2, <2>3, FindStep
<1> QED
  BY <1>3, <1>4

\* A row that was found is closed or not, and the verification ends: what is
\* left is about this code.
LEMMA UpdateStep ==
  ASSUME IInv, NEW r \in Reqs, req[r].pc \in AfterFind \ {"drop"},
         NEW id \in Ids, id = req[r].seen.id, IsRow(id),
         NEW new \in Otp, RowOK(new), Write(id, new), Done(r),
         new.phone = otps[id].phone, new.level = otps[id].level,
         new.count = otps[id].count, new.blocked = otps[id].blocked,
         UNCHANGED <<purpose, sent, crowded, left>>, HistoryOK',
         \A other \in Ids \ {id} :
           wrong'[other] = wrong[other] /\ uses'[other] = uses[other],
         /\ TInv' /\ otps'[id] = new /\ req'[r] = Idle
         /\ \A q \in Reqs \ {r} : req'[q] = req[q]
         => UsesOK(id)' /\ GuessOK(id)'
  PROVE  IInv'
<1>1. /\ req \in [Reqs -> ReqRow] /\ req' = [req EXCEPT ![r] = Idle]
  BY DEF Done, IInv, TInv
<1>2. /\ req' \in [Reqs -> ReqRow] /\ req'[r] = Idle
      /\ \A q \in Reqs \ {r} : req'[q] = req[q]
  BY <1>1, IdleType
<1>3. /\ Idle.pc \notin AfterFind /\ Idle.pc # "create" /\ StageOK(Idle)
      /\ Idle.pc \notin Sending
  BY IdleType
<1>4. \A q \in Reqs : \/ req'[q] = req[q]
                      \/ req'[q].pc \notin AfterFind /\ StageOK(req'[q])
  BY <1>2, <1>3
<1>5. ASSUME TInv'
      PROVE  /\ UsesOK(id)' /\ GuessOK(id)'
             /\ \A p \in Phones : LimitOK(p)'
  <2>1. /\ otps'[id] = new
        /\ \A other \in Ids \ {id} : otps'[other] = otps[other]
        /\ \A p : OfPhone(p)' = OfPhone(p)
    BY <1>2, <1>4, PutTypes DEF IInv
  <2>2. \A q \in Reqs :
          \/ req'[q] = req[q]
          \/ /\ req[q].pc # "create" /\ req'[q].pc # "create"
             /\ req'[q].pc \notin Sending
    BY <1>2, <1>3 DEF AfterFind
  <2>3. \A p \in Phones : LimitOK(p)'
    BY <1>5, <2>1, <2>2, LimitOnPut DEF IInv
  <2> QED
    BY <1>2, <1>5, <2>1, <2>3
<1>6. \A q \in Reqs :
        \/ req'[q] = req[q]
        \/ /\ req'[q].pc \notin AfterFind \cup {"create"} /\ StageOK(req'[q])
           /\ req[q].pc # "drop"
           /\ req[q].pc \in AfterFind => req[q].seen.id = id
  BY <1>2, <1>3
<1> QED
  BY <1>2, <1>5, <1>6, PutStep

LEMMA ExpireOtpStep ==
  ASSUME IInv, NEW r \in Reqs, ExpireOtp(r)
  PROVE  IInv'
<1>1. /\ At(r, "expire") /\ req[r].pc \in AfterFind \ {"drop"}
      /\ req[r].pc # "create"
  BY DEF ExpireOtp, At, AfterFind
<1>2. PICK id \in Ids : id = req[r].seen.id
  BY <1>1, FoundOf DEF IInv
<1>3. CASE Gone(r)
  BY <1>1, <1>3, GoneStep DEF At
<1>4. CASE /\ Update(r, [otps[req[r].seen.id] EXCEPT !.status = "EXPIRED"])
           /\ UNCHANGED <<purpose, history>>
  <2> DEFINE new == [otps[id] EXCEPT !.status = "EXPIRED"]
  <2>1. /\ IsRow(id) /\ Write(id, new) /\ Done(r)
        /\ UNCHANGED <<purpose, sent, crowded, wrong, uses, left>>
    BY <1>2, <1>4 DEF Update, history
  <2>2. otps[id] \in Otp /\ RowOK(otps[id])
    BY <2>1, TypesOf DEF IInv
  <2>3. /\ new \in Otp /\ new.phone = otps[id].phone
        /\ new.level = otps[id].level /\ new.count = otps[id].count
        /\ new.blocked = otps[id].blocked /\ new.status = "EXPIRED"
    BY <2>2 DEF Otp
  <2> HIDE DEF new
  <2>4. RowOK(new)
    BY <2>2, <2>3 DEF RowOK, Most
  <2>5. HistoryOK'
    BY <2>1 DEF IInv, TInv, HistoryOK
  <2>6. ASSUME /\ TInv' /\ otps'[id] = new /\ req'[r] = Idle
               /\ \A q \in Reqs \ {r} : req'[q] = req[q]
        PROVE  UsesOK(id)' /\ GuessOK(id)'
    <3>1. Idle.pc \notin AfterFind
      BY IdleType
    <3>2. \A q \in Reqs : \/ req'[q] = req[q]
                          \/ req'[q].pc \notin AfterFind /\ req[q].pc # "drop"
      BY <1>1, <2>6, <3>1
    <3> QED
      BY <2>1, <2>3, <2>6, <3>2, PutCode DEF IInv
  <2> QED
    BY <1>1, <1>2, <2>1, <2>3, <2>4, <2>5, <2>6, UpdateStep
<1> QED
  BY <1>3, <1>4 DEF ExpireOtp

\* An answer that is counted: the request stands for it no more, and what the
\* attempt that is written back leaves the others is what it stood for.
LEMMA GuessCounted ==
  ASSUME TInv, TInv', NEW id \in Ids, GuessOK(id), IsRow(id), IsRow(id)',
         NEW r \in Reqs, Holds(r, "wrong", id), req'[r] = Idle,
         \A q \in Reqs \ {r} : req'[q] = req[q],
         wrong'[id] = wrong[id] + 1,
         otps'[id].attempts = req[r].seen.attempts + 1,
         Pending(id)' <=>
           Pending(id) /\ req[r].seen.attempts + 1 < MaxAttempts
  PROVE  GuessOK(id)'
<1> DEFINE f == [q \in Reqs |-> Stake(q, id)]
           g == [q \in Reqs |-> Stake(q, id)']
           Others == Reqs \ {r}
           a == req[r].seen.attempts
           v == otps[id].attempts
           b == N * Answers[MaxAttempts]
<1>1. /\ a \in 0..MaxAttempts /\ a < MaxAttempts
      /\ Pending(id) => v \in 0..MaxAttempts
      /\ \A q \in Reqs : Holds(q, "wrong", id) =>
           /\ req[q].seen.attempts \in 0..MaxAttempts
           /\ req[q].seen.attempts < MaxAttempts
  BY AttemptsOf
<1>2. N >= 1 /\ N \in Nat /\ MaxAttempts \in Nat
  BY SomeRequest, Bounds
<1>3. \A q \in Others : Holds(q, "wrong", id)' <=> Holds(q, "wrong", id)
  BY DEF Holds, At
<1>4. ~Holds(r, "wrong", id)'
  BY IdleType DEF Holds, At
<1>5. \A q \in Reqs :
        f[q] = StakeOf(Pending(id), Holds(q, "wrong", id),
                       req[q].seen.attempts, v)
  BY DEF Stake
<1>6. \A q \in Reqs :
        g[q] = StakeOf(Pending(id)', Holds(q, "wrong", id)',
                       req'[q].seen.attempts, a + 1)
  BY DEF Stake
<1>7. Stakes(id) = SumFunctionOnSet(f, Reqs)
      /\ Stakes(id)' = SumFunctionOnSet(g, Reqs)
  BY DEF Stakes
<1>8. /\ wrong[id] \in Nat /\ b \in Nat /\ wrong[id] <= b
      /\ wrong[id] + Stakes(id) <= b
  BY TypesOf, GuessBound DEF GuessOK
<1> HIDE DEF f, g, a, v, b
<1>9. \A q \in Reqs : f[q] \in Nat
  BY <1>1, <1>5, StakeNat
<1>10. \A q \in Reqs : g[q] \in Nat
  <2>1. Pending(id)' => a + 1 \in 0..MaxAttempts
    BY <1>1, <1>2 DEF a
  <2>2. \A q \in Reqs : Holds(q, "wrong", id)' =>
          req'[q].seen.attempts \in 0..MaxAttempts
    BY <1>1, <1>3, <1>4
  <2> QED
    BY <1>6, <2>1, <2>2, StakeNat
<1>11. /\ SumFunctionOnSet(f, Reqs) = f[r] + SumFunctionOnSet(f, Others)
       /\ SumFunctionOnSet(g, Reqs) = g[r] + SumFunctionOnSet(g, Others)
       /\ SumFunctionOnSet(f, Others) \in Int
       /\ SumFunctionOnSet(g, Others) \in Int
  <2>1. \A q \in Reqs : f[q] \in Int /\ g[q] \in Int
    BY <1>9, <1>10
  <2> QED
    BY <2>1, Bounds, SumOfOneMore
<1>12. IsFiniteSet(Others) /\ Cardinality(Others) = N - 1
       /\ Cardinality(Others) \in Nat
  BY Bounds, FS_RemoveElement, FS_CardinalityType DEF N
<1>13. SumFunctionOnSet(g, Reqs) + 1 <= SumFunctionOnSet(f, Reqs)
  <2>1. CASE ~Pending(id)'
    <3>1. g[r] = 0
      BY <1>4, <1>6, <2>1 DEF StakeOf
    <3>2. f[r] >= 1
      <4>1. CASE Pending(id)
        <5> DEFINE x == IF a < v THEN a ELSE v
        <5>1. f[r] = Answers[MaxAttempts - x]
          BY <1>5, <4>1 DEF StakeOf, a
        <5>2. x \in 0..MaxAttempts /\ x < MaxAttempts
          BY <1>1, <1>2, <4>1
        <5> HIDE DEF x
        <5>3. MaxAttempts - x \in 1..MaxAttempts
          BY <1>2, <5>2
        <5> QED
          BY <5>1, <5>3, AnswersPositive
      <4>2. CASE ~Pending(id)
        BY <1>5, <4>2 DEF StakeOf
      <4> QED
        BY <4>1, <4>2
    <3>3. \A q \in Others : g[q] <= f[q] + 0
      <4> SUFFICES ASSUME NEW q \in Others PROVE g[q] <= f[q] + 0
        OBVIOUS
      <4>1. g[q] <= f[q]
        <5> DEFINE h1 == Holds(q, "wrong", id)
                   h2 == Holds(q, "wrong", id)'
                   p1 == Pending(id)
                   p2 == Pending(id)'
                   a1 == req[q].seen.attempts
                   a2 == req'[q].seen.attempts
        <5>1. /\ f[q] = StakeOf(p1, h1, a1, v) /\ g[q] = StakeOf(p2, h2, a2, a + 1)
              /\ h1 => a1 \in 0..MaxAttempts /\ a1 < MaxAttempts
              /\ p1 => v \in 0..MaxAttempts
              /\ ~p2 /\ (h2 => h1 /\ a2 = a1)
          BY <1>1, <1>3, <1>5, <1>6, <2>1
        <5> HIDE DEF h1, h2, p1, p2, a1, a2
        <5> QED
          BY <1>2, <5>1, StakeLess
      <4> QED
        BY <1>9, <1>10, <4>1
    <3>4. SumFunctionOnSet(g, Others)
            <= SumFunctionOnSet(f, Others) + Cardinality(Others) * 0
      <4>1. \A q \in Others : /\ g[q] \in Int /\ f[q] \in Int
                              /\ g[q] <= f[q] + 0
        BY <1>9, <1>10, <3>3
      <4> QED
        BY <1>12, <4>1, SumWithin
    <3>5. Cardinality(Others) * 0 = 0
      BY <1>12
    <3>6. f[r] \in Nat
      BY <1>9
    <3> HIDE DEF Others
    <3> QED
      BY <1>11, <3>1, <3>2, <3>4, <3>5, <3>6
  <2>2. CASE Pending(id)'
    <3> DEFINE c == Answers[MaxAttempts - (a + 1)]
    <3>1. Pending(id) /\ a + 1 < MaxAttempts /\ v \in 0..MaxAttempts
      BY <1>1, <2>2 DEF a
    <3>2. c \in Nat
      BY <1>1, <1>2, <3>1, StakeBumped
    <3>3. g[r] = c
      BY <1>4, <1>6, <2>2 DEF StakeOf
    <3>4. f[r] >= N * c + 1
      <4> DEFINE x == IF a < v THEN a ELSE v
                 n == MaxAttempts - a
                 m == MaxAttempts - x
      <4>1. f[r] = Answers[m]
        BY <1>5, <3>1 DEF StakeOf, a
      <4>2. x \in 0..MaxAttempts /\ x <= a
        BY <1>1, <3>1
      <4> HIDE DEF x
      <4>3. /\ n \in 1..MaxAttempts /\ n - 1 = MaxAttempts - (a + 1)
            /\ m \in 0..MaxAttempts /\ n \in 0..m
        BY <1>1, <1>2, <3>1, <4>2
      <4> HIDE DEF n, m
      <4>4. Answers[n] = N * c + 1
        BY <4>3, AnswersFacts
      <4>5. Answers[n] <= Answers[m]
        BY <1>2, <4>3, AnswersGrow
      <4> QED
        BY <4>1, <4>4, <4>5
    <3>5. \A q \in Others : g[q] <= f[q] + c
      <4> SUFFICES ASSUME NEW q \in Others PROVE g[q] <= f[q] + c
        OBVIOUS
      <4> DEFINE h == Holds(q, "wrong", id)
                 a1 == req[q].seen.attempts
      <4>1. /\ f[q] = StakeOf(TRUE, h, a1, v)
            /\ g[q] = StakeOf(TRUE, h, a1, a + 1)
        <5>1. /\ f[q] = StakeOf(Pending(id), h, a1, v)
              /\ g[q] = StakeOf(Pending(id)', Holds(q, "wrong", id)', a1, a + 1)
          BY <1>5, <1>6
        <5>2. Pending(id)' = TRUE \/ Pending(id)' # TRUE
          OBVIOUS
        <5> QED
          BY <1>3, <2>2, <3>1, <5>1 DEF StakeOf
      <4>2. h => a1 \in 0..MaxAttempts
        BY <1>1
      <4> HIDE DEF h, a1, c
      <4> QED
        BY <1>1, <1>2, <3>1, <4>1, <4>2, StakeBumped DEF c
    <3> HIDE DEF c
    <3>6. SumFunctionOnSet(g, Others)
            <= SumFunctionOnSet(f, Others) + Cardinality(Others) * c
      <4>1. \A q \in Others : /\ g[q] \in Int /\ f[q] \in Int
                              /\ g[q] <= f[q] + c
        BY <1>9, <1>10, <3>5
      <4> QED
        BY <1>12, <3>2, <4>1, SumWithin
    <3>7. Cardinality(Others) * c = N * c - c /\ N * c \in Nat
      <4>1. (N - 1) * c = N * c - c /\ N * c \in Nat
        BY <1>2, <3>2
      <4> QED
        BY <1>12, <4>1
    <3>8. f[r] \in Nat
      BY <1>9
    <3> HIDE DEF Others
    <3> DEFINE nc == N * c
    <3>9. nc \in Nat /\ f[r] >= nc + 1
          /\ SumFunctionOnSet(g, Others)
               <= SumFunctionOnSet(f, Others) + (nc - c)
      BY <3>4, <3>6, <3>7
    <3> HIDE DEF nc
    <3> QED
      BY <1>11, <3>2, <3>3, <3>8, <3>9
  <2> QED
    BY <2>1, <2>2
<1>14. wrong'[id] + Stakes(id)' <= b /\ wrong'[id] <= b
  <2>1. SumFunctionOnSet(g, Reqs) \in Nat /\ SumFunctionOnSet(f, Reqs) \in Nat
    BY <1>9, <1>10, Bounds, SumOfNaturals
  <2> QED
    BY <1>7, <1>8, <1>13, <2>1
<1> QED
  BY <1>14 DEF GuessOK, N, b

LEMMA CountAttemptStep ==
  ASSUME IInv, NEW r \in Reqs, CountAttempt(r)
  PROVE  IInv'
<1>1. /\ At(r, "wrong") /\ req[r].pc \in AfterFind \ {"drop"}
  BY DEF CountAttempt, At, AfterFind
<1>2. PICK id \in Ids : id = req[r].seen.id
  BY <1>1, FoundOf DEF IInv
<1> DEFINE a == req[r].seen.attempts
<1>3. a \in 0..MaxAttempts /\ a < MaxAttempts
  BY <1>1, FoundOf, StageOf DEF IInv
<1>4. CASE Gone(r)
  BY <1>1, <1>4, GoneStep DEF At
<1>5. CASE /\ Update(r, Tried(otps[req[r].seen.id], req[r].seen.attempts + 1))
           /\ wrong' = [wrong EXCEPT ![req[r].seen.id] = @ + 1]
           /\ UNCHANGED <<purpose, sent, crowded, uses, left>>
  <2> DEFINE new == Tried(otps[id], a + 1)
  <2>1. /\ IsRow(id) /\ Write(id, new) /\ Done(r)
        /\ wrong' = [wrong EXCEPT ![id] = wrong[id] + 1]
        /\ UNCHANGED <<purpose, sent, crowded, uses, left>>
    BY <1>2, <1>5 DEF Update
  <2>2. otps[id] \in Otp /\ RowOK(otps[id])
    BY <2>1, TypesOf DEF IInv
  <2>3. a + 1 \in 0..MaxAttempts
    BY <1>3, Bounds
  <2> HIDE DEF a
  <2>4. /\ new \in Otp /\ new.phone = otps[id].phone
        /\ new.level = otps[id].level /\ new.count = otps[id].count
        /\ new.blocked = otps[id].blocked /\ new.attempts = a + 1
        /\ new.status = IF a + 1 >= MaxAttempts THEN "EXPIRED"
                        ELSE otps[id].status
    BY <2>2, <2>3 DEF Otp, Tried
  <2> HIDE DEF new
  <2>5. RowOK(new)
    BY <1>3, <2>2, <2>3, <2>4, Bounds DEF RowOK, Most
  <2>6. wrong \in [Ids -> Nat] /\ wrong' \in [Ids -> Nat]
        /\ wrong'[id] = wrong[id] + 1
        /\ \A other \in Ids \ {id} : wrong'[other] = wrong[other]
    BY <2>1, TypesOf DEF IInv
  <2>7. HistoryOK'
    BY <2>1, <2>6 DEF IInv, TInv, HistoryOK
  <2>8. ASSUME /\ TInv' /\ otps'[id] = new /\ req'[r] = Idle
               /\ \A q \in Reqs \ {r} : req'[q] = req[q]
        PROVE  UsesOK(id)' /\ GuessOK(id)'
    <3>1. IsRow(id)' /\ (Pending(id)' <=> new.status = "PENDING")
      BY <2>4, <2>8, NullApart DEF IsRow, Pending
    <3>2. Pending(id)' <=> Pending(id) /\ a + 1 < MaxAttempts
      BY <2>1, <2>3, <2>4, <3>1, Bounds DEF Pending
    <3>3. UsesOK(id)'
      <4>1. \A q \in Reqs : \A pc \in {"drop", "mark", "accept"} :
              Holds(q, pc, id)' <=> Holds(q, pc, id)
        BY <1>1, <2>8, IdleType DEF Holds, At
      <4>2. Dropping(id)' = Dropping(id) /\ Using(id)' = Using(id)
        BY <4>1 DEF Dropping, Using
      <4> QED
        BY <2>1, <2>8, <3>2, <4>2, UsesKept DEF IInv
    <3>4. Holds(r, "wrong", id)
      BY <1>1, <1>2 DEF Holds
    <3>5. GuessOK(id)'
      BY <2>1, <2>4, <2>6, <2>8, <3>1, <3>2, <3>4, GuessCounted DEF IInv, a
    <3> QED
      BY <3>3, <3>5
  <2>9. UNCHANGED uses
    BY <2>1
  <2> QED
    BY <1>1, <1>2, <2>1, <2>4, <2>5, <2>6, <2>7, <2>8, <2>9, UpdateStep
<1> QED
  BY <1>4, <1>5 DEF CountAttempt

\* A verification uses the code: the account is verified, or a token is given.
LEMMA CodeUsed ==
  ASSUME TInv, TInv', NEW id \in Ids, UsesOK(id), NEW r \in Reqs,
         Holds(r, "mark", id) \/ Holds(r, "accept", id),
         \A q \in Reqs \ {r} : req'[q] = req[q],
         ~Holds(r, "mark", id)', ~Holds(r, "accept", id)',
         left' = left,
         uses' = IF id \in left THEN uses ELSE [uses EXCEPT ![id] = uses[id] + 1],
         Pending(id)' => Pending(id) /\ Holds(r, "drop", id)'
  PROVE  UsesOK(id)'
<1> SUFFICES ASSUME id \notin left PROVE UsesOK(id)'
  BY DEF UsesOK
<1>1. uses \in [Ids -> Nat] /\ uses'[id] = uses[id] + 1 /\ uses[id] \in Nat
      /\ N \in Nat
  BY TypesOf, Bounds
<1>2. ~Holds(r, "drop", id)
  BY DEF Holds, At
<1>3. \A q \in Reqs \ {r} : \A pc : Holds(q, pc, id)' <=> Holds(q, pc, id)
  BY DEF Holds, At
<1>4. /\ Cardinality(Dropping(id)) \in Nat /\ Cardinality(Using(id)) \in Nat
      /\ IsFiniteSet(Dropping(id)) /\ IsFiniteSet(Using(id))
  BY Finite, FS_CardinalityType
<1>5. CASE Pending(id)'
  <2>1. uses[id] = Cardinality(Dropping(id))
    BY <1>5 DEF UsesOK
  <2>2. Dropping(id)' = Dropping(id) \cup {r} /\ r \notin Dropping(id)
    BY <1>2, <1>3, <1>5 DEF Dropping
  <2>3. Cardinality(Dropping(id)') = Cardinality(Dropping(id)) + 1
    BY <1>4, <2>2, FS_AddElement
  <2> QED
    BY <1>1, <1>5, <2>1, <2>3 DEF UsesOK
<1>6. CASE ~Pending(id)'
  <2>1. Using(id)' = Using(id) \ {r} /\ r \in Using(id)
    BY <1>3 DEF Using
  <2>2. Cardinality(Using(id)') = Cardinality(Using(id)) - 1
    BY <1>4, <2>1, FS_RemoveElement
  <2>3. uses[id] + Cardinality(Using(id)) <= N
    BY UsesBelow
  <2>4. uses'[id] + Cardinality(Using(id)') <= N
    BY <1>1, <1>4, <2>2, <2>3
  <2> QED
    BY <1>6, <2>4 DEF UsesOK, N
<1> QED
  BY <1>5, <1>6

LEMMA AcceptOtpStep ==
  ASSUME IInv, NEW r \in Reqs, AcceptOtp(r)
  PROVE  IInv'
<1>1. /\ At(r, "accept") /\ req[r].pc \in AfterFind \ {"drop"}
  BY DEF AcceptOtp, At, AfterFind
<1>2. PICK id \in Ids : id = req[r].seen.id
  BY <1>1, FoundOf DEF IInv
<1>3. CASE Gone(r)
  BY <1>1, <1>3, GoneStep DEF At
<1>4. CASE /\ Update(r, [otps[req[r].seen.id] EXCEPT !.status = "VERIFIED"])
           /\ Used(req[r].seen.id)
           /\ UNCHANGED <<purpose, sent, crowded, wrong, left>>
  <2> DEFINE new == [otps[id] EXCEPT !.status = "VERIFIED"]
  <2>1. /\ IsRow(id) /\ Write(id, new) /\ Done(r)
        /\ UNCHANGED <<purpose, sent, crowded, wrong, left>>
        /\ uses' = IF id \in left THEN uses ELSE [uses EXCEPT ![id] = uses[id] + 1]
    BY <1>2, <1>4 DEF Update, Used
  <2>2. otps[id] \in Otp /\ RowOK(otps[id])
    BY <2>1, TypesOf DEF IInv
  <2>3. /\ new \in Otp /\ new.phone = otps[id].phone
        /\ new.level = otps[id].level /\ new.count = otps[id].count
        /\ new.blocked = otps[id].blocked /\ new.status = "VERIFIED"
    BY <2>2 DEF Otp
  <2> HIDE DEF new
  <2>4. RowOK(new)
    BY <2>2, <2>3 DEF RowOK, Most
  <2>5. uses \in [Ids -> Nat] /\ uses' \in [Ids -> Nat]
        /\ \A other \in Ids \ {id} : uses'[other] = uses[other]
    BY <2>1, TypesOf DEF IInv
  <2>6. HistoryOK'
    BY <2>1, <2>5 DEF IInv, TInv, HistoryOK
  <2>7. ASSUME /\ TInv' /\ otps'[id] = new /\ req'[r] = Idle
               /\ \A q \in Reqs \ {r} : req'[q] = req[q]
        PROVE  UsesOK(id)' /\ GuessOK(id)'
    <3>1. ~Pending(id)'
      BY <2>3, <2>7 DEF Pending
    <3>2. Holds(r, "accept", id)
      BY <1>1, <1>2 DEF Holds
    <3>3. ~Holds(r, "mark", id)' /\ ~Holds(r, "accept", id)'
          /\ ~Holds(r, "wrong", id)'
      BY <2>7, IdleType DEF Holds, At
    <3>4. left' = left
      BY <2>1
    <3>5. UsesOK(id)'
      BY <2>1, <2>7, <3>1, <3>2, <3>3, <3>4, CodeUsed DEF IInv
    <3>6. \A q \in Reqs : Holds(q, "wrong", id)' =>
            /\ Holds(q, "wrong", id)
            /\ req'[q].seen.attempts = req[q].seen.attempts
      BY <2>7, <3>3 DEF Holds, At
    <3>7. GuessOK(id)'
      BY <2>1, <2>7, <3>1, <3>6, GuessKept DEF IInv
    <3> QED
      BY <3>5, <3>7
  <2>8. UNCHANGED wrong
    BY <2>1
  <2> QED
    BY <1>1, <1>2, <2>1, <2>3, <2>4, <2>5, <2>6, <2>7, <2>8, UpdateStep
<1> QED
  BY <1>3, <1>4 DEF AcceptOtp

LEMMA MarkUserStep ==
  ASSUME IInv, NEW r \in Reqs, MarkUser(r)
  PROVE  IInv'
<1>1. /\ At(r, "mark") /\ req[r] \in ReqRow /\ req[r].phone \in Phones
      /\ req[r].seen \in Found /\ req[r].updates = <<>> /\ RefOK(req[r])
      /\ req \in [Reqs -> ReqRow]
  BY StageOf, IdleType DEF MarkUser, At, AfterFind, IInv
<1>2. PICK id \in Ids : id = req[r].seen.id
  BY <1>1 DEF Found
<1>3. CASE Throw(r)
  BY <1>1, <1>3, ThrowStep DEF At
<1>4. CASE /\ Goto(r, "drop") /\ Used(req[r].seen.id)
           /\ UNCHANGED <<purpose, otps, sent, crowded, wrong, left>>
  <2> DEFINE row == [req[r] EXCEPT !.pc = "drop"]
  <2>1. /\ row \in ReqRow /\ row.pc = "drop" /\ row.phone = req[r].phone
        /\ row.seen = req[r].seen /\ row.updates = <<>>
    BY <1>1 DEF ReqRow
  <2>2. req' = [req EXCEPT ![r] = row]
    BY <1>1, <1>4 DEF Goto
  <2> HIDE DEF row
  <2>3. StageOK(row) /\ RefOK(row)
    BY <1>1, <2>1 DEF StageOK, RefOK, AfterFind, At
  <2>4. /\ UNCHANGED <<purpose, otps, sent, crowded, wrong, left>>
        /\ uses' = IF id \in left THEN uses ELSE [uses EXCEPT ![id] = uses[id] + 1]
    BY <1>2, <1>4 DEF Used
  <2>5. uses \in [Ids -> Nat] /\ uses' \in [Ids -> Nat]
        /\ \A other \in Ids \ {id} : uses'[other] = uses[other]
    BY <2>4, TypesOf DEF IInv
  <2>6. HistoryOK'
    BY <2>4, <2>5 DEF IInv, TInv, HistoryOK
  <2>7. /\ TInv' /\ req'[r] = row
        /\ \A q \in Reqs \ {r} : req'[q] = req[q]
    BY <2>1, <2>2, <2>3, <2>4, <2>6, MoveTypes DEF IInv
  <2>8. row.pc \notin Sending /\ row.pc # "create" /\ ~At(r, "create")
    BY <1>1, <2>1 DEF Sending, At
  <2>9. \A p \in Phones : LimitOK(p)'
    BY <2>4, <2>7, <2>8, LimitOnLeave DEF IInv
  <2>10. ASSUME NEW p \in Phones PROVE CodesOK(p)'
    <3>1. OfPhone(p)' \subseteq OfPhone(p) /\ Creators(p)' \subseteq Creators(p)
      BY <2>4, <2>7, <2>8, SameRows DEF Creators, At, Phone
    <3> QED
      BY <3>1, CodesKept DEF IInv
  <2>11. ASSUME NEW other \in Ids PROVE UsesOK(other)' /\ GuessOK(other)'
    <3>1. /\ \A q \in Reqs \ {r} : \A pc : Holds(q, pc, other)' <=> Holds(q, pc, other)
          /\ ~Holds(r, "mark", other)' /\ ~Holds(r, "accept", other)'
          /\ ~Holds(r, "wrong", other)' /\ ~Holds(r, "drop", other)
          /\ Holds(r, "drop", other)' <=> other = id
      BY <1>1, <1>2, <2>1, <2>7 DEF Holds, At
    <3>2. (IsRow(other)' <=> IsRow(other)) /\ (Pending(other)' <=> Pending(other))
      BY <2>4, SameRows
    <3>3. UsesOK(other)'
      <4>1. CASE other = id
        <5>1. Holds(r, "mark", id) /\ UsesOK(id)
          BY <1>1, <1>2 DEF Holds, IInv
        <5>2. left' = left
          BY <2>4
        <5>3. UsesOK(id)'
          BY <2>4, <2>7, <3>1, <3>2, <4>1, <5>1, <5>2, CodeUsed DEF IInv
        <5> QED
          BY <4>1, <5>3
      <4>2. CASE other # id
        <5>1. Dropping(other)' = Dropping(other)
              /\ Using(other)' \subseteq Using(other)
          BY <3>1, <4>2 DEF Dropping, Using
        <5> QED
          BY <2>4, <2>5, <2>7, <3>2, <4>2, <5>1, UsesKept DEF IInv
      <4> QED
        BY <4>1, <4>2
    <3>4. \A q \in Reqs : Holds(q, "wrong", other)' =>
            /\ Holds(q, "wrong", other)
            /\ req'[q].seen.attempts = req[q].seen.attempts
      BY <2>7, <3>1
    <3>5. GuessOK(other)'
      BY <2>4, <2>7, <3>2, <3>4, GuessKept DEF IInv
    <3> QED
      BY <3>3, <3>5
  <2> QED
    BY <2>7, <2>9, <2>10, <2>11 DEF IInv
<1> QED
  BY <1>3, <1>4 DEF MarkUser

\* Codes of a phone are deleted, and what was sent to it counts no more.
LEMMA ForgetStep ==
  ASSUME IInv, NEW ids, Delete(ids), UNCHANGED <<purpose, crowded, wrong, uses, left>>,
         NEW p \in Phones, Sent(p, 0), ids \cap Ids \subseteq OfPhone(p),
         req' \in [Reqs -> ReqRow],
         \A q \in Reqs :
           \/ req'[q] = req[q]
           \/ /\ req'[q] = Idle /\ req[q].pc = "drop" /\ req[q].seen.id \in ids
  PROVE  IInv'
<1>1. /\ sent \in [Phones -> Nat] /\ sent' \in [Phones -> Nat]
      /\ p \notin crowded => sent'[p] = 0
      /\ \A x \in Phones \ {p} : sent'[x] = sent[x]
  BY TypesOf DEF IInv, Sent
<1>2. HistoryOK'
  BY <1>1 DEF IInv, TInv, HistoryOK
<1>3. \A q \in Reqs :
        \/ req'[q] = req[q]
        \/ /\ req'[q].pc \notin AfterFind /\ StageOK(req'[q])
           /\ req[q].pc = "drop" => req[q].seen.id \in ids
  BY IdleType
<1>4. /\ \A id \in Ids : IsRow(id)' =>
           /\ otps'[id].level = otps[id].level
           /\ otps'[id].count = otps[id].count
           /\ otps'[id].blocked = otps[id].blocked
      /\ \A x : OfPhone(x)' = OfPhone(x) \ ids
  BY <1>2, <1>3, DeleteTypes DEF IInv
<1>5. ASSUME TInv', NEW x \in Phones PROVE LimitOK(x)' /\ CodesOK(x)'
  <2>1. LimitOK(x) /\ CodesOK(x)
    BY DEF IInv
  <2>2. Creators(x)' = Creators(x)
    BY IdleType DEF Creators, At, Phone
  <2>3. \A q \in Senders(x)' : q \in Senders(x) /\ req'[q] = req[q]
    BY IdleType DEF Senders, Phone
  <2>4. OfPhone(x)' \subseteq OfPhone(x)
    BY <1>4
  <2>5. CodesOK(x)'
    BY <2>1, <2>2, <2>4, CodesKept
  <2>6. x # p => OfPhone(x)' = OfPhone(x)
    BY <1>4 DEF OfPhone
  <2>7. x \notin crowded' => \A q1, q2 \in Senders(x)' : q1 = q2
    BY <2>1, <2>3 DEF LimitOK
  <2>8. x \notin crowded' =>
          (OfPhone(x)' = {} /\ Creators(x)' = {} => sent'[x] = 0)
    BY <1>1, <2>1, <2>2, <2>6 DEF LimitOK
  <2>9. \A id \in OfPhone(x)' :
          /\ id \in OfPhone(x)
          /\ otps'[id].level = otps[id].level
          /\ otps'[id].count = otps[id].count
          /\ otps'[id].blocked = otps[id].blocked
    BY <1>4 DEF OfPhone
  <2>10. x \notin crowded' => sent'[x] = sent[x] \/ sent'[x] = 0
    BY <1>1
  <2>11. LimitOK(x)'
    BY <1>5, <2>1, <2>3, <2>7, <2>8, <2>9, <2>10, LimitKept DEF IInv
  <2> QED
    BY <2>5, <2>11
<1>6. UNCHANGED <<purpose, wrong, uses, left>>
  OBVIOUS
<1> QED
  BY <1>2, <1>3, <1>5, <1>6, DeleteStep

LEMMA DropOtpStep ==
  ASSUME IInv, NEW r \in Reqs, DropOtp(r)
  PROVE  IInv'
<1>1. /\ At(r, "drop") /\ req[r].pc \in AfterFind /\ req \in [Reqs -> ReqRow]
      /\ req[r].phone \in Phones
  BY StageOf, IdleType DEF DropOtp, At, AfterFind, IInv
<1>2. PICK id \in Ids : id = req[r].seen.id
  BY <1>1, FoundOf DEF IInv
<1>3. CASE Gone(r)
  BY <1>3, <1>1, ThrowStep DEF Gone, At
<1>4. CASE /\ IsRow(req[r].seen.id) /\ Delete({req[r].seen.id})
           /\ Sent(Phone(r), 0) /\ Done(r)
           /\ UNCHANGED <<purpose, crowded, wrong, uses, left>>
  <2>1. PICK p \in Phones : p = req[r].phone
    BY <1>1
  <2>2. Delete({id}) /\ Sent(p, 0) /\ IsRow(id)
    BY <1>2, <1>4, <2>1 DEF Phone
  <2>3. otps[id].phone = p
    BY <1>1, <1>2, <2>1, <2>2, FoundOf DEF IInv
  <2>4. {id} \cap Ids \subseteq OfPhone(p)
    BY <2>2, <2>3 DEF OfPhone
  <2>5. /\ req' \in [Reqs -> ReqRow] /\ req'[r] = Idle
        /\ \A q \in Reqs \ {r} : req'[q] = req[q]
    BY <1>1, <1>4, IdleType DEF Done
  <2>6. \A q \in Reqs :
          \/ req'[q] = req[q]
          \/ /\ req'[q] = Idle /\ req[q].pc = "drop" /\ req[q].seen.id \in {id}
    BY <1>1, <1>2, <2>5 DEF At
  <2> QED
    BY <1>4, <2>2, <2>4, <2>5, <2>6, ForgetStep
<1> QED
  BY <1>3, <1>4 DEF DropOtp

-----------------------------------------------------------------------------
(* What else happens to the rows. *)

LEMMA UseTokenStep ==
  ASSUME IInv, NEW p \in Phones, UseToken(p)
  PROVE  IInv'
<1>1. PICK ids : ids = {id \in OfPhone(p) : otps[id].status = "VERIFIED"}
  OBVIOUS
<1>2. /\ Delete(ids) /\ Sent(p, 0)
      /\ UNCHANGED <<purpose, req, crowded, wrong, uses, left>>
  BY <1>1 DEF UseToken
<1>3. ids \cap Ids \subseteq OfPhone(p)
  BY <1>1
<1>4. req' \in [Reqs -> ReqRow] /\ \A q \in Reqs : req'[q] = req[q]
  BY <1>2 DEF IInv, TInv
<1> QED
  BY <1>2, <1>3, <1>4, ForgetStep

\* A row is updated in what says nothing about the code, between requests.
LEMMA TimeStep ==
  ASSUME IInv, NEW id \in Ids, IsRow(id), NEW new \in Otp, Write(id, new),
         new.phone = otps[id].phone, new.status = otps[id].status,
         new.attempts = otps[id].attempts, new.level = otps[id].level,
         new.count = otps[id].count,
         UNCHANGED <<purpose, req, crowded, wrong, uses, left>>, HistoryOK',
         \A x \in Phones : x \notin crowded =>
           \/ sent'[x] = 0
           \/ sent'[x] = sent[x]
              /\ (x = otps[id].phone => new.blocked = otps[id].blocked)
  PROVE  IInv'
<1>1. RowOK(new)
  <2>1. RowOK(otps[id])
    BY TypesOf DEF IInv
  <2> QED
    BY <2>1 DEF RowOK, Most
<1>2. req' \in [Reqs -> ReqRow] /\ \A q \in Reqs : req'[q] = req[q]
  BY DEF IInv, TInv
<1>3. /\ \A other \in Ids \ {id} : otps'[other] = otps[other]
      /\ \A p : OfPhone(p)' = OfPhone(p)
      /\ otps'[id] = new
  BY <1>1, <1>2, PutTypes DEF IInv
<1>4. ASSUME TInv' PROVE UsesOK(id)' /\ GuessOK(id)'
  <2>1. UsesOK(id) /\ GuessOK(id) /\ TInv
    BY DEF IInv
  <2> QED
    BY <1>2, <1>3, <1>4, <2>1, PutCode
<1>5. ASSUME TInv', NEW x \in Phones PROVE LimitOK(x)'
  <2>1. LimitOK(x) /\ TInv
    BY DEF IInv
  <2>2. x \notin crowded => sent'[x] = sent[x] \/ sent'[x] = 0
    OBVIOUS
  <2>3. id \in OfPhone(x) => x = otps[id].phone
    BY DEF OfPhone
  <2>4. x \notin crowded /\ id \in OfPhone(x) =>
          \/ sent'[x] = 0 \/ otps'[id].blocked
          \/ /\ otps'[id].level = otps[id].level
             /\ otps'[id].count = otps[id].count
             /\ otps'[id].blocked = otps[id].blocked
    BY <1>3, <2>3
  <2> QED
    BY <1>2, <1>3, <1>5, <2>1, <2>2, <2>4, LimitOnPut
<1>6. UNCHANGED <<purpose, left>>
      /\ \A other \in Ids \ {id} :
           wrong'[other] = wrong[other] /\ uses'[other] = uses[other]
  OBVIOUS
<1> QED
  BY <1>1, <1>2, <1>4, <1>5, <1>6, PutStep

LEMMA ExpireStep ==
  ASSUME IInv, NEW id \in Ids, Expire(id)
  PROVE  IInv'
<1> DEFINE new == [otps[id] EXCEPT !.late = TRUE]
<1>1. /\ IsRow(id) /\ Write(id, new)
      /\ UNCHANGED <<purpose, req, sent, crowded, wrong, uses, left>>
  BY DEF Expire, history
<1>2. otps[id] \in Otp
  BY <1>1, TypesOf DEF IInv
<1>3. /\ new \in Otp /\ new.phone = otps[id].phone
      /\ new.status = otps[id].status /\ new.attempts = otps[id].attempts
      /\ new.level = otps[id].level /\ new.count = otps[id].count
      /\ new.blocked = otps[id].blocked
  BY <1>2 DEF Otp
<1> HIDE DEF new
<1>4. HistoryOK'
  BY <1>1 DEF IInv, TInv, HistoryOK
<1>5. UNCHANGED <<purpose, req, crowded, wrong, uses, left>>
      /\ \A x \in Phones : sent'[x] = sent[x]
  BY <1>1
<1> QED
  BY <1>1, <1>3, <1>4, <1>5, TimeStep

LEMMA UnblockStep ==
  ASSUME IInv, NEW id \in Ids, Unblock(id)
  PROVE  IInv'
<1> DEFINE new == [otps[id] EXCEPT !.blocked = FALSE]
<1>1. /\ IsRow(id) /\ Write(id, new) /\ Sent(otps[id].phone, 0)
      /\ UNCHANGED <<purpose, req, crowded, wrong, uses, left>>
  BY DEF Unblock
<1>2. otps[id] \in Otp /\ otps[id].phone \in Phones
      /\ sent \in [Phones -> Nat]
  BY <1>1, TypesOf DEF IInv, Otp
<1>3. /\ new \in Otp /\ new.phone = otps[id].phone
      /\ new.status = otps[id].status /\ new.attempts = otps[id].attempts
      /\ new.level = otps[id].level /\ new.count = otps[id].count
  BY <1>2 DEF Otp
<1> HIDE DEF new
<1>4. /\ sent' \in [Phones -> Nat]
      /\ \A x \in Phones : x \notin crowded =>
           sent'[x] = 0 \/ (sent'[x] = sent[x] /\ x # otps[id].phone)
  BY <1>1, <1>2 DEF Sent
<1>5. HistoryOK'
  BY <1>1, <1>4 DEF IInv, TInv, HistoryOK
<1> QED
  BY <1>1, <1>3, <1>4, <1>5, TimeStep

-----------------------------------------------------------------------------
(* The theorems. *)

LEMMA NextInvariant == IInv /\ [Next]_vars => IInv'
<1> SUFFICES ASSUME IInv, [Next]_vars PROVE IInv'
  OBVIOUS
<1>1. ASSUME NEW r \in Reqs, NEW source \in Sources[purpose], StartSend(r, source)
      PROVE  IInv'
  BY <1>1, StartSendStep
<1>2. ASSUME NEW r \in Reqs, NEW p \in Entering[purpose], StartVerify(r, p)
      PROVE  IInv'
  BY <1>2, StartVerifyStep
<1>3. ASSUME NEW r \in Reqs, Step(r)
      PROVE  IInv'
  <2>1. CASE ReadByPhone(r)
    BY <2>1, ReadByPhoneStep
  <2>2. CASE ReadByIp(r)
    BY <2>2, ReadByIpStep
  <2>3. CASE BlockRow(r)
    BY <2>3, BlockRowStep
  <2>4. CASE ClearPhone(r)
    BY <2>4, ClearPhoneStep
  <2>5. CASE CreateOtp(r)
    BY <2>5, CreateOtpStep
  <2>6. CASE FindOtp(r)
    BY <2>6, FindOtpStep
  <2>7. CASE ExpireOtp(r)
    BY <2>7, ExpireOtpStep
  <2>8. CASE CountAttempt(r)
    BY <2>8, CountAttemptStep
  <2>9. CASE MarkUser(r)
    BY <2>9, MarkUserStep
  <2>10. CASE DropOtp(r)
    BY <2>10, DropOtpStep
  <2>11. CASE AcceptOtp(r)
    BY <2>11, AcceptOtpStep
  <2> QED
    BY <1>3, <2>1, <2>2, <2>3, <2>4, <2>5, <2>6, <2>7, <2>8, <2>9, <2>10, <2>11
    DEF Step
<1>4. ASSUME NEW r \in Reqs, Die(r)
      PROVE  IInv'
  BY <1>4, DieStep
<1>5. ASSUME NEW p \in Phones, UseToken(p)
      PROVE  IInv'
  BY <1>5, UseTokenStep
<1>6. ASSUME NEW id \in Ids, Expire(id)
      PROVE  IInv'
  BY <1>6, ExpireStep
<1>7. ASSUME NEW id \in Ids, Unblock(id)
      PROVE  IInv'
  BY <1>7, UnblockStep
<1>8. CASE UNCHANGED vars
  <2>1. /\ UNCHANGED <<purpose, otps, req, sent, crowded, wrong, uses, left>>
    BY <1>8 DEF vars
  <2>2. /\ \A id : (IsRow(id)' <=> IsRow(id)) /\ (Pending(id)' <=> Pending(id))
        /\ \A p : OfPhone(p)' = OfPhone(p)
    BY <2>1, SameRows
  <2>3. TInv'
    <3>1. TInv
      BY DEF IInv
    <3>2. \A r \in Reqs : StageOK(req[r])' /\ RefOK(req[r])'
      BY <2>1, <2>2, <3>1 DEF TInv, StageOK, RefOK
    <3>3. \A id \in Ids : IsRow(id)' => RowOK(otps[id])'
      BY <2>1, <2>2, <3>1 DEF TInv, RowOK
    <3> QED
      BY <2>1, <3>1, <3>2, <3>3 DEF TInv, HistoryOK
  <2>4. ASSUME NEW p \in Phones PROVE LimitOK(p)' /\ CodesOK(p)'
    <3>1. LimitOK(p) /\ CodesOK(p)
      BY DEF IInv
    <3>2. Senders(p)' = Senders(p) /\ Creators(p)' = Creators(p)
      BY <2>1 DEF Senders, Creators, At, Phone
    <3>3. \A q \in Senders(p)' : q \in Senders(p) /\ req'[q] = req[q]
      BY <2>1, <3>2
    <3>4. p \notin crowded' => \A q1, q2 \in Senders(p)' : q1 = q2
      BY <2>1, <3>1, <3>2 DEF LimitOK
    <3>5. p \notin crowded' =>
            (OfPhone(p)' = {} /\ Creators(p)' = {} => sent'[p] = 0)
      BY <2>1, <2>2, <3>1, <3>2 DEF LimitOK
    <3>6. LimitOK(p)'
      BY <2>1, <2>2, <2>3, <3>1, <3>3, <3>4, <3>5, LimitKept DEF IInv
    <3>7. CodesOK(p)'
      BY <2>2, <3>1, <3>2, CodesKept
    <3> QED
      BY <3>6, <3>7
  <2>5. ASSUME NEW id \in Ids PROVE UsesOK(id)' /\ GuessOK(id)'
    <3>1. UsesOK(id) /\ GuessOK(id) /\ TInv
      BY DEF IInv
    <3>2. \A q \in Reqs : \A pc : Holds(q, pc, id)' <=> Holds(q, pc, id)
      BY <2>1 DEF Holds, At
    <3>3. Dropping(id)' = Dropping(id) /\ Using(id)' = Using(id)
      BY <3>2 DEF Dropping, Using
    <3>4. UsesOK(id)'
      BY <2>1, <2>2, <2>3, <3>1, <3>3, UsesKept
    <3>5. GuessOK(id)'
      BY <2>1, <2>2, <2>3, <3>1, <3>2, GuessKept
    <3> QED
      BY <3>4, <3>5
  <2> QED
    BY <2>3, <2>4, <2>5 DEF IInv
<1> QED
  BY <1>1, <1>2, <1>3, <1>4, <1>5, <1>6, <1>7, <1>8 DEF Next

\* However sends and verifications of codes overlap, and wherever the process
\* dies: the invariant that relates the rows, the requests in flight and what
\* has been sent, answered and used.
THEOREM OneTimePasswordsInvariant == Spec => []IInv
<1> QED
  BY InitInvariant, NextInvariant, PTL DEF Spec

\* Rows and requests keep their types, and a phone keeps one code as long as
\* the requests for its codes come one at a time.
THEOREM OneTimePasswordsTypeCorrect == Spec => []TypeOK
<1>1. IInv => TypeOK
  <2> SUFFICES ASSUME IInv PROVE TypeOK
    OBVIOUS
  <2>1. \A p \in Phones \ crowded : \A i, j \in OfPhone(p) : i = j
    BY DEF IInv, LimitOK
  <2> QED
    BY <2>1 DEF IInv, TInv, HistoryOK, TypeOK
<1> QED
  BY <1>1, OneTimePasswordsInvariant, PTL

\* A phone that is sent codes one at a time gets no more than two until a
\* block ends or a code is used: whatever other phones ask for from the same
\* addresses, and whatever is entered meanwhile.
THEOREM PhoneLimitIsKept == Spec => []PhoneLimitHolds
<1>1. IInv => PhoneLimitHolds
  BY DEF IInv, LimitOK, PhoneLimitHolds
<1> QED
  BY <1>1, OneTimePasswordsInvariant, PTL

\* A phone never has more codes than there are requests in flight, however
\* they overlap and break off.
THEOREM CodesAreBounded == Spec => []CodesBounded
<1>1. IInv => CodesBounded
  <2> SUFFICES ASSUME IInv, NEW p \in Phones
               PROVE  Cardinality(OfPhone(p)) <= N
    BY DEF CodesBounded, N
  <2>1. Cardinality(OfPhone(p)) \in Nat /\ Cardinality(Creators(p)) \in Nat
    BY Finite, FS_CardinalityType
  <2> QED
    BY <2>1, Bounds DEF IInv, CodesOK
<1> QED
  BY <1>1, OneTimePasswordsInvariant, PTL

\* However verifications overlap and lose attempts of each other, the wrong
\* answers that are given about a code are bounded.
THEOREM GuessesAreBounded == Spec => []GuessesBounded
<1>1. IInv => GuessesBounded
  BY DEF IInv, GuessOK, GuessesBounded, N
<1> QED
  BY <1>1, OneTimePasswordsInvariant, PTL

\* However verifications overlap, and whatever becomes of the row meanwhile, a
\* code is used at most once by each request in flight, unless the process
\* died between a use and the deletion.
THEOREM CodeUsesAreBounded == Spec => []CodeUsesBounded
<1>1. IInv => CodeUsesBounded
  <2> SUFFICES ASSUME IInv, NEW id \in Ids, id \notin left
               PROVE  uses[id] <= N
    BY DEF CodeUsesBounded, N
  <2>1. /\ uses[id] \in Nat /\ N \in Nat /\ Cardinality(Using(id)) \in Nat
        /\ uses[id] + Cardinality(Using(id)) <= N
    BY UsesBelow DEF IInv
  <2> QED
    BY <2>1
<1> QED
  BY <1>1, OneTimePasswordsInvariant, PTL
=============================================================================
