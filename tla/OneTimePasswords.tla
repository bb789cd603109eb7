-------------------------- MODULE OneTimePasswords --------------------------
(***************************************************************************)
(* One-time passwords: sendOtp with its limits per phone and per address,  *)
(* verifyOtp with its count of attempts, and the end of resetPassword and  *)
(* of changePhone, over the rows of otps (auth.service).                   *)
(*                                                                         *)
(* Every query names a purpose, so that the rows of two purposes never     *)
(* meet: a behaviour is about one purpose.  No handler uses a transaction: *)
(* every statement is a step.  Of time only what it does is kept: a row    *)
(* expires, and later a block on it ends.  The accounts the handlers look  *)
(* at (in Accounts) may be there or not: a lookup of theirs may throw.     *)
(***************************************************************************)
EXTENDS Naturals, Sequences, FiniteSets

CONSTANTS Phones,       \* phone numbers
          Addresses,    \* IP addresses
          Purposes,     \* the purposes that are looked at
          Sources,      \* phones and addresses that ask for codes of each
          Entering,     \* phones whose codes of each are entered
          MaxId,        \* how many rows there may be
          MaxAttempts,  \* wrong codes until a code is no use: 5 in the code
          MaxLevel,     \* levels of the limits: 3 in the code
          Reqs,         \* slots for requests in flight
          None          \* null

Ids == 1..MaxId

\* A level and the number of requests at it.
Levels == 1..MaxLevel
Counts == 0..2

\* One row of otps; its createdAt is kept as the rows that are older.
Otp == [phone : Phones, ip : Addresses \cup {None},
        status : {"PENDING", "VERIFIED", "EXPIRED"},
        attempts : 0..MaxAttempts, level : Levels, count : Counts,
        blocked : BOOLEAN, late : BOOLEAN, older : SUBSET Ids]

\* What requests have read, and what they will write.
Found == [id : Ids, attempts : 0..MaxAttempts]
Limit == [id : Ids, level : Levels, count : Counts, blocked : BOOLEAN]
Level == [id : Ids, level : Levels]

ASSUME OneTimePasswordsAssumption ==
  /\ Purposes \subseteq {"REGISTER", "RESET_PASSWORD", "CHANGE_PHONE"}
  /\ Sources \in [Purposes -> SUBSET (Phones \X (Addresses \cup {None}))]
  /\ Entering \in [Purposes -> SUBSET Phones]
  /\ MaxId \in Nat /\ {MaxAttempts, MaxLevel} \subseteq Nat \ {0}
  /\ IsFiniteSet(Reqs)
  /\ None \notin Phones \cup Addresses \cup Reqs \cup Nat
  /\ None \notin Otp \cup Found \cup Limit

VARIABLES purpose,    \* the purpose this behaviour is about
          otps,       \* its rows, by their ids
          req,        \* the requests in flight
          sent,       \* history: codes sent to a phone since a block of it
                      \* ended or a code of it was used
          crowded,    \* history: phones two requests wanted a code for at
                      \* once, or whose new code was never created
          wrong,      \* history: wrong answers given about a code
          uses,       \* history: accounts verified, tokens given for a code
          left        \* history: codes that were used and not dropped, since
                      \* the process died in between

history == <<sent, crowded, wrong, uses, left>>
vars == <<purpose, otps, req, sent, crowded, wrong, uses, left>>

Idle == [pc |-> "idle", phone |-> None, ip |-> None, seen |-> None,
         updates |-> <<>>, level |-> 1, count |-> 0]

Init ==
  /\ purpose \in Purposes
  /\ otps = [id \in Ids |-> None]
  /\ req = [r \in Reqs |-> Idle]
  /\ sent = [p \in Phones |-> 0]
  /\ crowded = {}
  /\ wrong = [id \in Ids |-> 0]
  /\ uses = [id \in Ids |-> 0]
  /\ left = {}

-----------------------------------------------------------------------------
(* Rows. *)

IsRow(id) == otps[id] # None

OfPhone(p) == {id \in Ids : IsRow(id) /\ otps[id].phone = p}
OfAddress(ip) == {id \in Ids : IsRow(id) /\ otps[id].ip = ip}

\* Mutant: a code that was used is found again.
OpenOf(p) == {id \in OfPhone(p) : otps[id].status # "EXPIRED"}

PendingOf(p) == {id \in OfPhone(p) : otps[id].status = "PENDING"}

\* findFirst, the latest one first: its id, or null.
Latest(ids) ==
  IF ids = {} THEN {None}
  ELSE {id \in ids : ids \ {id} \subseteq otps[id].older}

\* deleteMany.
Delete(ids) ==
  otps' = [id \in Ids |-> IF id \in ids \/ ~IsRow(id) THEN None
                         ELSE [otps[id] EXCEPT !.older = @ \ ids]]

\* create, or an update of a row by its id.
Write(id, row) == otps' = [otps EXCEPT ![id] = row]

\* Ids are never used twice; one that nothing refers to stands for a new one.
Unused(id) ==
  /\ ~IsRow(id)
  /\ \A r \in Reqs :
       /\ req[r].seen # None => req[r].seen.id # id
       /\ \A k \in DOMAIN req[r].updates : req[r].updates[k].id # id

-----------------------------------------------------------------------------
(* Requests. *)

At(r, pc) == req[r].pc = pc
Goto(r, pc) == req' = [req EXCEPT ![r].pc = pc]
Done(r) == req' = [req EXCEPT ![r] = Idle]
Phone(r) == req[r].phone

Local == UNCHANGED <<purpose, otps, history>>

Throw(r) == Done(r) /\ Local

\* The other requests for a code of a phone.
Sending == {"byPhone", "byIp", "block", "clear", "create"}
Senders(p) == {q \in Reqs : Phone(q) = p /\ req[q].pc \in Sending}

\* What is counted as sent to a phone, unless it is crowded.
Sent(p, n) == sent' = IF p \in crowded THEN sent ELSE [sent EXCEPT ![p] = n]

Crowd(p) == crowded' = crowded \cup {p} /\ sent' = [sent EXCEPT ![p] = 0]

\* What is counted as a use of a code, unless it was left behind.
Used(id) == uses' = IF id \in left THEN uses ELSE [uses EXCEPT ![id] = @ + 1]

Arrival(r, pc, p, ip) ==
  /\ At(r, "idle")
  /\ req' = [req EXCEPT ![r].pc = pc, ![r].phone = p, ![r].ip = ip]
  /\ UNCHANGED <<purpose, otps, wrong, uses, left>>

\* The process dies, or a statement fails.  A phone whose codes are deleted
\* and whose new one is not created loses its limits; a code that verified an
\* account and is not dropped can be used again.
Die(r) ==
  /\ ~At(r, "idle")
  /\ Done(r)
  /\ IF At(r, "create") THEN Crowd(Phone(r)) ELSE UNCHANGED <<sent, crowded>>
  /\ IF At(r, "drop") /\ req[r].seen.id \in PendingOf(Phone(r))
     THEN /\ left' = left \cup {req[r].seen.id}
          /\ uses' = [uses EXCEPT ![req[r].seen.id] = 0]
     ELSE UNCHANGED <<uses, left>>
  /\ UNCHANGED <<purpose, otps, wrong>>

-----------------------------------------------------------------------------
(* sendOtp. *)

StartSend(r, source) ==
  /\ Arrival(r, "byPhone", source[1], source[2])
  /\ IF Senders(source[1]) = {} THEN UNCHANGED <<sent, crowded>>
                                ELSE Crowd(source[1])

\* What of a row the limits depend on.
LimitOf(id) ==
  IF id = None THEN None
  ELSE [id |-> id, level |-> otps[id].level, count |-> otps[id].count,
        blocked |-> otps[id].blocked]

\* The latest code of the phone,
ReadByPhone(r) ==
  /\ At(r, "byPhone")
  /\ \E id \in Latest(OfPhone(Phone(r))) :
       req' = [req EXCEPT ![r].pc = "byIp", ![r].seen = LimitOf(id)]
  /\ Local

Blocked(row) == row # None /\ row.blocked

\* What a request makes of the level and the count of a row: two requests at
\* the first level and one at the others, and then a block and the next level.
NextLimit(row) ==
  LET level == IF row = None THEN 1 ELSE row.level
      count == IF row = None THEN 1 ELSE row.count + 1
      over == count > (IF level = 1 THEN 2 ELSE 1)
  IN  [level |-> IF over /\ level < MaxLevel THEN level + 1 ELSE level,
       count |-> count, over |-> over]

\* Mutant: the limit of the address replaces that of the phone.
MergedByAddress(a, b) == b

\* The higher of two levels, with the count at it.
Merged(a, b) ==
  IF a.level > b.level \/ (a.level = b.level /\ a.count >= b.count)
  THEN a ELSE b

\* The rows a request that is over a limit blocks.
Blocking(seen, other) ==
  LET a == NextLimit(seen)
      b == NextLimit(other)
      block(row, limit) == <<[id |-> row.id, level |-> limit.level]>>
  IN  (IF a.over THEN block(seen, a) ELSE <<>>)
      \o (IF b.over /\ (seen = None \/ other.id # seen.id)
          THEN block(other, b) ELSE <<>>)

\* and the latest one of the address decide what becomes of the request.
ReadByIp(r) ==
  /\ At(r, "byIp")
  /\ \E id \in IF req[r].ip = None THEN {None}
              ELSE Latest(OfAddress(req[r].ip)) :
     LET seen == req[r].seen
         other == LimitOf(id)
         limits == {NextLimit(seen), NextLimit(other)}
         merged == Merged(NextLimit(seen), NextLimit(other))
     IN  \/ /\ ~Blocked(seen) /\ ~Blocked(other)
            /\ \E l \in limits : l.over
            /\ Blocking(seen, other) # <<>>
            /\ req' = [req EXCEPT ![r].pc = "block", ![r].seen = None,
                                  ![r].updates = Blocking(seen, other)]
            /\ Local
         \/ /\ ~Blocked(seen) /\ ~Blocked(other)
            /\ \A l \in limits : ~l.over
            /\ req' = [req EXCEPT ![r].pc = "clear", ![r].seen = None,
                                  ![r].level = merged.level,
                                  ![r].count = merged.count]
            /\ Local
         \/ /\ \/ Blocked(seen) \/ Blocked(other)
               \/ (\E l \in limits : l.over) /\ Blocking(seen, other) = <<>>
            /\ Throw(r)

\* Each row is updated by its id, and the request throws in the end.
BlockRow(r) ==
  /\ At(r, "block")
  /\ LET first == Head(req[r].updates)
     IN  IF IsRow(first.id)
         THEN /\ Write(first.id, [otps[first.id] EXCEPT !.level = first.level,
                                                        !.count = 0,
                                                        !.blocked = TRUE])
              /\ IF Len(req[r].updates) = 1 THEN Done(r)
                 ELSE req' = [req EXCEPT ![r].updates = Tail(@)]
              /\ UNCHANGED <<purpose, history>>
         ELSE Throw(r)

\* Mutant: only the codes nobody has used are deleted.
ClearPending(r) ==
  /\ At(r, "clear")
  /\ Delete(PendingOf(Phone(r)))
  /\ Goto(r, "create")
  /\ UNCHANGED <<purpose, history>>

\* The codes of the phone are deleted,
ClearPhone(r) ==
  /\ At(r, "clear")
  /\ Delete(OfPhone(Phone(r)))
  /\ Goto(r, "create")
  /\ UNCHANGED <<purpose, history>>

\* and the new one is created with what was decided.
CreateOtp(r) ==
  /\ At(r, "create")
  /\ \E id \in Ids :
       /\ Unused(id)
       /\ \A other \in 1..(id - 1) : ~Unused(other)
       /\ Write(id,
             [phone |-> Phone(r), ip |-> req[r].ip, status |-> "PENDING",
              attempts |-> 0, level |-> req[r].level, count |-> req[r].count,
              blocked |-> FALSE, late |-> FALSE,
              older |-> {other \in Ids : IsRow(other)}])
       /\ wrong' = [wrong EXCEPT ![id] = 0]
       /\ uses' = [uses EXCEPT ![id] = 0]
       /\ left' = left \ {id}
  /\ Sent(Phone(r), sent[Phone(r)] + 1)
  /\ Done(r)
  /\ UNCHANGED <<purpose, crowded>>

-----------------------------------------------------------------------------
(* verifyOtp. *)

StartVerify(r, p) ==
  /\ Arrival(r, "verify", p, None)
  /\ UNCHANGED <<sent, crowded>>

\* The latest pending code is expired, or not the one that was sent, or it.
FindOtp(r) ==
  /\ At(r, "verify")
  /\ \E id \in Latest(PendingOf(Phone(r))) :
     LET found == [id |-> id, attempts |-> otps[id].attempts]
         go(pc) == req' = [req EXCEPT ![r].pc = pc, ![r].seen = found]
     IN  \/ /\ id = None
            /\ Throw(r)
         \/ /\ id # None /\ otps[id].late
            /\ go("expire") /\ Local
         \/ /\ id # None /\ ~otps[id].late
            /\ go("wrong") /\ Local
         \/ /\ id # None /\ ~otps[id].late
            /\ go(IF purpose = "REGISTER" THEN "mark" ELSE "accept") /\ Local

\* An update of the row that was found, which throws when it is gone.
Update(r, row) == IsRow(req[r].seen.id) /\ Write(req[r].seen.id, row) /\ Done(r)
Gone(r) == ~IsRow(req[r].seen.id) /\ Throw(r)

ExpireOtp(r) ==
  /\ At(r, "expire")
  /\ \/ /\ Update(r, [otps[req[r].seen.id] EXCEPT !.status = "EXPIRED"])
        /\ UNCHANGED <<purpose, history>>
     \/ Gone(r)

\* Mutant: one attempt too many.
TriedOnceMore(row, attempts) ==
  IF attempts > MaxAttempts THEN [row EXCEPT !.status = "EXPIRED"]
  ELSE [row EXCEPT !.attempts = attempts]

\* The attempts are those that were read, and one more; a code with too many
\* is no use any more.
Tried(row, attempts) ==
  [row EXCEPT !.attempts = attempts,
              !.status = IF attempts >= MaxAttempts THEN "EXPIRED" ELSE @]

\* The answer, that the code was wrong, is given when it has been counted.
CountAttempt(r) ==
  /\ At(r, "wrong")
  /\ \/ /\ Update(r, Tried(otps[req[r].seen.id], req[r].seen.attempts + 1))
        /\ wrong' = [wrong EXCEPT ![req[r].seen.id] = @ + 1]
        /\ UNCHANGED <<purpose, sent, crowded, uses, left>>
     \/ Gone(r)

\* The code was right.  REGISTER: the account is updated first, if there is
\* one, whatever has become of the code,
MarkUser(r) ==
  /\ At(r, "mark")
  /\ \/ /\ Goto(r, "drop")
        /\ Used(req[r].seen.id)
        /\ UNCHANGED <<purpose, otps, sent, crowded, wrong, left>>
     \/ Throw(r)

\* and then the code is deleted, which throws when it is gone.
DropOtp(r) ==
  /\ At(r, "drop")
  /\ \/ /\ IsRow(req[r].seen.id)
        /\ Delete({req[r].seen.id})
        /\ Sent(Phone(r), 0)
        /\ Done(r)
        /\ UNCHANGED <<purpose, crowded, wrong, uses, left>>
     \/ Gone(r)

\* The others: the code is marked, and a token given out for it.
AcceptOtp(r) ==
  /\ At(r, "accept")
  /\ \/ /\ Update(r, [otps[req[r].seen.id] EXCEPT !.status = "VERIFIED"])
        /\ Used(req[r].seen.id)
        /\ UNCHANGED <<purpose, sent, crowded, wrong, left>>
     \/ Gone(r)

-----------------------------------------------------------------------------
(* What else happens to the rows. *)

\* resetPassword and changePhone, when the token was used: the codes it may
\* have been given for are deleted, and with them the limits of the phone.
UseToken(p) ==
  /\ purpose # "REGISTER"
  /\ LET used == {id \in OfPhone(p) : otps[id].status = "VERIFIED"}
     IN  used # {} /\ Delete(used)
  /\ Sent(p, 0)
  /\ UNCHANGED <<purpose, req, crowded, wrong, uses, left>>

\* A code expires, if it is one that may be entered,
Expire(id) ==
  /\ IsRow(id) /\ ~otps[id].late
  /\ otps[id].status = "PENDING" /\ otps[id].phone \in Entering[purpose]
  /\ Write(id, [otps[id] EXCEPT !.late = TRUE])
  /\ UNCHANGED <<purpose, req, history>>

\* and a block ends.  (It does so later, as it begins later and is not shorter
\* than the life of a code; nothing depends on that.)
Unblock(id) ==
  /\ IsRow(id) /\ otps[id].blocked
  /\ Write(id, [otps[id] EXCEPT !.blocked = FALSE])
  /\ Sent(otps[id].phone, 0)
  /\ UNCHANGED <<purpose, req, crowded, wrong, uses, left>>

Step(r) ==
  \/ ReadByPhone(r) \/ ReadByIp(r) \/ BlockRow(r)
  \/ ClearPhone(r) \/ CreateOtp(r)
  \/ FindOtp(r) \/ ExpireOtp(r) \/ CountAttempt(r)
  \/ MarkUser(r) \/ DropOtp(r) \/ AcceptOtp(r)

Next ==
  \/ \E r \in Reqs :
        \/ \E source \in Sources[purpose] : StartSend(r, source)
        \/ \E p \in Entering[purpose] : StartVerify(r, p)
        \/ Step(r)
        \/ Die(r)
  \/ \E p \in Phones : UseToken(p)
  \/ \E id \in Ids : Expire(id) \/ Unblock(id)

Spec == Init /\ [][Next]_vars

-----------------------------------------------------------------------------
(* Properties. *)

ReqRow ==
  [pc : {"idle", "byPhone", "byIp", "block", "clear", "create", "verify",
         "expire", "wrong", "mark", "drop", "accept"},
   phone : Phones \cup {None}, ip : Addresses \cup {None},
   seen : {None} \cup Found \cup Limit, updates : Seq(Level),
   level : Levels, count : Counts]

\* Rows and requests have their types, and a phone has one code as long as
\* the requests for its codes come one at a time.
TypeOK ==
  /\ purpose \in Purposes
  /\ otps \in [Ids -> Otp \cup {None}]
  /\ \A p \in Phones \ crowded : \A i, j \in OfPhone(p) : i = j
  /\ req \in [Reqs -> ReqRow]
  /\ sent \in [Phones -> Nat]
  /\ crowded \subseteq Phones
  /\ {wrong, uses} \subseteq [Ids -> Nat]
  /\ left \subseteq Ids

\* No phone is sent more than two codes without being blocked until a block
\* ends or a code is used, whatever is asked for from the same addresses and
\* entered meanwhile.  (Not so for a crowded phone: requests for a code that
\* overlap read the same count, and one that breaks off takes it along.)
PhoneLimitHolds == \A p \in Phones \ crowded : sent[p] <= 2

\* However many requests for codes of a phone overlap and break off, it never
\* has more codes than there are requests in flight.
CodesBounded ==
  \A p \in Phones : Cardinality(OfPhone(p)) <= Cardinality(Reqs)

\* A verification that stands where the code has so many attempts left can
\* be followed by so many wrong answers: its own, and those of all requests
\* once it has written back the attempts it read.
Answers[n \in 0..MaxAttempts] ==
  IF n = 0 THEN 0 ELSE Cardinality(Reqs) * Answers[n - 1] + 1

\* Verifications that overlap lose attempts, as they count from what they
\* read, so a code may be guessed at more than MaxAttempts times; but not
\* without end, and one at a time just MaxAttempts times.
GuessesBounded ==
  \A id \in Ids : wrong[id] <= Cardinality(Reqs) * Answers[MaxAttempts]

\* Verifications that overlap can use one code more than once: each request
\* in flight once, also when another code was sent meanwhile; unless the
\* process died between the use and the deletion of the code.
CodeUsesBounded ==
  \A id \in Ids \ left : uses[id] <= Cardinality(Reqs)
=============================================================================
