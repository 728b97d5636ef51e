------------------------- MODULE DeliveryNotesProofs -------------------------
(***************************************************************************)
(* For any number of requests at any delivery notes: the stock is what was *)
(* signed for and a note carries what was paid, whatever overlaps; and a   *)
(* note that no two requests were at once is signed once for what it says, *)
(* never paid or returned beyond its total, and has the lines of one edit. *)
(* The latter need that what a lone request read is still so when it       *)
(* writes: the note, its lines, and what was returned of it.               *)
(***************************************************************************)
EXTENDS DeliveryNotes, SumTheorems, TLAPS

Busy   == {"lines", "delete", "returned", "number", "write"}
Stages == Busy \cup {"new", "done", "failed"}
Parts  == {"kind", "note", "seen", "items", "back", "last"}
HasRead(k, s) == \/ k \in {"sent", "sign", "pay", "return"} /\ s \in {"returned", "number", "write"}
                 \/ k = "update" /\ s = "write"

(* What a request may be doing, and with which kinds of request.           *)
StageFits(k, s) ==
  /\ k \in AllKinds
  /\ s = "number" => k \in {"create", "return"}
  /\ s = "returned" => k = "return"
  /\ s = "lines" => k \in {"sent", "sign", "pay", "return"}
  /\ s = "delete" => k = "update"

JobTyped(r, j, s) ==
  /\ DOMAIN j = Parts /\ j.items \subseteq Line /\ IsFiniteSet(j.items) /\ j.back \in Int
  /\ s \notin Busy => j.note = None
  /\ s \in Busy => /\ StageFits(j.kind, s)
                   /\ IF j.kind = "create" THEN j.note = r
                      ELSE j.note \in Existing /\ j.seen \in Note
  /\ s = "write" /\ j.kind \in {"create", "return"} => j.last \in [Types -> Nat]

Typed ==
  /\ note \in [Id -> Note \cup {None}] /\ IsFiniteSet(Existing)
  /\ lines \in [Id -> SUBSET Line] /\ \A n \in Id : IsFiniteSet(lines[n])
  /\ posted \in [Id -> Int] /\ payments \in [Id -> Nat] /\ stock \in Nat
  /\ stage \in [Req -> Stages] /\ DOMAIN job = Req
  /\ \A r \in Req : JobTyped(r, job[r], stage[r])

(* Who has not ended has made no note; and what is not signed, or not      *)
(* there, has posted nothing.                                              *)
NotMade == \A r \in Req : stage[r] \notin {"done", "failed"} => note[r] = None
Unposted ==
  /\ \A n \in Id : note[n] = None => posted[n] = 0 /\ payments[n] = 0
  /\ \A n \in Existing : ~note[n].signed => posted[n] = 0

(* Two requests at a note make it contended; what one alone has read is so.*)
Alone ==
  \A q, r \in Req : q # r =>
    \A n \in Touched(job[q].note) \cap Touched(job[r].note) : n \in contended
StillSo(r, n) ==
  LET j == job[r]
  IN  /\ j.kind # "create" => j.seen = note[n]
      /\ HasRead(j.kind, stage[r]) => j.items = lines[n]
      /\ j.kind = "return" /\ stage[r] \in {"number", "write"} => j.back = Returned(n)
DecidedOnWhatIs ==
  \A r \in Req : stage[r] \in Busy /\ job[r].note \notin contended => StillSo(r, job[r].note)

NotesInv == /\ Typed /\ NotMade /\ Unposted /\ Alone /\ DecidedOnWhatIs
            /\ LinesOfOneEdit /\ StockIsPosted

-----------------------------------------------------------------------------
LEMMA TotalNat ==
  ASSUME NEW ls \in SUBSET Line, IsFiniteSet(ls)
  PROVE  /\ Total(ls) \in Nat /\ \A l \in ls : l.sent =< Total(ls)
         /\ \A l : ls = {l} => Total(ls) = l.sent
<1> PICK f : f = [l \in ls |-> l.sent]
  OBVIOUS
<1>1. (\A l \in ls : f[l] = l.sent /\ f[l] \in Nat) /\ Total(ls) = SumFunctionOnSet(f, ls)
  BY DEF Line, Total, SumFunction
<1>2. SumFunctionOnSet(f, ls) \in Nat /\ \A l \in ls : f[l] =< SumFunctionOnSet(f, ls)
  BY <1>1, SumIsNat, SumIsNoLess
<1>3. ASSUME NEW l, ls = {l} PROVE SumFunctionOnSet(f, ls) = l.sent
  <2>1. l \in ls /\ f[l] \in Int /\ \A m \in ls \ {l} : f[m] = 0
    BY <1>1, <1>3
  <2> QED BY <1>1, <2>1, SumOfOne
<1> QED BY <1>1, <1>2, <1>3

LEMMA EffectInt ==
  ASSUME NEW type, NEW ls \in SUBSET Line, IsFiniteSet(ls) PROVE StockEffect(type, ls) \in Int
BY TotalNat, FlagsAssumption DEF StockEffect

LEMMA ReturnedNat == ASSUME Typed, NEW n PROVE Returned(n) \in Nat
<1> PICK f : f = [m \in ReturnsOf(n) |-> Total(lines[m])]
  OBVIOUS
<1>1. \A m \in ReturnsOf(n) : f[m] \in Nat
  BY TotalNat DEF ReturnsOf, Existing, Typed
<1>2. IsFiniteSet(ReturnsOf(n))
  BY FS_Subset DEF ReturnsOf, Typed
<1>3. SumFunctionOnSet(f, ReturnsOf(n)) \in Nat
  BY <1>1, <1>2, SumIsNat
<1> QED BY <1>3 DEF Returned, SumFunction

LEMMA IdleTyped ==
  ASSUME NEW r, NEW s \in Stages \ Busy PROVE JobTyped(r, Idle, s)
BY FS_EmptySet DEF JobTyped, Idle, Parts, Stages, Busy

LEMMA FirstNotes == Init => NotesInv
<1> SUFFICES ASSUME Init PROVE NotesInv
  OBVIOUS
<1> USE SeedAssumption, NotesAssumption, BodiesAssumption
<1>1. /\ Seed \subseteq Id /\ Existing = Seed
      /\ \A n \in Seed : note[n] = Note0[n] /\ note[n] \in Note /\ lines[n] = Lines0[n]
      /\ \A n \in Id \ Seed : note[n] = None /\ lines[n] = {}
  BY DEF Init, Existing, Id
<1>2. /\ \A n \in Id : IsFiniteSet(lines[n])
      /\ \A n \in Id : lines[n] \in SUBSET Line
  BY <1>1, FS_EmptySet DEF Init
<1>3. \A n \in Seed : StockEffect(Note0[n].type, Lines0[n]) \in Int
  BY EffectInt
<1>4. /\ \A n \in Id : posted[n] = IF n \in Seed /\ Note0[n].signed
                                   THEN StockEffect(Note0[n].type, Lines0[n]) ELSE 0
      /\ \A n \in Id : payments[n] = IF n \in Seed THEN Note0[n].paid ELSE 0
  BY DEF Init
<1>5. posted \in [Id -> Int]
  <2>1. \A n \in Id : posted[n] \in Int
    BY <1>3, <1>4
  <2> QED BY <2>1 DEF Init
<1>6. payments \in [Id -> Nat]
  <2>1. \A n \in Id : payments[n] \in Nat
    BY <1>4 DEF Note
  <2> QED BY <2>1 DEF Init
<1>7. note \in [Id -> Note \cup {None}] /\ lines \in [Id -> SUBSET Line]
  BY <1>1, <1>2 DEF Init
<1>8. stage \in [Req -> Stages] /\ DOMAIN job = Req /\ \A r \in Req : JobTyped(r, job[r], stage[r])
  BY IdleTyped DEF Init, Stages, Busy
<1>9. Typed
  BY <1>1, <1>2, <1>5, <1>6, <1>7, <1>8 DEF Typed, Init
<1>10. NotMade /\ Unposted
  <2>1. \A n \in Seed : note[n] # None
    BY <1>1
  <2>2. \A r \in Req : r \in Id \ Seed
    BY DEF Id
  <2> QED BY <1>1, <1>4, <2>1, <2>2 DEF NotMade, Unposted
<1>11. Alone /\ DecidedOnWhatIs
  BY <1>1 DEF Init, Alone, DecidedOnWhatIs, Touched, Idle, Busy
<1>12. LinesOfOneEdit
  BY <1>1 DEF LinesOfOneEdit
<1>13. StockIsPosted
  <2> PICK f : f = [n \in Seed |-> IF Note0[n].signed THEN StockEffect(Note0[n].type, Lines0[n])
                                                      ELSE 0]
    OBVIOUS
  <2>1. \A n \in Seed : f[n] \in Int /\ posted[n] = f[n]
    BY <1>1, <1>3, <1>4
  <2>2. SumFunctionOnSet(posted, Seed) = SumFunctionOnSet(f, Seed)
    BY <2>1, SumOfSame
  <2>3. SumFunction(f) = SumFunctionOnSet(f, Seed)
    BY DEF SumFunction
  <2>4. \A n \in Existing : note[n].paid = payments[n]
    BY <1>1, <1>4
  <2> QED BY <1>1, <2>2, <2>3, <2>4 DEF StockIsPosted, Init
<1> QED BY <1>9, <1>10, <1>11, <1>12, <1>13 DEF NotesInv

-----------------------------------------------------------------------------
(* Nothing is written: what is there, and who is at it, is as it was.      *)
LEMMA SameNotes ==
  ASSUME UNCHANGED <<note, lines>>
  PROVE  /\ Existing' = Existing /\ \A n : Touched(n)' = Touched(n)
         /\ \A n : ReturnsOf(n)' = ReturnsOf(n) /\ Returned(n)' = Returned(n)
<1>1. Existing' = Existing
  BY DEF Existing
<1>2. \A n : ReturnsOf(n)' = ReturnsOf(n)
  BY <1>1 DEF ReturnsOf
<1>3. ASSUME NEW n PROVE Returned(n)' = Returned(n)
  <2>1. [m \in ReturnsOf(n) |-> Total(lines[m])]' = [m \in ReturnsOf(n) |-> Total(lines[m])]
    BY <1>2
  <2> QED BY <2>1 DEF Returned
<1> QED BY <1>1, <1>2, <1>3 DEF Touched

LEMMA ReadsOnly ==
  ASSUME NotesInv, NEW r \in Req, NEW s \in Stages, NEW j, UNCHANGED database,
         contended \subseteq contended', stage[r] \notin {"done", "failed"},
         stage' = [stage EXCEPT ![r] = s],
         job' = [job EXCEPT ![r] = j] \/ (job' = job /\ j = job[r]), JobTyped(r, j, s),
         \A q \in Req \ {r} : \A n \in Touched(j.note) \cap Touched(job[q].note) :
           n \in contended',
         s \in Busy /\ j.note \notin contended' => StillSo(r, j.note)'
  PROVE  NotesInv'
<1>1. /\ UNCHANGED <<note, lines, posted, payments, stock>>
      /\ \A q \in Req : stage'[q] = IF q = r THEN s ELSE stage[q]
      /\ \A q \in Req : job'[q] = IF q = r THEN j ELSE job[q]
      /\ stage' \in [Req -> Stages] /\ DOMAIN job' = Req
  BY DEF NotesInv, Typed, database
<1>2. /\ Existing' = Existing /\ \A n : Touched(n)' = Touched(n)
      /\ \A n : Returned(n)' = Returned(n)
  BY <1>1, SameNotes
<1>3. ASSUME NEW q \in Req PROVE JobTyped(q, job[q], stage[q])'
  <2>1. PICK i, t : i = job'[q] /\ t = stage'[q]
    OBVIOUS
  <2>2. JobTyped(q, i, t)
    BY <1>1, <2>1 DEF NotesInv, Typed
  <2>3. JobTyped(q, i, t)'
    BY <1>1, <1>2, <2>2 DEF JobTyped
  <2> QED BY <2>1, <2>3 DEF JobTyped
<1>4. Typed'
  BY <1>1, <1>2, <1>3 DEF NotesInv, Typed
<1>5. NotMade' /\ Unposted'
  BY <1>1, <1>2 DEF NotesInv, NotMade, Unposted
<1>6. Alone'
  <2>1. ASSUME NEW p \in Req, NEW q \in Req, p # q,
               NEW n \in Touched(job'[p].note) \cap Touched(job'[q].note)
        PROVE  n \in contended'
    BY <1>1, <2>1 DEF NotesInv, Alone
  <2>2. \A q \in Req : Touched(job[q].note)' = Touched(job'[q].note)
    BY <1>1 DEF Touched, Existing
  <2> QED BY <2>1, <2>2 DEF Alone
<1>7. DecidedOnWhatIs'
  <2>1. ASSUME NEW q \in Req \ {r}, stage[q] \in Busy, job[q].note \notin contended'
        PROVE  StillSo(q, job[q].note)'
    <3>1. PICK n : n = job[q].note
      OBVIOUS
    <3>2. StillSo(q, n)
      BY <2>1, <3>1 DEF NotesInv, DecidedOnWhatIs
    <3>3. StillSo(q, n)'
      BY <1>1, <1>2, <3>2 DEF StillSo
    <3> QED BY <1>1, <3>1, <3>3 DEF StillSo
  <2>2. StillSo(r, j.note)' => StillSo(r, job[r].note)'
    BY <1>1 DEF StillSo
  <2> QED BY <1>1, <2>1, <2>2 DEF DecidedOnWhatIs
<1>8. LinesOfOneEdit' /\ StockIsPosted'
  BY <1>1, <1>2 DEF NotesInv, LinesOfOneEdit, StockIsPosted
<1> QED BY <1>4, <1>5, <1>6, <1>7, <1>8 DEF NotesInv

(* A request that ends with nothing done.                                  *)
LEMMA EndsIdle ==
  ASSUME NotesInv, NEW r \in Req, NEW out \in {"done", "failed"}, UNCHANGED database,
         Finish(r, out), stage[r] \notin {"done", "failed"}
  PROVE  NotesInv'
<1>1. /\ stage' = [stage EXCEPT ![r] = out] /\ job' = [job EXCEPT ![r] = Idle]
      /\ contended' = contended /\ out \in Stages \ Busy
  BY DEF Finish, Stages, Busy
<1>2. JobTyped(r, Idle, out) /\ Touched(Idle.note) = {}
  BY <1>1, IdleTyped, NotesAssumption DEF Touched, Idle, Existing
<1> QED BY <1>1, <1>2, ReadsOnly

LEMMA HighestNumber == ASSUME Typed, NEW t PROVE Max({0} \cup Numbers(t)) \in Nat
<1> DEFINE S == {m \in Existing : note[m].type = t}
           f == [o \in S |-> note[o].number]
<1>1. Numbers(t) \subseteq Nat /\ IsFiniteSet(S)
  BY FS_Subset DEF Typed, Numbers, Existing, Note
<1>2. f \in Surjection(S, Numbers(t))
  BY DEF Numbers, Surjection
<1>3. IsFiniteSet(Numbers(t))
  <2> HIDE DEF f, S
  <2> QED BY <1>1, <1>2, FS_Surjection
<1>4. IsFiniteSet({0} \cup Numbers(t))
  BY <1>3, FS_Union, FS_Singleton
<1>5. /\ {0} \cup Numbers(t) # {} /\ {0} \cup Numbers(t) \subseteq Nat
      /\ {0} \cup Numbers(t) \subseteq Int
  BY <1>1
<1> HIDE DEF f, S
<1>6. Max({0} \cup Numbers(t)) \in {0} \cup Numbers(t)
  BY <1>4, <1>5, FiniteHasMax
<1> QED BY <1>5, <1>6

LEMMA BeginNotes == ASSUME NotesInv, NEW r \in Req, Begin(r) PROVE NotesInv'
<1>1. PICK k \in Kinds, n \in Id :
        /\ IF k = "create" THEN n = r ELSE n \in Existing
        /\ job' = [job EXCEPT ![r] = [Idle EXCEPT !.kind = k, !.note = n, !.seen = note[n]]]
        /\ stage' = [stage EXCEPT ![r] = FirstStage(k)]
        /\ contended' = contended \cup
             {m \in Touched(n) : \E q \in Req : m \in Touched(job[q].note)}
  BY DEF Begin
<1>2. stage[r] = "new" /\ UNCHANGED database /\ UNCHANGED <<note, lines>> /\ k \in AllKinds
  BY KindsAssumption DEF Begin, database
<1> PICK j : j = [Idle EXCEPT !.kind = k, !.note = n, !.seen = note[n]]
  OBVIOUS
<1>3. /\ DOMAIN j = Parts /\ j.items = {} /\ j.back = 0 /\ j.kind = k /\ j.note = n
      /\ j.seen = note[n]
  BY DEF Idle, Parts
<1>4. /\ FirstStage(k) \in Busy /\ FirstStage(k) \in Stages
      /\ StageFits(k, FirstStage(k)) /\ ~HasRead(k, FirstStage(k))
      /\ FirstStage(k) = "write" => k \in {"cancel", "status"}
      /\ FirstStage(k) = "number" => k = "create"
  BY <1>2 DEF FirstStage, AllKinds, Busy, Stages, StageFits, HasRead
<1>5. k # "create" => note[n] \in Note
  BY <1>1 DEF NotesInv, Typed, Existing
<1>6. JobTyped(r, j, FirstStage(k))
  BY <1>1, <1>3, <1>4, <1>5, FS_EmptySet DEF JobTyped
<1>7. \A q \in Req \ {r} : \A m \in Touched(j.note) \cap Touched(job[q].note) : m \in contended'
  BY <1>1, <1>3
<1>8. StillSo(r, j.note)'
  <2>1. job'[r] = j /\ stage'[r] = FirstStage(k)
    BY <1>1 DEF NotesInv, Typed
  <2> QED BY <1>2, <1>3, <1>4, <2>1 DEF StillSo
<1>9. job' = [job EXCEPT ![r] = j] /\ contended \subseteq contended'
  BY <1>1
<1> QED BY <1>1, <1>2, <1>4, <1>6, <1>7, <1>8, <1>9, ReadsOnly

(* A further statement that reads: the request is where it was.            *)
LEMMA ReadsOn ==
  ASSUME NotesInv, NEW r \in Req, NEW s \in Stages \cap Busy, NEW j, stage[r] \in Busy,
         UNCHANGED <<database, contended>>, stage' = [stage EXCEPT ![r] = s],
         job' = [job EXCEPT ![r] = j] \/ (job' = job /\ j = job[r]),
         j.note = job[r].note, JobTyped(r, j, s),
         j.note \notin contended => StillSo(r, j.note)'
  PROVE  NotesInv'
<1>1. \A q \in Req \ {r} : \A n \in Touched(j.note) \cap Touched(job[q].note) : n \in contended'
  BY DEF NotesInv, Alone
<1>2. stage[r] \notin {"done", "failed"}
  BY DEF Busy
<1> QED BY <1>1, <1>2, ReadsOnly

LEMMA ReadNotes ==
  ASSUME NotesInv, NEW r \in Req,
         ReadLines(r) \/ DeleteLines(r) \/ ReadReturned(r) \/ ReadNumber(r)
  PROVE  NotesInv'
<1> PICK n : n = job[r].note
  OBVIOUS
<1>1. /\ JobTyped(r, job[r], stage[r]) /\ DOMAIN job[r] = Parts /\ DOMAIN job = Req
      /\ DOMAIN stage = Req /\ stage[r] \in Busy /\ UNCHANGED <<database, contended>>
  BY DEF NotesInv, Typed, JobTyped, ReadLines, DeleteLines, ReadReturned, ReadNumber, GoTo, Busy
<1>2. UNCHANGED <<note, lines>> /\ Returned(n)' = Returned(n)
  BY <1>1, SameNotes DEF database
<1>3. n \notin contended => StillSo(r, n)
  BY <1>1 DEF NotesInv, DecidedOnWhatIs
<1>4. StageFits(job[r].kind, stage[r])
  BY <1>1 DEF JobTyped
<1>5. CASE ReadLines(r) \/ DeleteLines(r)
  <2>1. n \in Existing /\ n \in Id /\ lines[n] \in SUBSET Line /\ IsFiniteSet(lines[n])
    BY <1>1, <1>5 DEF ReadLines, DeleteLines, JobTyped, StageFits, NotesInv, Typed, Existing
  <2> PICK j : j = [job[r] EXCEPT !.items = lines[n]]
    OBVIOUS
  <2>2. /\ j.note = n /\ j.items = lines[n] /\ j.kind = job[r].kind /\ j.seen = job[r].seen
        /\ j.back = job[r].back /\ DOMAIN j = Parts
    BY <1>1 DEF Parts
  <2>3. job' = [job EXCEPT ![r] = j]
    BY <1>5 DEF ReadLines, DeleteLines
  <2>4. PICK s \in {"returned", "write"} :
          /\ stage' = [stage EXCEPT ![r] = s] /\ (s = "returned" <=> job[r].kind = "return")
          /\ job[r].kind \in {"sent", "sign", "pay", "return", "update"}
    <3>1. CASE ReadLines(r)
      BY <1>4, <3>1 DEF ReadLines, GoTo, StageFits
    <3>2. CASE DeleteLines(r)
      BY <1>4, <3>2 DEF DeleteLines, GoTo, StageFits
    <3> QED BY <1>5, <3>1, <3>2
  <2>5. job'[r] = j /\ stage'[r] = s
    BY <1>1, <2>3, <2>4
  <2>6. JobTyped(r, j, s)
    BY <1>1, <1>4, <2>1, <2>2, <2>4 DEF JobTyped, StageFits, Busy
  <2>7. n \notin contended => StillSo(r, n)'
    BY <1>2, <1>3, <2>2, <2>4, <2>5 DEF StillSo
  <2>8. s \in Stages \cap Busy
    BY <2>4 DEF Stages, Busy
  <2> QED BY <1>1, <2>2, <2>3, <2>4, <2>6, <2>7, <2>8, ReadsOn
<1>6. CASE ReadReturned(r)
  <2> PICK j : j = [job[r] EXCEPT !.back = Returned(n)]
    OBVIOUS
  <2>1. /\ j.note = n /\ j.items = job[r].items /\ j.kind = job[r].kind /\ j.seen = job[r].seen
        /\ j.back = Returned(n) /\ DOMAIN j = Parts
    BY <1>1 DEF Parts
  <2>2. /\ job' = [job EXCEPT ![r] = j] /\ stage[r] = "returned"
        /\ stage' = [stage EXCEPT ![r] = "number"]
    BY <1>6 DEF ReadReturned, GoTo
  <2>3. job'[r] = j /\ stage'[r] = "number" /\ job[r].kind = "return"
    BY <1>1, <1>4, <2>2 DEF StageFits
  <2>4. JobTyped(r, j, "number")
    <3>1. Returned(n) \in Int
      BY ReturnedNat DEF NotesInv
    <3> QED BY <1>1, <1>4, <2>1, <2>2, <2>3, <3>1 DEF JobTyped, StageFits, Busy
  <2>5. n \notin contended => StillSo(r, n)'
    BY <1>2, <1>3, <2>1, <2>2, <2>3 DEF StillSo, HasRead
  <2>6. "number" \in Stages \cap Busy
    BY DEF Stages, Busy
  <2> QED BY <1>1, <2>1, <2>2, <2>4, <2>5, <2>6, ReadsOn
<1>7. CASE ReadNumber(r)
  <2> PICK last : last = [t \in Types |-> Max({0} \cup Numbers(t))]
    OBVIOUS
  <2> PICK j : j = [job[r] EXCEPT !.last = last]
    OBVIOUS
  <2>1. /\ j.note = n /\ j.items = job[r].items /\ j.kind = job[r].kind /\ j.seen = job[r].seen
        /\ j.back = job[r].back /\ DOMAIN j = Parts /\ j.last = last
    BY <1>1 DEF Parts
  <2>2. /\ job' = [job EXCEPT ![r] = j] /\ stage[r] = "number"
        /\ stage' = [stage EXCEPT ![r] = "write"]
    BY <1>7 DEF ReadNumber, GoTo
  <2>3. last \in [Types -> Nat]
    BY HighestNumber DEF NotesInv
  <2>4. job'[r] = j /\ stage'[r] = "write" /\ job[r].kind \in {"create", "return"}
    BY <1>1, <1>4, <2>2 DEF StageFits
  <2>5. JobTyped(r, j, "write")
    BY <1>1, <1>4, <2>1, <2>2, <2>3, <2>4 DEF JobTyped, StageFits, Busy
  <2>6. n \notin contended => StillSo(r, n)'
    BY <1>2, <1>3, <2>1, <2>2, <2>4 DEF StillSo, HasRead
  <2>7. "write" \in Stages \cap Busy
    BY DEF Stages, Busy
  <2> QED BY <1>1, <2>1, <2>2, <2>5, <2>6, <2>7, ReadsOn
<1> QED BY <1>5, <1>6, <1>7

-----------------------------------------------------------------------------
(* Who is at a note, when another request is there too or at a return of   *)
(* it, finds it contended; a request has the note it makes for itself.     *)
LEMMA Apart ==
  ASSUME NotesInv, NEW r \in Req, stage[r] \in Busy, NEW q \in Req, stage[q] \in Busy, q # r,
         job[q].note \notin contended
  PROVE  /\ job[q].note # r /\ job[q].note \in Id /\ job[q].note \notin Touched(job[r].note)
         /\ job[r].note # job[q].note
<1> USE NotesAssumption
<1>1. \A p \in Req : stage[p] \in Busy => job[p].note = p \/ job[p].note \in Existing
  BY DEF NotesInv, Typed, JobTyped
<1>2. r \notin Existing /\ Req \subseteq Id /\ Existing \subseteq Id
  BY DEF NotesInv, NotMade, Busy, Existing, Id
<1>3. job[q].note \in Id /\ job[q].note # r
  BY <1>1, <1>2
<1>4. job[q].note \in Touched(job[q].note) /\ job[q].note # None
  BY <1>3 DEF Touched
<1>5. job[q].note \notin Touched(job[r].note)
  BY <1>4 DEF NotesInv, Alone
<1>6. job[r].note # job[q].note
  BY <1>4, <1>5
<1> QED BY <1>3, <1>5, <1>6

(* A request that ends, and what it wrote to one note: its own or, if it   *)
(* returns goods, the return it makes.                                     *)
LEMMA Writes ==
  ASSUME NotesInv, NEW r \in Req, stage[r] \in Busy, Finish(r, "done"),
         NEW x \in Id, x = job[r].note \/ (x = r /\ job[r].kind = "return"),
         note' \in [Id -> Note \cup {None}], lines' \in [Id -> SUBSET Line], IsFiniteSet(lines'[x]),
         posted' \in [Id -> Int], payments' \in [Id -> Nat], stock' \in Nat,
         \A n \in Id \ {x} : /\ note'[n] = note[n] /\ lines'[n] = lines[n]
                             /\ posted'[n] = posted[n] /\ payments'[n] = payments[n],
         note'[x] # None,
         x \in Existing => note'[x].type = note[x].type /\ note'[x].of = note[x].of,
         x \notin Existing => x = r /\ note'[x].of = IF job[r].kind = "return" THEN job[r].note
                                                     ELSE None,
         note'[x].signed \/ posted'[x] = 0, note'[x].paid = payments'[x],
         x \in contended \/ \A l, m \in lines'[x] : l.key[1] = m.key[1],
         stock' - stock = posted'[x] - posted[x]
  PROVE  NotesInv'
<1> USE NotesAssumption
<1>1. /\ \A q \in Req : stage'[q] = IF q = r THEN "done" ELSE stage[q]
      /\ \A q \in Req : job'[q] = IF q = r THEN Idle ELSE job[q]
      /\ stage' \in [Req -> Stages] /\ DOMAIN job' = Req /\ contended' = contended
  BY DEF NotesInv, Typed, Finish, Stages
<1>2. Existing' = Existing \cup {x} /\ IsFiniteSet(Existing')
  <2>1. Existing' = Existing \cup {x}
    BY DEF Existing
  <2> QED BY <2>1, FS_AddElement DEF NotesInv, Typed
<1>3. Req \subseteq Id /\ r \notin Existing
  BY DEF Id, NotesInv, NotMade, Busy, Existing
<1>4. ASSUME NEW q \in Req PROVE JobTyped(q, job[q], stage[q])'
  <2>1. PICK i, t : i = job'[q] /\ t = stage'[q]
    OBVIOUS
  <2>2. JobTyped(q, i, t)'
    <3>1. CASE q = r
      <4>1. JobTyped(r, Idle, "done")
        BY IdleTyped DEF Stages, Busy
      <4> QED BY <1>1, <2>1, <3>1, <4>1 DEF JobTyped, Busy
    <3>2. CASE q # r
      <4>1. JobTyped(q, i, t)
        BY <1>1, <2>1, <3>2 DEF NotesInv, Typed
      <4> QED BY <1>2, <4>1 DEF JobTyped
    <3> QED BY <3>1, <3>2
  <2> QED BY <2>1, <2>2 DEF JobTyped
<1>5. Typed'
  <2>1. \A n \in Id : IsFiniteSet(lines'[n])
    BY DEF NotesInv, Typed
  <2> QED BY <1>1, <1>2, <1>4, <2>1 DEF Typed
<1>6. NotMade'
  BY <1>1, <1>3 DEF NotesInv, NotMade, Existing
<1>7. Unposted'
  <2>1. \A n \in Id : note'[n] = None => posted'[n] = 0 /\ payments'[n] = 0
    BY DEF NotesInv, Unposted
  <2>2. \A n \in Existing' : ~note'[n].signed => posted'[n] = 0
    BY <1>2 DEF NotesInv, Unposted, Existing
  <2> QED BY <2>1, <2>2 DEF Unposted
<1>8. ASSUME NEW q \in Req \ {r} PROVE Touched(job'[q].note) = Touched(job[q].note)
                                       /\ Touched(job[q].note)' = Touched(job[q].note)
  <2>1. PICK n : n = job[q].note /\ n = job'[q].note
    BY <1>1
  <2>2. n = None \/ n = q \/ n \in Existing
    BY <2>1 DEF NotesInv, Typed, JobTyped
  <2>3. n \in Existing' <=> n \in Existing
    BY <1>2, <1>3, <2>2 DEF Existing
  <2>4. n \in Existing => note'[n].of = note[n].of
    BY DEF Existing
  <2>5. Touched(n)' = Touched(n)
    BY <2>3, <2>4 DEF Touched
  <2>6. Touched(job[q].note)' = Touched(n)'
    BY <2>1 DEF Touched
  <2> QED BY <2>1, <2>5, <2>6
<1>9. Alone'
  <2>1. Touched(job[r].note)' = {}
    BY <1>1 DEF Touched, Idle, Existing
  <2>2. ASSUME NEW p \in Req, NEW q \in Req, p # q,
               NEW n \in Touched(job[p].note)' \cap Touched(job[q].note)'
        PROVE  n \in contended'
    <3>1. p # r /\ q # r
      BY <2>1, <2>2
    <3> QED BY <1>1, <1>8, <2>2, <3>1 DEF NotesInv, Alone
  <2> QED BY <2>2 DEF Alone
<1>10. DecidedOnWhatIs'
  <2>1. ASSUME NEW q \in Req \ {r}, stage[q] \in Busy, job[q].note \notin contended
        PROVE  StillSo(q, job[q].note)'
    <3>1. PICK n : n = job[q].note
      OBVIOUS
    <3>2. StillSo(q, n)
      BY <2>1, <3>1 DEF NotesInv, DecidedOnWhatIs
    <3>3. n \in Id /\ n # x /\ n \notin Touched(job[r].note)
      BY <2>1, <3>1, Apart
    <3>4. note'[n] = note[n] /\ lines'[n] = lines[n]
      BY <3>3
    <3>5. \A m \in Id : m \in ReturnsOf(n)' <=> m \in ReturnsOf(n) /\ m # x
      <4>1. x \in Existing => note[x].of # n
        BY <1>3, <3>3 DEF Touched
      <4>2. x \notin Existing => note'[x].of # n
        <5>1. job[r].kind = "return" => job[r].note # n
          BY <2>1, <3>1, Apart
        <5> QED BY <3>3, <5>1
      <4> QED BY <1>2, <4>1, <4>2 DEF ReturnsOf, Existing
    <3>6. ReturnsOf(n)' = ReturnsOf(n) /\ \A m \in ReturnsOf(n) : lines'[m] = lines[m]
      <4>1. x \notin ReturnsOf(n)
        BY <3>3, <1>3 DEF ReturnsOf, Touched
      <4>2. ReturnsOf(n) \subseteq Id /\ ReturnsOf(n)' \subseteq Id
        BY DEF ReturnsOf, Existing
      <4> QED BY <3>5, <4>1, <4>2
    <3>7. Returned(n)' = Returned(n)
      <4>1. [m \in ReturnsOf(n) |-> Total(lines[m])]' = [m \in ReturnsOf(n) |-> Total(lines[m])]
        BY <3>6
      <4> QED BY <4>1 DEF Returned
    <3>8. StillSo(q, n)'
      BY <1>1, <3>2, <3>4, <3>7 DEF StillSo
    <3> QED BY <1>1, <3>1, <3>8 DEF StillSo
  <2>2. stage'[r] \notin Busy
    BY <1>1 DEF Busy
  <2> QED BY <1>1, <2>1, <2>2 DEF DecidedOnWhatIs
<1>11. LinesOfOneEdit'
  BY <1>1, <1>2 DEF NotesInv, LinesOfOneEdit, Existing
<1>12. StockIsPosted'
  <2>1. PICK base : base = Stock0 - SumFunction([n \in Seed |-> IF Note0[n].signed
                              THEN StockEffect(Note0[n].type, Lines0[n]) ELSE 0])
    OBVIOUS
  <2>2. stock - SumFunctionOnSet(posted, Existing) = base
    BY <2>1 DEF NotesInv, StockIsPosted
  <2> PICK f, g, E : f = posted /\ g = posted' /\ E = Existing
    OBVIOUS
  <2>3. /\ IsFiniteSet(E) /\ E \subseteq Id /\ f \in [Id -> Int] /\ g \in [Id -> Int]
        /\ \A n \in Id \ {x} : f[n] = g[n]
    BY DEF NotesInv, Typed, Existing
  <2>4. /\ SumFunctionOnSet(f, E) \in Int
        /\ SumFunctionOnSet(g, E \cup {x}) = SumFunctionOnSet(f, E) + (g[x] - f[x])
    <3>1. \A n \in E : f[n] \in Int /\ g[n] \in Int
      BY <2>3
    <3>2. CASE x \in E
      <4>1. E \cup {x} = E /\ \A n \in E \ {x} : f[n] = g[n]
        BY <2>3, <3>2
      <4>2. SumFunctionOnSet(g, E) = SumFunctionOnSet(f, E) + (g[x] - f[x])
        BY <2>3, <3>1, <3>2, <4>1, SumChanges
      <4> QED BY <2>3, <3>1, <4>1, <4>2, SumIsInt
    <3>3. CASE x \notin E
      <4>1. f[x] = 0 /\ g[x] \in Int /\ \A n \in E : f[n] \in Int /\ f[n] = g[n]
        BY <2>3, <3>1, <3>3 DEF Existing, NotesInv, Unposted
      <4>2. SumFunctionOnSet(f, E) = SumFunctionOnSet(g, E)
        BY <2>3, <4>1, SumOfSame
      <4>3. /\ SumFunctionOnSet(g, E) \in Int
            /\ SumFunctionOnSet(g, E \cup {x}) = SumFunctionOnSet(g, E) + g[x]
        <5>1. IsFiniteSet(E) /\ x \notin E /\ g[x] \in Int /\ \A n \in E : g[n] \in Int
          BY <2>3, <3>1, <3>3, <4>1
        <5> QED BY ONLY <5>1, SumGrows
      <4> QED BY <4>1, <4>2, <4>3
    <3> QED BY <3>2, <3>3
  <2>5. stock \in Nat
    BY DEF NotesInv, Typed
  <2>6. stock' - SumFunctionOnSet(posted, Existing)' = base
    <3>1. SumFunctionOnSet(posted, Existing)' = SumFunctionOnSet(g, E \cup {x})
      BY <1>2
    <3>2. stock - SumFunctionOnSet(f, E) = base /\ stock' - stock = g[x] - f[x]
          /\ g[x] \in Int /\ f[x] \in Int
      BY <2>2, <2>3
    <3> QED BY <2>4, <2>5, <3>1, <3>2
  <2>7. \A n \in Existing' : note'[n].paid = payments'[n]
    BY <1>2 DEF NotesInv, StockIsPosted, Existing
  <2>8. stock' >= 0
    OBVIOUS
  <2> QED BY <2>1, <2>6, <2>7, <2>8 DEF StockIsPosted
<1> QED BY <1>5, <1>6, <1>7, <1>9, <1>10, <1>11, <1>12 DEF NotesInv

-----------------------------------------------------------------------------
(* A request about to write, and what it knows of its note.                *)
LEMMA AtNote ==
  ASSUME NotesInv, NEW r \in Req, stage[r] = "write", job[r].kind # "create"
  PROVE  /\ stage[r] \in Busy /\ job[r].note \in Existing /\ job[r].note \in Id
         /\ note[job[r].note] \in Note /\ job[r].seen \in Note
         /\ job[r].items \in SUBSET Line /\ IsFiniteSet(job[r].items) /\ job[r].back \in Int
         /\ job[r].kind = "return" => job[r].last \in [Types -> Nat]
         /\ job[r].note \notin contended =>
              /\ job[r].seen = note[job[r].note]
              /\ HasRead(job[r].kind, "write") => job[r].items = lines[job[r].note]
              /\ job[r].kind = "return" => job[r].back = Returned(job[r].note)
<1>1. stage[r] \in Busy /\ JobTyped(r, job[r], stage[r])
  BY DEF NotesInv, Typed, Busy
<1>2. job[r].note \in Existing /\ job[r].note \in Id /\ note[job[r].note] \in Note
  BY <1>1 DEF JobTyped, NotesInv, Typed, Existing
<1>3. job[r].note \notin contended => StillSo(r, job[r].note)
  BY <1>1 DEF NotesInv, DecidedOnWhatIs
<1> QED BY <1>1, <1>2, <1>3 DEF JobTyped, StillSo

LEMMA AtOwnNote ==
  ASSUME NotesInv, NEW r \in Req, stage[r] = "write"
  PROVE  /\ stage[r] \in Busy /\ r \in Id /\ r \notin Existing /\ posted[r] = 0 /\ payments[r] = 0
         /\ job[r].kind = "create" => job[r].note = r /\ job[r].last \in [Types -> Nat]
BY DEF NotesInv, Typed, JobTyped, NotMade, Unposted, Busy, Id, Existing

LEMMA DerivedStatus ==
  ASSUME NEW ls, NEW s \in Statuses PROVE StatusFromLines(ls, s) \in Statuses
BY DEF StatusFromLines, Statuses

(* An edit of the status leaves the rest of the row, and the other rows.   *)
LEMMA StatusSet ==
  ASSUME NotesInv, NEW n \in Existing, NEW s \in Statuses,
         note' = note \/ note' = [note EXCEPT ![n].status = s]
  PROVE  /\ note' \in [Id -> Note \cup {None}] /\ note'[n] # None
         /\ note'[n].type = note[n].type /\ note'[n].of = note[n].of
         /\ note'[n].signed = note[n].signed /\ note'[n].paid = note[n].paid
         /\ \A m \in Id \ {n} : note'[m] = note[m]
         /\ \A m \in Id : note[m] = None <=> note'[m] = None
         /\ \A m \in Existing : note'[m].signed = note[m].signed
<1>1. note \in [Id -> Note \cup {None}] /\ n \in Id /\ note[n] \in Note /\ None \notin Note
  BY NotesAssumption DEF NotesInv, Typed, Existing
<1> PICK row : row = [note[n] EXCEPT !.status = s]
  OBVIOUS
<1>2. /\ row \in Note /\ row.type = note[n].type /\ row.of = note[n].of
      /\ row.signed = note[n].signed /\ row.paid = note[n].paid
  BY <1>1 DEF Note
<1>3. note' = note \/ note' = [note EXCEPT ![n] = row]
  OBVIOUS
<1> QED BY <1>1, <1>2, <1>3 DEF Existing

(* An edit of a note and its lines, which posts and pays nothing.          *)
LEMMA EditNotes ==
  ASSUME NotesInv, NEW r \in Req, stage[r] = "write", job[r].kind # "create",
         Finish(r, "done"), UNCHANGED <<posted, payments, stock>>, NEW s \in Statuses,
         note' = note \/ note' = [note EXCEPT ![job[r].note].status = s],
         NEW ls \in SUBSET Line, IsFiniteSet(ls), lines' = [lines EXCEPT ![job[r].note] = ls],
         job[r].note \in contended \/ \A l, m \in ls : l.key[1] = m.key[1]
  PROVE  NotesInv'
<1> PICK n : n = job[r].note
  OBVIOUS
<1>1. n \in Existing /\ n \in Id /\ stage[r] \in Busy
  BY AtNote
<1>2. /\ note' \in [Id -> Note \cup {None}] /\ note'[n] # None
      /\ note'[n].type = note[n].type /\ note'[n].of = note[n].of
      /\ note'[n].signed = note[n].signed /\ note'[n].paid = note[n].paid
      /\ \A m \in Id \ {n} : note'[m] = note[m]
  BY <1>1, StatusSet
<1>3. /\ lines' \in [Id -> SUBSET Line] /\ lines'[n] = ls
      /\ \A m \in Id \ {n} : lines'[m] = lines[m]
  BY <1>1 DEF NotesInv, Typed
<1>4. posted' \in [Id -> Int] /\ payments' \in [Id -> Nat] /\ stock' \in Nat
  BY DEF NotesInv, Typed
<1>5. (note'[n].signed \/ posted'[n] = 0) /\ note'[n].paid = payments'[n]
  BY <1>1, <1>2 DEF NotesInv, Unposted, StockIsPosted
<1>6. stock' - stock = posted'[n] - posted[n]
  BY <1>1, <1>4
<1>7. /\ \A m \in Id \ {n} : /\ note'[m] = note[m] /\ lines'[m] = lines[m]
                             /\ posted'[m] = posted[m] /\ payments'[m] = payments[m]
      /\ IsFiniteSet(lines'[n])
      /\ n \in contended \/ \A l, m \in lines'[n] : l.key[1] = m.key[1]
  BY <1>2, <1>3
<1>8. n = job[r].note /\ Finish(r, "done")
  OBVIOUS
<1> QED BY ONLY NotesInv, r \in Req, <1>1, <1>2, <1>3, <1>4, <1>5, <1>6, <1>7, <1>8, Writes

LEMMA NewLineTyped ==
  ASSUME NEW r \in Req, NEW shape \in Shapes
  PROVE  {NewLine(r, shape)} \in SUBSET Line /\ IsFiniteSet({NewLine(r, shape)})
<1>1. shape \in Nat \X Nat /\ r \in Id
  BY BodiesAssumption DEF Id
<1>2. shape[1] \in Nat /\ shape[2] \in Nat /\ <<r, 1>> \in Id \X Nat
  BY <1>1
<1>3. NewLine(r, shape) \in Line
  BY <1>2 DEF NewLine, Line
<1> QED BY <1>3, FS_Singleton

LEMMA UpdateNotes == ASSUME NotesInv, NEW r \in Req, Update(r) PROVE NotesInv'
<1> PICK n : n = job[r].note
  OBVIOUS
<1>1. PICK shape \in Shapes :
        /\ lines' = [lines EXCEPT ![n] = {l \in @ : l.key \notin {i.key : i \in job[r].items}}
                                          \cup {NewLine(r, shape)}]
        /\ SetStatusIfChanged(r, StatusFromLines({NewLine(r, shape)}, job[r].seen.status))
  BY DEF Update
<1>2. /\ stage[r] = "write" /\ job[r].kind = "update" /\ Finish(r, "done")
      /\ UNCHANGED <<posted, payments, stock>>
  BY DEF Update, Writing
<1>3. /\ n \in Id /\ job[r].seen \in Note
      /\ n \notin contended => job[r].items = lines[n]
      /\ lines[n] \in SUBSET Line /\ IsFiniteSet(lines[n]) /\ lines \in [Id -> SUBSET Line]
  BY <1>2, AtNote DEF HasRead, NotesInv, Typed
<1>4. PICK new, kept, ls :
        /\ new = {NewLine(r, shape)} /\ ls = kept \cup new
        /\ kept = {l \in lines[n] : l.key \notin {i.key : i \in job[r].items}}
  OBVIOUS
<1>5. ls \in SUBSET Line /\ IsFiniteSet(ls)
  <2>1. new \in SUBSET Line /\ IsFiniteSet(new) /\ IsFiniteSet(kept)
    BY <1>3, <1>4, NewLineTyped, FS_Subset
  <2> QED BY <1>3, <1>4, <2>1, FS_Union
<1>6. n \in contended \/ \A l, m \in ls : l.key[1] = m.key[1]
  <2>1. ASSUME n \notin contended PROVE kept = {}
    <3>1. kept = {l \in lines[n] : l.key \notin {i.key : i \in lines[n]}}
      BY <1>3, <1>4, <2>1
    <3> QED BY <3>1
  <2> QED BY <1>4, <2>1
<1>7. lines' = [lines EXCEPT ![n] = ls]
  BY <1>1, <1>3, <1>4
<1>8. PICK s : s = StatusFromLines(new, job[r].seen.status)
  OBVIOUS
<1>9. job[r].seen.status \in Statuses
  BY <1>3 DEF Note
<1>10. s \in Statuses
  BY <1>8, <1>9, DerivedStatus
<1>11. note' = note \/ note' = [note EXCEPT ![n].status = s]
  BY <1>1, <1>4, <1>8 DEF SetStatusIfChanged
<1> QED BY <1>2, <1>5, <1>6, <1>7, <1>10, <1>11, EditNotes

LEMMA StatusNotes == ASSUME NotesInv, NEW r \in Req, Cancel(r) \/ SetStatus(r) PROVE NotesInv'
<1> PICK n : n = job[r].note
  OBVIOUS
<1>1. /\ stage[r] = "write" /\ job[r].kind \in {"cancel", "status"} /\ Finish(r, "done")
      /\ UNCHANGED <<lines, posted, payments, stock>>
  BY DEF Cancel, SetStatus, Writing
<1>2. PICK s \in Statuses : note' = [note EXCEPT ![n].status = s]
  BY DEF Cancel, SetStatus, Statuses
<1>3. n \in Existing /\ n \in Id /\ lines[n] \in SUBSET Line /\ IsFiniteSet(lines[n])
  BY <1>1, AtNote DEF NotesInv, Typed
<1>4. lines' = [lines EXCEPT ![n] = lines[n]]
  BY <1>1, <1>3 DEF NotesInv, Typed
<1>5. n \in contended \/ \A l, m \in lines[n] : l.key[1] = m.key[1]
  BY <1>3 DEF NotesInv, LinesOfOneEdit
<1> QED BY <1>1, <1>2, <1>3, <1>4, <1>5, EditNotes

LEMMA SentNotes == ASSUME NotesInv, NEW r \in Req, UpdateLineSent(r) PROVE NotesInv'
<1> PICK n : n = job[r].note
  OBVIOUS
<1> DEFINE With(ls, key, q) == {IF l.key = key THEN [l EXCEPT !.sent = q] ELSE l : l \in ls}
<1>1. /\ stage[r] = "write" /\ job[r].kind = "sent" /\ Finish(r, "done")
      /\ UNCHANGED <<posted, payments, stock>>
  BY DEF UpdateLineSent, Writing
<1>2. PICK i \in job[r].items, q \in Quantities :
        /\ lines' = [lines EXCEPT ![n] = With(@, i.key, q)]
        /\ SetStatusIfChanged(r, StatusFromLines(With(job[r].items, i.key, q),
                                                job[r].seen.status))
  BY <1>1 DEF UpdateLineSent
<1> PICK key, s : key = i.key
                  /\ s = StatusFromLines(With(job[r].items, key, q), job[r].seen.status)
  OBVIOUS
<1>3. /\ n \in Existing /\ n \in Id /\ job[r].seen \in Note /\ lines[n] \in SUBSET Line
      /\ IsFiniteSet(lines[n]) /\ lines \in [Id -> SUBSET Line]
  BY <1>1, AtNote DEF NotesInv, Typed
<1> PICK ls : ls = With(lines[n], key, q)
  OBVIOUS
<1>4. \A l \in Line : /\ [l EXCEPT !.sent = q] \in Line
                      /\ [l EXCEPT !.sent = q].key = l.key
  BY BodiesAssumption DEF Line
<1>5. ls \in SUBSET Line /\ \A l \in ls : \E m \in lines[n] : l.key = m.key
  <2>1. \A l \in ls : \E m \in lines[n] : l = m \/ l = [m EXCEPT !.sent = q]
    OBVIOUS
  <2>2. lines[n] \subseteq Line
    BY <1>3
  <2> QED BY ONLY <1>4, <2>1, <2>2
<1>6. IsFiniteSet(ls)
  <2> PICK f : f = [l \in lines[n] |-> IF l.key = key THEN [l EXCEPT !.sent = q] ELSE l]
    OBVIOUS
  <2>1. ls = {f[l] : l \in lines[n]}
    OBVIOUS
  <2>2. IsFiniteSet({f[l] : l \in lines[n]})
    BY ONLY <1>3, ImageFinite
  <2> QED BY <2>1, <2>2
<1>7. n \in contended \/ \A l, m \in ls : l.key[1] = m.key[1]
  BY <1>3, <1>5 DEF NotesInv, LinesOfOneEdit
<1>8. lines' = [lines EXCEPT ![n] = ls]
  BY <1>2, <1>3
<1>9. /\ s \in Statuses
      /\ note' = note \/ note' = [note EXCEPT ![n].status = s]
  BY <1>2, <1>3, DerivedStatus DEF SetStatusIfChanged, Note
<1> QED BY <1>1, <1>5, <1>6, <1>7, <1>8, <1>9, EditNotes

LEMMA SignNotes == ASSUME NotesInv, NEW r \in Req, Sign(r) PROVE NotesInv'
<1> PICK n : n = job[r].note
  OBVIOUS
<1>1. /\ stage[r] = "write" /\ job[r].kind = "sign" /\ Finish(r, "done")
      /\ UNCHANGED <<lines, payments>>
  BY DEF Sign, Writing
<1>2. /\ n \in Existing /\ n \in Id /\ note[n] \in Note /\ SignedFor(r) \in Int /\ stage[r] \in Busy
      /\ lines \in [Id -> SUBSET Line] /\ IsFiniteSet(lines[n])
      /\ note \in [Id -> Note \cup {None}] /\ posted \in [Id -> Int] /\ stock \in Nat
      /\ payments \in [Id -> Nat]
  BY <1>1, AtNote, EffectInt DEF NotesInv, Typed, SignedFor
<1>3. CASE NoOp(r)
  <2>1. UNCHANGED database /\ stage[r] \notin {"done", "failed"}
    BY <1>1, <1>3 DEF Sign, database
  <2> QED BY <1>1, <2>1, EndsIdle
<1>4. CASE ~NoOp(r)
  <2> PICK d, row : d = SignedFor(r) /\ row = [note[n] EXCEPT !.signed = TRUE]
    OBVIOUS
  <2>1. /\ stock + d >= 0 /\ stock' = stock + d /\ posted' = [posted EXCEPT ![n] = posted[n] + d]
        /\ note' = [note EXCEPT ![n] = row]
    BY <1>2, <1>4 DEF Sign, PostStock
  <2>2. /\ row \in Note /\ row.signed /\ row.type = note[n].type /\ row.of = note[n].of
        /\ row.paid = note[n].paid /\ None \notin Note
    BY <1>2, NotesAssumption DEF Note
  <2>3. /\ note' \in [Id -> Note \cup {None}] /\ note'[n] = row
        /\ \A m \in Id \ {n} : note'[m] = note[m]
    BY <1>2, <2>1, <2>2
  <2>4. d \in Int /\ posted[n] \in Int
    BY <1>2
  <2>5. posted' \in [Id -> Int] /\ \A m \in Id \ {n} : posted'[m] = posted[m]
    BY <1>2, <2>1, <2>4
  <2>6. posted'[n] = posted[n] + d
    BY <1>2, <2>1
  <2>7. stock' \in Nat /\ stock' - stock = posted'[n] - posted[n]
    BY <1>2, <2>1, <2>4, <2>6
  <2>8. /\ note[n].paid = payments[n]
        /\ n \in contended \/ \A l, m \in lines'[n] : l.key[1] = m.key[1]
        /\ lines' \in [Id -> SUBSET Line] /\ IsFiniteSet(lines'[n]) /\ payments' \in [Id -> Nat]
    BY <1>1, <1>2 DEF NotesInv, StockIsPosted, LinesOfOneEdit
  <2>9. /\ note'[n] # None /\ note'[n].type = note[n].type /\ note'[n].of = note[n].of
        /\ note'[n].signed /\ note'[n].paid = payments'[n]
        /\ \A m \in Id \ {n} : /\ note'[m] = note[m] /\ lines'[m] = lines[m]
                               /\ posted'[m] = posted[m] /\ payments'[m] = payments[m]
    <3>1. lines' = lines /\ payments' = payments
      BY <1>1
    <3> QED BY ONLY <2>2, <2>3, <2>5, <2>8, <3>1
  <2> QED BY <1>1, <1>2, <2>3, <2>5, <2>7, <2>8, <2>9, Writes
<1> QED BY <1>3, <1>4

LEMMA PaymentNotes == ASSUME NotesInv, NEW r \in Req, AddPayment(r) PROVE NotesInv'
<1> PICK n : n = job[r].note
  OBVIOUS
<1>1. /\ stage[r] = "write" /\ job[r].kind = "pay" /\ Finish(r, "done")
      /\ UNCHANGED <<lines, posted, stock>>
  BY DEF AddPayment, Writing
<1>2. PICK a \in Amounts : /\ payments' = [payments EXCEPT ![n] = @ + a]
                           /\ note' = [note EXCEPT ![n].paid = note[n].paid + a]
  BY DEF AddPayment, PaidAfter
<1>3. /\ n \in Existing /\ n \in Id /\ note[n] \in Note /\ stage[r] \in Busy /\ a \in Nat
      /\ lines \in [Id -> SUBSET Line] /\ IsFiniteSet(lines[n])
      /\ note \in [Id -> Note \cup {None}] /\ posted \in [Id -> Int] /\ stock \in Nat
      /\ payments \in [Id -> Nat]
  BY <1>1, AtNote, BodiesAssumption DEF NotesInv, Typed
<1> PICK row : row = [note[n] EXCEPT !.paid = note[n].paid + a]
  OBVIOUS
<1>4. /\ row \in Note /\ row.signed = note[n].signed /\ row.type = note[n].type
      /\ row.of = note[n].of /\ row.paid = note[n].paid + a /\ None \notin Note
  BY <1>3, NotesAssumption DEF Note
<1>5. /\ note' = [note EXCEPT ![n] = row] /\ note' \in [Id -> Note \cup {None}] /\ note'[n] = row
      /\ payments' \in [Id -> Nat] /\ payments'[n] = payments[n] + a
      /\ \A m \in Id \ {n} : note'[m] = note[m] /\ payments'[m] = payments[m]
  BY <1>2, <1>3, <1>4
<1>6. /\ note[n].paid = payments[n] /\ (note[n].signed \/ posted[n] = 0)
      /\ n \in contended \/ \A l, m \in lines'[n] : l.key[1] = m.key[1]
      /\ lines' \in [Id -> SUBSET Line] /\ IsFiniteSet(lines'[n])
  BY <1>1, <1>3 DEF NotesInv, StockIsPosted, LinesOfOneEdit, Unposted
<1>7. stock' - stock = posted'[n] - posted[n] /\ stock' \in Nat /\ posted' \in [Id -> Int]
  BY <1>1, <1>3
<1>8. /\ note'[n] # None /\ note'[n].type = note[n].type /\ note'[n].of = note[n].of
      /\ (note'[n].signed \/ posted'[n] = 0) /\ note'[n].paid = payments'[n]
      /\ \A m \in Id \ {n} : /\ note'[m] = note[m] /\ lines'[m] = lines[m]
                             /\ posted'[m] = posted[m] /\ payments'[m] = payments[m]
  <2>1. lines' = lines /\ posted' = posted
    BY <1>1
  <2> QED BY ONLY <1>4, <1>5, <1>6, <2>1
<1>9. note' \in [Id -> Note \cup {None}] /\ payments' \in [Id -> Nat]
  BY <1>5
<1>10. Finish(r, "done") /\ n \in Existing /\ n \in Id /\ stage[r] \in Busy
  BY <1>1, <1>3
<1> QED BY <1>6, <1>7, <1>8, <1>9, <1>10, Writes

(* The row a request inserts is its own, and there was none.               *)
LEMMA InsertNotes ==
  ASSUME NotesInv, NEW r \in Req, stage[r] = "write", job[r].kind \in {"create", "return"},
         Finish(r, "done"), NEW type \in Types, NEW status \in Statuses, NEW signed \in BOOLEAN,
         NEW of, of = IF job[r].kind = "return" THEN job[r].note ELSE None,
         NEW ls \in SUBSET Line, IsFiniteSet(ls), \A l, m \in ls : l.key[1] = m.key[1],
         Insert(r, type, status, signed, of, ls), UNCHANGED payments, posted' \in [Id -> Int],
         stock' \in Nat, \A n \in Id \ {r} : posted'[n] = posted[n],
         signed \/ posted'[r] = 0, stock' - stock = posted'[r]
  PROVE  NotesInv'
<1>1. /\ stage[r] \in Busy /\ r \in Id /\ r \notin Existing /\ posted[r] = 0 /\ payments[r] = 0
      /\ job[r].kind = "create" => job[r].note = r
      /\ job[r].kind = "return" => job[r].note \in Id
      /\ job[r].last \in [Types -> Nat]
  BY AtOwnNote, AtNote
<1> PICK row : row = [type |-> type, status |-> status, signed |-> signed, paid |-> 0, of |-> of,
                      number |-> job[r].last[type] + 1]
  OBVIOUS
<1>2. /\ row \in Note /\ row.signed = signed /\ row.paid = 0 /\ row.of = of /\ None \notin Note
  BY <1>1, NotesAssumption DEF Note
<1>3. /\ note \in [Id -> Note \cup {None}] /\ lines \in [Id -> SUBSET Line]
      /\ payments \in [Id -> Nat]
  BY DEF NotesInv, Typed
<1>4. note' = [note EXCEPT ![r] = row] /\ lines' = [lines EXCEPT ![r] = ls]
  BY DEF Insert
<1>5. /\ note' \in [Id -> Note \cup {None}] /\ note'[r] = row /\ lines' \in [Id -> SUBSET Line]
      /\ lines'[r] = ls /\ payments' \in [Id -> Nat] /\ payments'[r] = 0
      /\ \A n \in Id \ {r} : note'[n] = note[n] /\ lines'[n] = lines[n]
  BY <1>1, <1>2, <1>3, <1>4
<1>6. stock' - stock = posted'[r] - posted[r]
  BY <1>1
<1>7. /\ note'[r] # None /\ note'[r].of = IF job[r].kind = "return" THEN job[r].note ELSE None
      /\ (note'[r].signed \/ posted'[r] = 0) /\ note'[r].paid = payments'[r]
      /\ \A n \in Id \ {r} : /\ note'[n] = note[n] /\ lines'[n] = lines[n]
                             /\ posted'[n] = posted[n] /\ payments'[n] = payments[n]
      /\ IsFiniteSet(lines'[r]) /\ \A l, m \in lines'[r] : l.key[1] = m.key[1]
  BY <1>2, <1>5
<1> QED BY <1>1, <1>5, <1>6, <1>7, Writes

LEMMA CreateNotes == ASSUME NotesInv, NEW r \in Req, Create(r) PROVE NotesInv'
<1>1. PICK type \in Types \ {"retour"}, fallback \in Statuses, shape \in Shapes :
        Insert(r, type, StatusFromLines({NewLine(r, shape)}, fallback), FALSE, None,
               {NewLine(r, shape)})
  BY DEF Create
<1>2. /\ stage[r] = "write" /\ job[r].kind = "create" /\ Finish(r, "done")
      /\ UNCHANGED <<posted, payments, stock>>
  BY DEF Create, Writing
<1> PICK ls, s : ls = {NewLine(r, shape)} /\ s = StatusFromLines(ls, fallback)
  OBVIOUS
<1>3. ls \in SUBSET Line /\ IsFiniteSet(ls) /\ s \in Statuses
  BY NewLineTyped, DerivedStatus
<1>4. posted[r] = 0 /\ posted \in [Id -> Int] /\ stock \in Nat
  BY <1>2, AtOwnNote DEF NotesInv, Typed
<1>5. /\ posted' \in [Id -> Int] /\ stock' \in Nat /\ \A n \in Id \ {r} : posted'[n] = posted[n]
      /\ posted'[r] = 0 /\ stock' - stock = posted'[r]
  BY <1>2, <1>4
<1>6. Insert(r, type, s, FALSE, None, ls) /\ \A l, m \in ls : l.key[1] = m.key[1]
  BY <1>1
<1> QED BY <1>2, <1>3, <1>5, <1>6, InsertNotes

(* The return that is made, and what is known of the note it returns.      *)
ReturnedBy(r, ls) ==
  /\ ls \in SUBSET Line /\ IsFiniteSet(ls) /\ ls # {} /\ \A l \in ls : l.key[1] = r
  /\ \A l \in ls : \E i \in job[r].items : l.sent =< i.sent - job[r].back
  /\ Insert(r, "retour", "delivered", TRUE, job[r].note, ls)
  /\ Restock(r, ls)

LEMMA ReturnStep ==
  ASSUME NotesInv, NEW r \in Req, CreateReturn(r)
  PROVE  /\ stage[r] = "write" /\ job[r].kind = "return" /\ Finish(r, "done")
         /\ UNCHANGED payments /\ \E ls : ReturnedBy(r, ls)
<1>1. /\ stage[r] = "write" /\ job[r].kind = "return" /\ Finish(r, "done") /\ UNCHANGED payments
  BY DEF CreateReturn, Writing
<1>2. PICK k \in 1..MaxReturnLines : \E ask \in [1..k -> job[r].items \X (Quantities \ {0})] :
        LET ls == {[key |-> <<r, i>>, ordered |-> ask[i][2], sent |-> ask[i][2]] : i \in 1..k}
        IN  /\ \A i \in 1..k : ask[i][2] =< ask[i][1].sent - job[r].back
            /\ Insert(r, "retour", "delivered", TRUE, job[r].note, ls)
            /\ Restock(r, ls)
  BY DEF CreateReturn
<1>3. PICK ask \in [1..k -> job[r].items \X (Quantities \ {0})] :
        LET ls == {[key |-> <<r, i>>, ordered |-> ask[i][2], sent |-> ask[i][2]] : i \in 1..k}
        IN  /\ \A i \in 1..k : ask[i][2] =< ask[i][1].sent - job[r].back
            /\ Insert(r, "retour", "delivered", TRUE, job[r].note, ls)
            /\ Restock(r, ls)
  BY <1>2
<1> PICK f : f = [i \in 1..k |-> [key |-> <<r, i>>, ordered |-> ask[i][2], sent |-> ask[i][2]]]
  OBVIOUS
<1> PICK ls : ls = {f[i] : i \in 1..k}
  OBVIOUS
<1>4. ls = {[key |-> <<r, i>>, ordered |-> ask[i][2], sent |-> ask[i][2]] : i \in 1..k}
  OBVIOUS
<1>5. k \in Nat /\ k >= 1 /\ 1 \in 1..k /\ IsFiniteSet(1..k)
  BY BodiesAssumption, FS_Interval
<1>6. ASSUME NEW i \in 1..k
      PROVE  /\ ask[i][1] \in job[r].items /\ ask[i][2] \in Nat /\ f[i].key = <<r, i>>
             /\ f[i].sent = ask[i][2] /\ f[i] \in Line
             /\ ask[i][2] =< ask[i][1].sent - job[r].back
  <2>1. ask[i] \in job[r].items \X (Quantities \ {0})
    OBVIOUS
  <2>2. ask[i][1] \in job[r].items /\ ask[i][2] \in Nat
    BY <2>1, BodiesAssumption
  <2>3. <<r, i>> \in Id \X Nat
    BY DEF Id
  <2> QED BY <1>3, <2>2, <2>3 DEF Line
<1>7. IsFiniteSet(ls)
  BY ONLY <1>5, ImageFinite, ls = {f[i] : i \in 1..k}
<1>8. /\ ls \in SUBSET Line /\ ls # {} /\ \A l \in ls : l.key[1] = r
      /\ \A l \in ls : \E i \in job[r].items : l.sent =< i.sent - job[r].back
  <2>1. \A i \in 1..k : f[i] \in Line /\ f[i].key[1] = r
    BY <1>6
  <2>2. \A i \in 1..k : \E j \in job[r].items : f[i].sent =< j.sent - job[r].back
    <3> TAKE i \in 1..k
    <3>1. ask[i][1] \in job[r].items /\ f[i].sent =< ask[i][1].sent - job[r].back
      BY <1>6
    <3> QED BY <3>1
  <2> QED BY <1>5, <2>1, <2>2
<1>9. ReturnedBy(r, ls)
  BY <1>3, <1>4, <1>7, <1>8 DEF ReturnedBy
<1> QED BY <1>1, <1>9

LEMMA ReturnNotes == ASSUME NotesInv, NEW r \in Req, CreateReturn(r) PROVE NotesInv'
<1>1. /\ stage[r] = "write" /\ job[r].kind = "return" /\ Finish(r, "done") /\ UNCHANGED payments
  BY ReturnStep
<1>2. PICK ls : ReturnedBy(r, ls)
  BY ReturnStep
<1>3. posted[r] = 0 /\ r \in Id /\ posted \in [Id -> Int] /\ stock \in Nat
  BY <1>1, AtOwnNote DEF NotesInv, Typed
<1> PICK d : d = StockEffect("retour", ls)
  OBVIOUS
<1>4. d \in Int /\ ls \in SUBSET Line /\ IsFiniteSet(ls) /\ \A l, m \in ls : l.key[1] = m.key[1]
  BY <1>2, EffectInt DEF ReturnedBy
<1>5. stock + d >= 0 /\ stock' = stock + d /\ posted' = [posted EXCEPT ![r] = @ + d]
  BY <1>2 DEF ReturnedBy, Restock, PostStock
<1>6. /\ posted' \in [Id -> Int] /\ stock' \in Nat /\ \A n \in Id \ {r} : posted'[n] = posted[n]
      /\ stock' - stock = posted'[r]
  BY <1>3, <1>4, <1>5
<1>7. Insert(r, "retour", "delivered", TRUE, job[r].note, ls)
  BY <1>2 DEF ReturnedBy
<1>8. "retour" \in Types /\ "delivered" \in Statuses /\ TRUE \in BOOLEAN
  BY DEF Types, Statuses
<1> QED BY <1>1, <1>4, <1>6, <1>7, <1>8, InsertNotes

LEMMA NextNotes == ASSUME NotesInv, [Next]_vars PROVE NotesInv'
<1>1. CASE UNCHANGED vars
  <2>1. UNCHANGED <<note, lines, posted, payments, stock, stage, job, contended>>
    BY <1>1 DEF vars, database
  <2>2. /\ Existing' = Existing /\ \A n : Touched(n)' = Touched(n)
        /\ \A n : Returned(n)' = Returned(n)
    BY <2>1, SameNotes
  <2>3. /\ Typed' /\ NotMade' /\ Unposted' /\ Alone' /\ LinesOfOneEdit' /\ StockIsPosted'
    BY <2>1, <2>2 DEF NotesInv, Typed, JobTyped, NotMade, Unposted, Alone, LinesOfOneEdit,
                      StockIsPosted
  <2>4. DecidedOnWhatIs'
    BY <2>1, <2>2 DEF NotesInv, DecidedOnWhatIs, StillSo
  <2> QED BY <2>3, <2>4 DEF NotesInv
<1>2. ASSUME NEW r \in Req, Fail(r) PROVE NotesInv'
  <2>1. stage[r] \notin {"done", "failed"} /\ UNCHANGED database /\ Finish(r, "failed")
    BY <1>2 DEF Fail
  <2> QED BY <2>1, EndsIdle
<1> QED BY <1>1, <1>2, BeginNotes, ReadNotes, CreateNotes, UpdateNotes, StatusNotes, SentNotes,
           SignNotes, PaymentNotes, ReturnNotes DEF Next, AllAnswered

LEMMA NotesHold == Spec => []NotesInv
<1>1. Init => NotesInv
  BY FirstNotes
<1>2. NotesInv /\ [Next]_vars => NotesInv'
  BY NextNotes
<1> QED BY <1>1, <1>2, PTL DEF Spec

-----------------------------------------------------------------------------
(* Whatever overlaps, the stock is what was signed for and is never below  *)
(* zero, and the balance a note carries is the sum of its payment rows.    *)
THEOREM PostedStock == Spec => []StockIsPosted
<1>1. NotesInv => StockIsPosted
  BY DEF NotesInv
<1> QED BY <1>1, NotesHold, PTL

(* The lines of a note that no two requests were at once come of one edit. *)
THEOREM OneEdit == Spec => []LinesOfOneEdit
<1>1. NotesInv => LinesOfOneEdit
  BY DEF NotesInv
<1> QED BY <1>1, NotesHold, PTL

-----------------------------------------------------------------------------
(* The steps that post stock, take a payment or make a note; the others    *)
(* leave what was signed, paid and made as it is.                          *)
Other ==
  /\ UNCHANGED <<posted, payments>>
  /\ \A n \in Id : note[n] = None <=> note'[n] = None
  /\ \A n \in Existing : note'[n].signed = note[n].signed

LEMMA StepKinds ==
  ASSUME NotesInv, [Next]_vars
  PROVE  \/ \E r \in Req : (Sign(r) /\ ~NoOp(r)) \/ AddPayment(r) \/ Create(r) \/ CreateReturn(r)
         \/ Other
<1>1. (UNCHANGED <<note, posted, payments>>) => Other
  BY DEF Other
<1>2. ASSUME NEW r \in Req, Update(r) \/ UpdateLineSent(r) PROVE Other
  <2>1. /\ stage[r] = "write" /\ job[r].kind # "create" /\ UNCHANGED <<posted, payments>>
    BY <1>2 DEF Update, UpdateLineSent, Writing
  <2>2. job[r].note \in Existing /\ job[r].seen \in Note
    BY <2>1, AtNote
  <2>3. PICK s \in Statuses : note' = note \/ note' = [note EXCEPT ![job[r].note].status = s]
    <3>1. \A ls : StatusFromLines(ls, job[r].seen.status) \in Statuses
      BY <2>2, DerivedStatus DEF Note
    <3> QED BY <1>2, <3>1 DEF Update, UpdateLineSent, SetStatusIfChanged
  <2> QED BY <2>1, <2>2, <2>3, StatusSet DEF Other
<1>3. ASSUME NEW r \in Req, Cancel(r) \/ SetStatus(r) PROVE Other
  <2>1. /\ stage[r] = "write" /\ job[r].kind # "create" /\ UNCHANGED <<posted, payments>>
    BY <1>3 DEF Cancel, SetStatus, Writing
  <2>2. job[r].note \in Existing
    BY <2>1, AtNote
  <2>3. PICK s \in Statuses : note' = [note EXCEPT ![job[r].note].status = s]
    BY <1>3 DEF Cancel, SetStatus, Statuses
  <2> QED BY <2>1, <2>2, <2>3, StatusSet DEF Other
<1>4. ASSUME NEW r \in Req, Sign(r), NoOp(r) PROVE UNCHANGED <<note, posted, payments>>
  BY <1>4 DEF Sign
<1>5. ASSUME NEW r \in Req,
             Begin(r) \/ ReadLines(r) \/ DeleteLines(r) \/ ReadReturned(r) \/ ReadNumber(r)
               \/ Fail(r)
      PROVE  UNCHANGED <<note, posted, payments>>
  BY <1>5 DEF Begin, ReadLines, DeleteLines, ReadReturned, ReadNumber, Fail, GoTo, database
<1>6. CASE UNCHANGED vars
  BY <1>1, <1>6 DEF vars, database
<1> QED BY <1>1, <1>2, <1>3, <1>4, <1>5, <1>6 DEF Next, AllAnswered

LEMMA SignStep ==
  ASSUME NotesInv, NEW r \in Req, Sign(r), ~NoOp(r)
  PROVE  /\ job[r].note \in Existing /\ UNCHANGED payments
         /\ \A n \in Id \ {job[r].note} : note'[n] = note[n] /\ posted'[n] = posted[n]
         /\ note'[job[r].note] # None
         /\ job[r].note \notin contended =>
              /\ ~note[job[r].note].signed
              /\ posted'[job[r].note] = StockEffect(note[job[r].note].type, lines[job[r].note])
<1> PICK n : n = job[r].note
  OBVIOUS
<1>1. stage[r] = "write" /\ job[r].kind = "sign" /\ UNCHANGED payments
  BY DEF Sign, Writing
<1>2. /\ n \in Existing /\ n \in Id /\ note[n] \in Note /\ SignedFor(r) \in Int
      /\ note \in [Id -> Note \cup {None}] /\ posted \in [Id -> Int] /\ None \notin Note
  BY <1>1, AtNote, EffectInt, NotesAssumption DEF NotesInv, Typed, SignedFor
<1>3. n \notin contended => job[r].seen = note[n] /\ job[r].items = lines[n]
  BY <1>1, AtNote DEF HasRead
<1>4. /\ posted' = [posted EXCEPT ![n] = @ + SignedFor(r)]
      /\ note' = [note EXCEPT ![n].signed = TRUE]
  BY DEF Sign, PostStock
<1>5. [note[n] EXCEPT !.signed = TRUE] \in Note
  BY <1>2 DEF Note
<1>6. /\ \A m \in Id \ {n} : note'[m] = note[m] /\ posted'[m] = posted[m]
      /\ note'[n] # None
  BY <1>2, <1>4, <1>5
<1>7. ASSUME n \notin contended
      PROVE  ~note[n].signed /\ posted'[n] = StockEffect(note[n].type, lines[n])
  <2>1. ~note[n].signed
    BY <1>3, <1>7 DEF NoOp
  <2>2. posted[n] = 0
    BY <1>2, <2>1 DEF NotesInv, Unposted
  <2>3. SignedFor(r) = StockEffect(note[n].type, lines[n])
    BY <1>3, <1>7 DEF SignedFor
  <2>4. posted'[n] = SignedFor(r)
    BY <1>2, <1>4, <2>2
  <2> QED BY <2>1, <2>3, <2>4
<1> QED BY <1>1, <1>2, <1>6, <1>7

LEMMA PaymentStep ==
  ASSUME NotesInv, NEW r \in Req, AddPayment(r)
  PROVE  /\ job[r].note \in Existing /\ UNCHANGED posted
         /\ \A n \in Id : note[n] = None <=> note'[n] = None
         /\ \A n \in Existing : note'[n].signed = note[n].signed
         /\ \A n \in Id \ {job[r].note} : payments'[n] = payments[n]
         /\ job[r].note \notin contended => payments'[job[r].note] =< Total(lines[job[r].note])
<1> PICK n : n = job[r].note
  OBVIOUS
<1>1. stage[r] = "write" /\ job[r].kind = "pay" /\ UNCHANGED posted
  BY DEF AddPayment, Writing
<1>2. PICK a \in Amounts : /\ a =< Total(job[r].items) - job[r].seen.paid
                           /\ payments' = [payments EXCEPT ![n] = @ + a]
                           /\ note' = [note EXCEPT ![n].paid = note[n].paid + a]
  BY DEF AddPayment, PaidAfter, Remaining
<1>3. /\ n \in Existing /\ n \in Id /\ note[n] \in Note /\ a \in Nat /\ note[n].paid \in Nat
      /\ note \in [Id -> Note \cup {None}] /\ payments \in [Id -> Nat] /\ None \notin Note
      /\ lines[n] \in SUBSET Line /\ IsFiniteSet(lines[n])
  BY <1>1, AtNote, NotesAssumption, BodiesAssumption DEF NotesInv, Typed, Note
<1>4. [note[n] EXCEPT !.paid = note[n].paid + a] \in Note
  BY <1>3 DEF Note
<1>5. \A m \in Id : note[m] = None <=> note'[m] = None
  BY <1>2, <1>3, <1>4 DEF Existing
<1>6. \A m \in Existing : note'[m].signed = note[m].signed
  BY <1>2, <1>3 DEF Note, Existing
<1>7. ASSUME n \notin contended PROVE payments'[n] =< Total(lines[n])
  <2>1. job[r].seen = note[n] /\ job[r].items = lines[n]
    BY <1>1, <1>7, AtNote DEF HasRead
  <2>2. note[n].paid = payments[n]
    BY <1>3 DEF NotesInv, StockIsPosted
  <2>3. payments'[n] = payments[n] + a /\ Total(lines[n]) \in Nat
    BY <1>2, <1>3, TotalNat
  <2> QED BY <1>2, <1>3, <2>1, <2>2, <2>3
<1> QED BY <1>1, <1>2, <1>3, <1>5, <1>6, <1>7

-----------------------------------------------------------------------------
LEMMA SigningOf ==
  ASSUME NotesInv, [Next]_vars
  PROVE  /\ \A n \in Existing \ contended :
              /\ posted'[n] # posted[n] => ~note[n].signed
              /\ note'[n].signed /\ ~note[n].signed
                   => posted'[n] = StockEffect(note[n].type, lines[n])
         /\ \A n \in Id : Appears(n) /\ note'[n].type = "retour"
              => note'[n].signed /\ posted'[n] = StockEffect("retour", lines'[n])
<1>1. CASE Other
  BY <1>1 DEF Other, Appears, Existing
<1>2. CASE \E r \in Req : Sign(r) /\ ~NoOp(r)
  <2>1. PICK r \in Req : Sign(r) /\ ~NoOp(r)
    BY <1>2
  <2>2. PICK n : n = job[r].note
    OBVIOUS
  <2>3. /\ n \in Existing /\ note'[n] # None
        /\ \A m \in Id \ {n} : note'[m] = note[m] /\ posted'[m] = posted[m]
        /\ n \notin contended =>
             ~note[n].signed /\ posted'[n] = StockEffect(note[n].type, lines[n])
    BY <2>1, <2>2, SignStep
  <2> QED BY <2>3 DEF Appears, Existing
<1>3. CASE \E r \in Req : AddPayment(r)
  <2>1. /\ UNCHANGED posted /\ \A n \in Id : note[n] = None <=> note'[n] = None
        /\ \A n \in Existing : note'[n].signed = note[n].signed
    BY <1>3, PaymentStep
  <2> QED BY <2>1 DEF Appears
<1>4. CASE \E r \in Req : Create(r)
  <2>1. PICK r \in Req : Create(r)
    BY <1>4
  <2>2. stage[r] = "write" /\ UNCHANGED posted
    BY <2>1 DEF Create, Writing
  <2>3. PICK type \in Types \ {"retour"} : \E s, ls : Insert(r, type, s, FALSE, None, ls)
    BY <2>1 DEF Create
  <2> PICK s, ls : Insert(r, type, s, FALSE, None, ls)
    BY <2>3
  <2>4. /\ r \notin Existing /\ note'[r].type # "retour"
        /\ \A n \in Id \ {r} : note'[n] = note[n]
    BY <2>2, AtOwnNote DEF Insert, NotesInv, Typed
  <2> QED BY <2>2, <2>4 DEF Appears, Existing
<1>5. CASE \E r \in Req : CreateReturn(r)
  <2>1. PICK r \in Req : CreateReturn(r)
    BY <1>5
  <2>2. stage[r] = "write"
    BY <2>1, ReturnStep
  <2>3. PICK ls : ReturnedBy(r, ls)
    BY <2>1, ReturnStep
  <2>4. Insert(r, "retour", "delivered", TRUE, job[r].note, ls) /\ "retour" \in Types
    BY <2>3 DEF ReturnedBy, Types
  <2>5. /\ r \notin Existing /\ note'[r].signed /\ lines'[r] = ls
        /\ \A n \in Id \ {r} : note'[n] = note[n]
    BY <2>2, <2>4, AtOwnNote DEF Insert, NotesInv, Typed
  <2>6. /\ \A n \in Id \ {r} : posted'[n] = posted[n]
        /\ posted'[r] = StockEffect("retour", ls)
    <3>1. posted' = [posted EXCEPT ![r] = @ + StockEffect("retour", ls)]
      BY <2>3 DEF ReturnedBy, Restock, PostStock
    <3>2. posted[r] = 0 /\ r \in Id /\ posted \in [Id -> Int]
      BY <2>2, AtOwnNote DEF NotesInv, Typed
    <3>3. StockEffect("retour", ls) \in Int
      BY <2>3, EffectInt DEF ReturnedBy
    <3> QED BY <3>1, <3>2, <3>3
  <2> QED BY <2>5, <2>6 DEF Appears, Existing
<1> QED BY <1>1, <1>2, <1>3, <1>4, <1>5, StepKinds

(* A note that no two requests were at once is signed once, and what that  *)
(* posts is what its lines say then; a return restocks when it appears.    *)
THEOREM SigningIsRight == Spec => SigningPostsTheLines
<1>1. NotesInv /\ [Next]_vars =>
        [/\ \A n \in Existing \ contended :
              /\ posted'[n] # posted[n] => ~note[n].signed
              /\ note'[n].signed /\ ~note[n].signed
                   => posted'[n] = StockEffect(note[n].type, lines[n])
         /\ \A n \in Id : Appears(n) /\ note'[n].type = "retour"
              => note'[n].signed /\ posted'[n] = StockEffect("retour", lines'[n])]_vars
  BY SigningOf
<1> QED BY <1>1, NotesHold, PTL DEF Spec, SigningPostsTheLines

(* A payment on a note that no two requests were at once stays within what *)
(* the note is worth.                                                      *)
THEOREM PaymentsWithinTotal == Spec => NoOverpayment
<1>1. ASSUME NotesInv, [Next]_vars, NEW n \in Existing \ contended, payments'[n] > payments[n]
      PROVE  payments'[n] =< Total(lines[n])
  <2>1. payments[n] \in Nat /\ n \in Id
    BY <1>1 DEF NotesInv, Typed, Existing
  <2>2. ~UNCHANGED payments
    BY <1>1, <2>1
  <2>3. PICK r \in Req : AddPayment(r)
    BY <1>1, <2>2, StepKinds, SignStep, ReturnStep DEF Other, Create
  <2>4. n = job[r].note
    BY <1>1, <2>1, <2>3, PaymentStep
  <2> QED BY <1>1, <2>3, <2>4, PaymentStep
<1>2. NotesInv /\ [Next]_vars =>
        [\A n \in Existing \ contended : payments'[n] > payments[n]
           => payments'[n] =< Total(lines[n])]_vars
  BY <1>1
<1> QED BY <1>2, NotesHold, PTL DEF Spec, NoOverpayment

LEMMA ReturnOf ==
  ASSUME NotesInv, [Next]_vars, NEW n \in Id, NEW b \in Existing \ contended,
         Appears(n), note'[n].type = "retour", note'[n].of = b, \A l, m \in lines'[n] : l = m
  PROVE  Returned(b)' =< Total(lines[b])
<1>1. PICK r \in Req : CreateReturn(r) /\ n = r
  <2>1. ~Other
    BY DEF Other, Appears
  <2>2. ~\E r \in Req : (Sign(r) /\ ~NoOp(r)) \/ AddPayment(r)
    BY SignStep, PaymentStep DEF Appears, Existing
  <2>3. ASSUME NEW r \in Req, Create(r) PROVE FALSE
    <3>1. stage[r] = "write"
      BY <2>3 DEF Create, Writing
    <3>2. PICK type \in Types \ {"retour"} : \E s, ls : Insert(r, type, s, FALSE, None, ls)
      BY <2>3 DEF Create
    <3> PICK s, ls : Insert(r, type, s, FALSE, None, ls)
      BY <3>2
    <3>3. /\ r \notin Existing /\ note'[r].type # "retour"
          /\ \A m \in Id \ {r} : note'[m] = note[m]
      BY <3>1, AtOwnNote DEF Insert, NotesInv, Typed
    <3> QED BY <3>3 DEF Appears
  <2>4. PICK r \in Req : CreateReturn(r)
    BY <2>1, <2>2, <2>3, StepKinds
  <2>5. stage[r] = "write" /\ \E ls : ReturnedBy(r, ls)
    BY <2>4, ReturnStep
  <2>6. \A m \in Id \ {r} : note'[m] = note[m]
    BY <2>5, AtOwnNote DEF ReturnedBy, Insert, NotesInv, Typed
  <2> QED BY <2>4, <2>6 DEF Appears
<1>2. stage[r] = "write" /\ job[r].kind = "return"
  BY <1>1, ReturnStep
<1>3. PICK ls : ReturnedBy(r, ls)
  BY <1>1, ReturnStep
<1>4. /\ r \in Id /\ r \notin Existing /\ note'[r].of = job[r].note /\ note'[r].type = "retour"
      /\ lines'[r] = ls /\ \A m \in Id \ {r} : note'[m] = note[m] /\ lines'[m] = lines[m]
  <2>1. Insert(r, "retour", "delivered", TRUE, job[r].note, ls) /\ "retour" \in Types
    BY <1>3 DEF ReturnedBy, Types
  <2> QED BY <1>2, <2>1, AtOwnNote DEF Insert, NotesInv, Typed
<1>5. b = job[r].note /\ job[r].items = lines[b] /\ job[r].back = Returned(b)
  BY <1>1, <1>2, <1>4, AtNote DEF HasRead
<1>6. PICK l \in ls, i \in lines[b] : ls = {l} /\ l.sent =< i.sent - Returned(b)
  <2>1. ls # {} /\ \A l \in ls : \E i \in lines[b] : l.sent =< i.sent - Returned(b)
    BY <1>3, <1>5 DEF ReturnedBy
  <2>2. \A l, m \in ls : l = m
    BY <1>1, <1>4
  <2> QED BY <2>1, <2>2
<1>7. /\ lines[b] \in SUBSET Line /\ IsFiniteSet(lines[b]) /\ ls \in SUBSET Line /\ IsFiniteSet(ls)
      /\ i.sent \in Nat /\ l.sent \in Nat
  BY <1>3, <1>6 DEF NotesInv, Typed, Existing, ReturnedBy, Line
<1>8. i.sent =< Total(lines[b]) /\ Total(lines[b]) \in Nat /\ Total(ls) = l.sent
  BY <1>6, <1>7, TotalNat
<1>9. PICK R, f, g : /\ R = ReturnsOf(b) /\ f = [m \in R |-> Total(lines[m])]
                     /\ g = [m \in R \cup {r} |-> Total(lines'[m])]
  OBVIOUS
<1>10. ReturnsOf(b)' = R \cup {r} /\ r \notin R /\ R \subseteq Id
  <2>1. Existing' = Existing \cup {r}
    BY <1>1, <1>4 DEF Existing, Appears
  <2>2. \A m \in Id : m \in ReturnsOf(b)' <=> m \in R \/ m = r
    BY <1>4, <1>5, <1>9, <2>1 DEF ReturnsOf, Existing
  <2>3. ReturnsOf(b)' \subseteq Id /\ R \subseteq Id
    BY <1>9 DEF ReturnsOf, Existing
  <2>4. r \notin R
    BY <1>4, <1>9 DEF ReturnsOf
  <2> QED BY <1>4, <2>2, <2>3, <2>4
<1>11. /\ Returned(b) = SumFunctionOnSet(f, R)
       /\ Returned(b)' = SumFunctionOnSet(g, R \cup {r})
  <2>1. [m \in ReturnsOf(b) |-> Total(lines[m])]' = g
    BY <1>9, <1>10 DEF Total
  <2>2. DOMAIN f = R /\ DOMAIN g = R \cup {r}
    BY <1>9
  <2>3. [m \in ReturnsOf(b) |-> Total(lines[m])] = f
    BY <1>9
  <2> QED BY <2>1, <2>2, <2>3 DEF Returned, SumFunction
<1>12. IsFiniteSet(R) /\ \A m \in R : f[m] \in Int /\ g[m] \in Int /\ f[m] = g[m]
  <2>1. \A m \in R : Total(lines[m]) \in Nat /\ lines'[m] = lines[m]
    BY <1>4, <1>10, TotalNat DEF NotesInv, Typed
  <2>2. IsFiniteSet(R)
    BY <1>9, FS_Subset DEF ReturnsOf, NotesInv, Typed
  <2> QED BY <1>9, <2>1, <2>2
<1>13. g[r] = l.sent
  BY <1>4, <1>8, <1>9
<1>14. SumFunctionOnSet(f, R) = SumFunctionOnSet(g, R)
  BY ONLY <1>12, SumOfSame
<1>15. /\ SumFunctionOnSet(g, R) \in Int
       /\ SumFunctionOnSet(g, R \cup {r}) = SumFunctionOnSet(g, R) + g[r]
  <2>1. IsFiniteSet(R) /\ r \notin R /\ g[r] \in Int /\ \A m \in R : g[m] \in Int
    BY <1>7, <1>10, <1>12, <1>13
  <2> QED BY ONLY <2>1, SumGrows
<1> QED BY <1>6, <1>7, <1>8, <1>11, <1>13, <1>14, <1>15

(* Of a note that no two requests were at once, and for a body of one      *)
(* entry, no more is returned than was sent.                               *)
THEOREM ReturnsWithinSent == Spec => ReturnWithinSent
<1>1. NotesInv /\ [Next]_vars =>
        [\A n \in Id, b \in Existing \ contended :
           /\ Appears(n) /\ note'[n].type = "retour" /\ note'[n].of = b
           /\ \A l, m \in lines'[n] : l = m
           => Returned(b)' =< Total(lines[b])]_vars
  BY ReturnOf
<1> QED BY <1>1, NotesHold, PTL DEF Spec, ReturnWithinSent
=============================================================================
