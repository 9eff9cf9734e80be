--------------------------- MODULE UnitOfWorkProofs ---------------------------
(***************************************************************************)
(* What every step of a unit of work leaves true, whatever its use case:    *)
(* one writer to a row, nothing written before a use case decides, and      *)
(* copies that are what was seen.  AccessProofs and ConsoleProofs rest on   *)
(* these lemmas.                                                            *)
(***************************************************************************)
EXTENDS UnitOfWork, TLAPS

-----------------------------------------------------------------------------
(* The second halves of the use cases that go on after a write. *)
GoesOnKinds == {"join", "count_failures", "set_members", "remember"}

Plans == Seq(SUBSET Rows)
Planned(plan) == UNION {plan[i] : i \in DOMAIN plan}

(* The rows p decides on: those it has read and those it will have. *)
Known(p) == DOMAIN req[p].copy \cup Planned(req[p].plan)

IsRequest(x) ==
    /\ DOMAIN x = {"kind", "id", "args", "plan", "copy", "done"}
    /\ x.plan \in Plans
    /\ x.done \in BOOLEAN
    /\ DOMAIN x.copy \subseteq Rows

RequestInv(p) ==
    /\ IsRequest(req[p])
    /\ ~Running(p) => req[p] = Idle
    /\ ~req[p].done /\ req[p].kind \notin GoesOnKinds => draft[p] = NoRows

UowInv ==
    /\ DOMAIN db = Rows
    /\ DOMAIN req = Requests
    /\ DOMAIN draft = Requests
    /\ OneWriter
    /\ \A p \in Requests : RequestInv(p)

(* The other requests are where they were. *)
OthersStay(p) ==
    \A q \in Requests \ {p} : req'[q] = req[q] /\ draft'[q] = draft[q]

-----------------------------------------------------------------------------
(* Plans. *)
LEMMA EmptyPlan == <<>> \in Plans /\ Planned(<<>>) = {}
  BY DEF Plans, Planned

LEMMA PlanOfOne ==
  ASSUME NEW A \in SUBSET Rows
  PROVE  << A >> \in Plans /\ Planned(<< A >>) = A
  <1>1. << A >> \in Plans  BY DEF Plans
  <1>2. DOMAIN << A >> = {1} /\ << A >>[1] = A  OBVIOUS
  <1> QED  BY <1>1, <1>2 DEF Planned

LEMMA PlanOfTwo ==
  ASSUME NEW A \in SUBSET Rows, NEW B \in SUBSET Rows
  PROVE  << A, B >> \in Plans /\ Planned(<< A, B >>) = A \cup B
  <1>1. << A, B >> \in Plans  BY DEF Plans
  <1>2. DOMAIN << A, B >> = {1, 2} /\ << A, B >>[1] = A /\ << A, B >>[2] = B  OBVIOUS
  <1> QED  BY <1>1, <1>2 DEF Planned

LEMMA PlanOfThree ==
  ASSUME NEW A \in SUBSET Rows, NEW B \in SUBSET Rows, NEW C \in SUBSET Rows
  PROVE  << A, B, C >> \in Plans /\ Planned(<< A, B, C >>) = A \cup B \cup C
  <1>1. << A, B, C >> \in Plans  BY DEF Plans
  <1>2. /\ DOMAIN << A, B, C >> = {1, 2, 3}
        /\ << A, B, C >>[1] = A /\ << A, B, C >>[2] = B /\ << A, B, C >>[3] = C
    OBVIOUS
  <1> QED  BY <1>1, <1>2 DEF Planned

LEMMA PlanOfFour ==
  ASSUME NEW A \in SUBSET Rows, NEW B \in SUBSET Rows, NEW C \in SUBSET Rows,
         NEW D \in SUBSET Rows
  PROVE  << A, B, C, D >> \in Plans /\ Planned(<< A, B, C, D >>) = A \cup B \cup C \cup D
  <1>1. << A, B, C, D >> \in Plans  BY DEF Plans
  <1>2. /\ DOMAIN << A, B, C, D >> = {1, 2, 3, 4}
        /\ << A, B, C, D >>[1] = A /\ << A, B, C, D >>[2] = B
        /\ << A, B, C, D >>[3] = C /\ << A, B, C, D >>[4] = D
    OBVIOUS
  <1> QED  BY <1>1, <1>2 DEF Planned

LEMMA JoinedPlan ==
  ASSUME NEW s \in Plans, NEW t \in Plans
  PROVE  s \o t \in Plans /\ Planned(s \o t) = Planned(s) \cup Planned(t)
  <1>1. s \o t \in Plans  BY DEF Plans
  <1>2. /\ DOMAIN s = 1 .. Len(s) /\ DOMAIN t = 1 .. Len(t)
        /\ DOMAIN (s \o t) = 1 .. (Len(s) + Len(t))
        /\ Len(s) \in Nat /\ Len(t) \in Nat
    BY DEF Plans
  <1>3. \A i \in 1 .. (Len(s) + Len(t)) :
            (s \o t)[i] = IF i <= Len(s) THEN s[i] ELSE t[i - Len(s)]
    BY DEF Plans
  <1>4. ASSUME NEW r \in Planned(s \o t)  PROVE r \in Planned(s) \cup Planned(t)
    <2>1. PICK i \in 1 .. (Len(s) + Len(t)) : r \in (s \o t)[i]  BY <1>2 DEF Planned
    <2>2. CASE i <= Len(s)
      <3>1. i \in DOMAIN s /\ r \in s[i]  BY <1>2, <1>3, <2>1, <2>2
      <3> QED  BY <3>1 DEF Planned
    <2>3. CASE ~(i <= Len(s))
      <3>1. i - Len(s) \in DOMAIN t /\ r \in t[i - Len(s)]  BY <1>2, <1>3, <2>1, <2>3
      <3> QED  BY <3>1 DEF Planned
    <2> QED  BY <2>2, <2>3
  <1>5. ASSUME NEW r \in Planned(s)  PROVE r \in Planned(s \o t)
    <2>1. PICK i \in 1 .. Len(s) : r \in s[i]  BY <1>2 DEF Planned
    <2>2. i \in DOMAIN (s \o t) /\ r \in (s \o t)[i]  BY <1>2, <1>3, <2>1
    <2> QED  BY <2>2 DEF Planned
  <1>6. ASSUME NEW r \in Planned(t)  PROVE r \in Planned(s \o t)
    <2>1. PICK i \in 1 .. Len(t) : r \in t[i]  BY <1>2 DEF Planned
    <2>2. /\ i + Len(s) \in 1 .. (Len(s) + Len(t)) /\ ~(i + Len(s) <= Len(s))
          /\ (i + Len(s)) - Len(s) = i
      BY <1>2, <2>1
    <2>3. (s \o t)[i + Len(s)] = t[i]  BY <1>3, <2>2
    <2> QED  BY <1>2, <2>1, <2>2, <2>3 DEF Planned
  <1> QED  BY <1>1, <1>4, <1>5, <1>6

LEMMA ShorterPlan ==
  ASSUME NEW s \in Plans, s # <<>>
  PROVE  /\ Tail(s) \in Plans
         /\ Head(s) \subseteq Rows
         /\ Planned(s) = Head(s) \cup Planned(Tail(s))
  <1>1. /\ Tail(s) \in Plans /\ Head(s) \in SUBSET Rows /\ Head(s) = s[1]
        /\ DOMAIN s = 1 .. Len(s) /\ Len(s) \in Nat \ {0}
        /\ DOMAIN Tail(s) = 1 .. (Len(s) - 1)
    BY DEF Plans
  <1>2. \A i \in 1 .. (Len(s) - 1) : Tail(s)[i] = s[i + 1]
    BY DEF Plans
  <1>3. ASSUME NEW r \in Planned(s)  PROVE r \in Head(s) \cup Planned(Tail(s))
    <2>1. PICK i \in 1 .. Len(s) : r \in s[i]  BY <1>1 DEF Planned
    <2>2. CASE i = 1  BY <1>1, <2>1, <2>2
    <2>3. CASE i # 1
      <3>1. i - 1 \in 1 .. (Len(s) - 1) /\ (i - 1) + 1 = i  BY <1>1, <2>3
      <3>2. Tail(s)[i - 1] = s[i]  BY <1>2, <3>1
      <3> QED  BY <1>1, <2>1, <3>1, <3>2 DEF Planned
    <2> QED  BY <2>2, <2>3
  <1>4. Head(s) \subseteq Planned(s)
    <2>1. 1 \in DOMAIN s  BY <1>1
    <2> QED  BY <1>1, <2>1 DEF Planned
  <1>5. ASSUME NEW r \in Planned(Tail(s))  PROVE r \in Planned(s)
    <2>1. PICK i \in 1 .. (Len(s) - 1) : r \in Tail(s)[i]  BY <1>1 DEF Planned
    <2>2. i + 1 \in DOMAIN s /\ r \in s[i + 1]  BY <1>1, <1>2, <2>1
    <2> QED  BY <2>2 DEF Planned
  <1> QED  BY <1>1, <1>3, <1>4, <1>5

-----------------------------------------------------------------------------
(* The steps. *)
LEMMA UowStarts ==
  ASSUME NEW rows, DOMAIN rows = Rows, NEW already, DbInit(rows), UowInit(already)
  PROVE  /\ UowInv
         /\ db = rows /\ overwritten = {}
         /\ \A p \in Requests : req[p] = Idle /\ draft[p] = NoRows
  <1>1. Idle.kind = "idle" /\ Idle.plan = <<>> /\ Idle.copy = NoRows /\ Idle.done = FALSE
    BY DEF Idle
  <1>2. DOMAIN NoRows = {}  BY DEF NoRows
  <1>3. IsRequest(Idle)  BY <1>2, EmptyPlan DEF IsRequest, Idle
  <1> QED  BY <1>1, <1>2, <1>3 DEF DbInit, UowInit, UowInv, RequestInv, OneWriter, Wrote, Running

LEMMA BeginStep ==
  ASSUME UowInv, NEW p \in Requests, NEW kind, kind # "idle", NEW args, NEW plan \in Plans,
         Begin(p, kind, args, plan)
  PROVE  /\ UowInv'
         /\ OthersStay(p) /\ db' = db /\ draft' = draft /\ overwritten' = overwritten
         /\ req'[p].kind = kind /\ req'[p].args = args /\ req'[p].done = FALSE
         /\ req'[p].id = begun + 1
         /\ DOMAIN req'[p].copy = {} /\ Known(p)' = Planned(plan)
         /\ Wrote(p)' = {}
  <1> DEFINE new == [Idle EXCEPT !.kind = kind, !.id = begun + 1, !.args = args, !.plan = plan]
  <1>1. /\ new.kind = kind /\ new.args = args /\ new.plan = plan /\ new.id = begun + 1
        /\ new.copy = NoRows /\ new.done = FALSE
        /\ DOMAIN new = {"kind", "id", "args", "plan", "copy", "done"}
    BY DEF Idle
  <1>2. DOMAIN NoRows = {}  BY DEF NoRows
  <1>3. IsRequest(new)
    BY <1>1, <1>2 DEF IsRequest
  <1> HIDE DEF new
  <1>4. /\ req' = [req EXCEPT ![p] = new]
        /\ db' = db /\ draft' = draft /\ overwritten' = overwritten
    BY DEF Begin, dbVars, new
  <1>5. req'[p] = new /\ DOMAIN req' = Requests /\ OthersStay(p)
    BY <1>4 DEF UowInv, OthersStay
  <1>6. draft[p] = NoRows
    <2>1. req[p] = Idle  BY DEF UowInv, RequestInv, Begin
    <2> QED  BY <2>1 DEF UowInv, RequestInv, Idle, GoesOnKinds
  <1>7. ASSUME NEW q \in Requests  PROVE RequestInv(q)'
    BY <1>1, <1>3, <1>4, <1>5, <1>6 DEF RequestInv, UowInv, OthersStay, Running
  <1> QED  BY <1>1, <1>2, <1>4, <1>5, <1>6, <1>7 DEF UowInv, OneWriter, Wrote, Known

LEMMA ReadStep ==
  ASSUME UowInv, NEW p \in Requests, Read(p)
  PROVE  /\ UowInv'
         /\ OthersStay(p) /\ db' = db /\ draft' = draft /\ overwritten' = overwritten
         /\ req'[p].kind = req[p].kind /\ req'[p].args = req[p].args
         /\ req'[p].id = req[p].id /\ req'[p].done = req[p].done
         /\ Known(p)' = Known(p)
         /\ DOMAIN req[p].copy \subseteq DOMAIN req'[p].copy
         /\ \A r \in DOMAIN req[p].copy : req'[p].copy[r] = req[p].copy[r]
         /\ \A r \in DOMAIN req'[p].copy \ DOMAIN req[p].copy :
                r \in Rows /\ req'[p].copy[r] = Seen(p, r)
  <1> DEFINE copy == [r \in DOMAIN req[p].copy \cup Head(req[p].plan) |->
                         IF r \in DOMAIN req[p].copy THEN req[p].copy[r] ELSE Seen(p, r)]
             rest == Tail(req[p].plan)
  <1>1. IsRequest(req[p]) /\ req[p].plan # <<>> /\ req[p].plan \in Plans
    BY DEF UowInv, RequestInv, Read, IsRequest
  <1>2. /\ rest \in Plans /\ Head(req[p].plan) \subseteq Rows
        /\ Planned(req[p].plan) = Head(req[p].plan) \cup Planned(rest)
    BY <1>1, ShorterPlan
  <1>3. /\ DOMAIN copy = DOMAIN req[p].copy \cup Head(req[p].plan)
        /\ \A r \in DOMAIN req[p].copy : copy[r] = req[p].copy[r]
        /\ \A r \in DOMAIN copy \ DOMAIN req[p].copy : copy[r] = Seen(p, r)
    OBVIOUS
  <1>4. /\ DOMAIN req' = Requests
        /\ \A q \in Requests \ {p} : req'[q] = req[q]
        /\ req'[p].plan = rest /\ req'[p].copy = copy
        /\ req'[p].kind = req[p].kind /\ req'[p].args = req[p].args
        /\ req'[p].id = req[p].id /\ req'[p].done = req[p].done
        /\ DOMAIN req'[p] = DOMAIN req[p]
        /\ db' = db /\ draft' = draft /\ overwritten' = overwritten
    <2> HIDE DEF copy
    <2>1. req' = [req EXCEPT ![p].plan = rest, ![p].copy = copy]
      BY DEF Read, copy
    <2>2. db' = db /\ draft' = draft /\ overwritten' = overwritten
      BY DEF Read, dbVars
    <2> HIDE DEF rest
    <2>3. /\ DOMAIN req = Requests
          /\ DOMAIN req[p] = {"kind", "id", "args", "plan", "copy", "done"}
      BY <1>1 DEF UowInv, IsRequest
    <2> QED  BY <2>1, <2>2, <2>3
  <1> HIDE DEF copy, rest
  <1>5. OthersStay(p)  BY <1>4 DEF OthersStay, UowInv
  <1>6. IsRequest(req'[p])
    BY <1>1, <1>2, <1>3, <1>4 DEF IsRequest
  <1>7. req[p] # Idle  BY <1>1 DEF Idle
  <1>8. ASSUME NEW q \in Requests  PROVE RequestInv(q)'
    <2>1. CASE q = p  BY <1>4, <1>6, <1>7, <2>1 DEF RequestInv, UowInv, Running
    <2>2. CASE q # p  BY <1>4, <2>2 DEF RequestInv, UowInv, Running
    <2> QED  BY <2>1, <2>2
  <1>9. Known(p)' = Known(p)  BY <1>2, <1>3, <1>4 DEF Known
  <1>10. UowInv'  BY <1>4, <1>8 DEF UowInv, OneWriter, Wrote
  <1>11. \A r \in DOMAIN copy : r \in Rows
    BY <1>1, <1>2, <1>3 DEF IsRequest
  <1> QED  BY <1>3, <1>4, <1>5, <1>9, <1>10, <1>11

(* What p writes: the rows were free, and a row it had read and that does   *)
(* not count as overwritten still has the value it had read. *)
WrittenBy(p, new) ==
    /\ \A r \in DOMAIN new : Free(p, r)
    /\ Wrote(p)' = Wrote(p) \cup DOMAIN new
    /\ \A r \in DOMAIN new : draft'[p][r] = new[r]
    /\ \A r \in Wrote(p) \ DOMAIN new : draft'[p][r] = draft[p][r]
    /\ db' = db
    /\ overwritten \subseteq overwritten'
    /\ \A r \in (DOMAIN new \cap DOMAIN req[p].copy) \ overwritten' : db[r] = Copy(p, r)

LEMMA WriteStep ==
  ASSUME UowInv, NEW p \in Requests, NEW new, Wrote1(p, new)
  PROVE  /\ WrittenBy(p, new)
         /\ OneWriter' /\ DOMAIN draft' = Requests
         /\ \A q \in Requests \ {p} : draft'[q] = draft[q]
  <1> DEFINE both == [r \in Wrote(p) \cup DOMAIN new |->
                         IF r \in DOMAIN new THEN new[r] ELSE draft[p][r]]
  <1>1. /\ DOMAIN both = Wrote(p) \cup DOMAIN new
        /\ \A r \in DOMAIN new : both[r] = new[r]
        /\ \A r \in Wrote(p) \ DOMAIN new : both[r] = draft[p][r]
    OBVIOUS
  <1>2. draft' = [draft EXCEPT ![p] = both]  BY DEF Wrote1, Put
  <1> HIDE DEF both
  <1>3. /\ DOMAIN draft' = Requests /\ draft'[p] = both
        /\ \A q \in Requests \ {p} : draft'[q] = draft[q]
    BY <1>2 DEF UowInv
  <1>4. \A r \in DOMAIN new : Free(p, r)  BY DEF Wrote1, Put
  <1>5. db' = db /\ overwritten \subseteq overwritten'  BY DEF Wrote1, Put
  <1>6. \A r \in (DOMAIN new \cap DOMAIN req[p].copy) \ overwritten' : db[r] = Copy(p, r)
    BY DEF Wrote1
  <1>7. OneWriter'
    BY <1>1, <1>3, <1>4 DEF OneWriter, Wrote, Free, UowInv
  <1> QED  BY <1>1, <1>3, <1>4, <1>5, <1>6, <1>7 DEF WrittenBy, Wrote

LEMMA SaveStep ==
  ASSUME UowInv, NEW p \in Requests, Running(p), NEW new, Save(p, new)
  PROVE  /\ UowInv'
         /\ OthersStay(p) /\ WrittenBy(p, new)
         /\ req'[p].kind = req[p].kind /\ req'[p].args = req[p].args
         /\ req'[p].id = req[p].id /\ req'[p].done = TRUE
         /\ req'[p].copy = req[p].copy /\ Known(p)' = Known(p)
  <1>1. Wrote1(p, new) /\ req' = [req EXCEPT ![p].done = TRUE]  BY DEF Save
  <1>2. /\ WrittenBy(p, new) /\ OneWriter' /\ DOMAIN draft' = Requests
        /\ \A q \in Requests \ {p} : draft'[q] = draft[q]
    BY <1>1, WriteStep
  <1>3. /\ DOMAIN req = Requests
        /\ DOMAIN req[p] = {"kind", "id", "args", "plan", "copy", "done"}
    BY DEF UowInv, RequestInv, IsRequest
  <1>4. /\ DOMAIN req' = Requests
        /\ \A q \in Requests \ {p} : req'[q] = req[q]
        /\ req'[p].kind = req[p].kind /\ req'[p].args = req[p].args /\ req'[p].id = req[p].id
        /\ req'[p].plan = req[p].plan /\ req'[p].copy = req[p].copy /\ req'[p].done = TRUE
        /\ DOMAIN req'[p] = DOMAIN req[p]
    BY <1>1, <1>3
  <1>5. IsRequest(req'[p])  BY <1>4 DEF IsRequest, UowInv, RequestInv
  <1>6. ASSUME NEW q \in Requests  PROVE RequestInv(q)'
    <2>1. CASE q = p  BY <1>4, <1>5, <2>1 DEF RequestInv, Running
    <2>2. CASE q # p  BY <1>2, <1>4, <2>2 DEF RequestInv, UowInv, Running
    <2> QED  BY <2>1, <2>2
  <1>7. UowInv'  BY <1>2, <1>4, <1>6 DEF UowInv, WrittenBy
  <1>8. OthersStay(p) /\ Known(p)' = Known(p)  BY <1>2, <1>4 DEF OthersStay, Known
  <1> QED  BY <1>2, <1>4, <1>7, <1>8

LEMMA GoOnStep ==
  ASSUME UowInv, NEW p \in Requests, Running(p), ~req[p].done,
         NEW new, NEW next \in GoesOnKinds, NEW plan \in Plans, SaveAndGoOn(p, new, next, plan)
  PROVE  /\ UowInv'
         /\ OthersStay(p) /\ WrittenBy(p, new)
         /\ req'[p].kind = next /\ req'[p].args = req[p].args
         /\ req'[p].id = req[p].id /\ req'[p].done = FALSE
         /\ req'[p].copy = req[p].copy
         /\ Known(p)' = DOMAIN req[p].copy \cup Planned(plan)
  <1>1. Wrote1(p, new) /\ req' = [req EXCEPT ![p].kind = next, ![p].plan = plan]
    BY DEF SaveAndGoOn
  <1>2. /\ WrittenBy(p, new) /\ OneWriter' /\ DOMAIN draft' = Requests
        /\ \A q \in Requests \ {p} : draft'[q] = draft[q]
    BY <1>1, WriteStep
  <1>3. /\ DOMAIN req = Requests /\ req[p].done = FALSE
        /\ DOMAIN req[p] = {"kind", "id", "args", "plan", "copy", "done"}
    BY DEF UowInv, RequestInv, IsRequest
  <1>4. /\ DOMAIN req' = Requests
        /\ \A q \in Requests \ {p} : req'[q] = req[q]
        /\ req'[p].kind = next /\ req'[p].args = req[p].args /\ req'[p].id = req[p].id
        /\ req'[p].plan = plan /\ req'[p].copy = req[p].copy /\ req'[p].done = FALSE
        /\ DOMAIN req'[p] = DOMAIN req[p]
    BY <1>1, <1>3
  <1>5. IsRequest(req'[p])  BY <1>4 DEF IsRequest, UowInv, RequestInv
  <1>6. ASSUME NEW q \in Requests  PROVE RequestInv(q)'
    <2>1. CASE q = p  BY <1>4, <1>5, <2>1 DEF RequestInv, Running, GoesOnKinds
    <2>2. CASE q # p  BY <1>2, <1>4, <2>2 DEF RequestInv, UowInv, Running
    <2> QED  BY <2>1, <2>2
  <1>7. UowInv'  BY <1>2, <1>4, <1>6 DEF UowInv, WrittenBy
  <1>8. OthersStay(p) /\ Known(p)' = DOMAIN req[p].copy \cup Planned(plan)
    BY <1>2, <1>4 DEF OthersStay, Known
  <1> QED  BY <1>2, <1>4, <1>7, <1>8

(* The end of a request, by commit or by rollback. *)
LEMMA EndStep ==
  ASSUME UowInv, NEW p \in Requests, DOMAIN db' = Rows,
         draft' = [draft EXCEPT ![p] = NoRows], req' = [req EXCEPT ![p] = Idle]
  PROVE  /\ UowInv'
         /\ OthersStay(p) /\ req'[p] = Idle /\ Wrote(p)' = {}
  <1>1. DOMAIN NoRows = {}  BY DEF NoRows
  <1>2. /\ DOMAIN req' = Requests /\ DOMAIN draft' = Requests
        /\ req'[p] = Idle /\ draft'[p] = NoRows /\ OthersStay(p)
    BY DEF UowInv, OthersStay
  <1>3. IsRequest(Idle)  BY <1>1, EmptyPlan DEF IsRequest, Idle
  <1>4. ASSUME NEW q \in Requests  PROVE RequestInv(q)'
    <2>1. CASE q = p  BY <1>2, <1>3, <2>1 DEF RequestInv
    <2>2. CASE q # p  BY <1>2, <2>2 DEF RequestInv, UowInv, Running, OthersStay
    <2> QED  BY <2>1, <2>2
  <1>5. OneWriter'  BY <1>1, <1>2 DEF UowInv, OneWriter, Wrote, OthersStay
  <1> QED  BY <1>1, <1>2, <1>4, <1>5 DEF UowInv, Wrote

LEMMA CommitStep ==
  ASSUME UowInv, NEW p \in Requests, Commit(p)
  PROVE  /\ UowInv'
         /\ OthersStay(p) /\ req'[p] = Idle /\ Wrote(p)' = {} /\ overwritten' = overwritten
         /\ \A r \in Rows : db'[r] = Seen(p, r)
         /\ \A q \in Requests \ {p} : \A r \in Rows \cap Wrote(q) : db'[r] = db[r]
  <1>1. /\ db' = [r \in Rows |-> Seen(p, r)]
        /\ draft' = [draft EXCEPT ![p] = NoRows] /\ req' = [req EXCEPT ![p] = Idle]
        /\ overwritten' = overwritten
    BY DEF Commit, CommitRows
  <1>2. DOMAIN db' = Rows /\ \A r \in Rows : db'[r] = Seen(p, r)  BY <1>1
  <1>3. UowInv' /\ OthersStay(p) /\ req'[p] = Idle /\ Wrote(p)' = {}
    BY <1>1, <1>2, EndStep
  <1>4. \A q \in Requests \ {p} : \A r \in Rows \cap Wrote(q) : db'[r] = db[r]
    BY <1>2 DEF UowInv, OneWriter, Seen
  <1> QED  BY <1>1, <1>2, <1>3, <1>4

LEMMA AbandonStep ==
  ASSUME UowInv, NEW p \in Requests, Abandon(p)
  PROVE  /\ UowInv'
         /\ OthersStay(p) /\ req'[p] = Idle /\ Wrote(p)' = {} /\ overwritten' = overwritten
         /\ db' = db
  <1>1. /\ db' = db
        /\ draft' = [draft EXCEPT ![p] = NoRows] /\ req' = [req EXCEPT ![p] = Idle]
        /\ overwritten' = overwritten
    BY DEF Abandon, DropRows
  <1>2. DOMAIN db' = Rows  BY <1>1 DEF UowInv
  <1> QED  BY <1>1, <1>2, EndStep

(* A use case that decides has written nothing, but in its second half. *)
LEMMA Decided ==
  ASSUME UowInv, NEW p \in Requests, NEW kind, kind # "idle", Decides(p, kind)
  PROVE  /\ Running(p) /\ ~req[p].done /\ req[p].kind = kind
         /\ Known(p) = DOMAIN req[p].copy
         /\ kind \notin GoesOnKinds => Wrote(p) = {} /\ \A r : Seen(p, r) = db[r]
  <1>1. req[p].kind = kind /\ req[p].plan = <<>> /\ ~req[p].done  BY DEF Decides
  <1>2. Known(p) = DOMAIN req[p].copy  BY <1>1, EmptyPlan DEF Known
  <1>3. kind \notin GoesOnKinds => Wrote(p) = {}
    BY <1>1 DEF UowInv, RequestInv, Wrote, NoRows
  <1> QED  BY <1>1, <1>2, <1>3 DEF Running, Seen

=============================================================================
