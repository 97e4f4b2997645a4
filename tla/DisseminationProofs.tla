------------------------- MODULE DisseminationProofs -------------------------
(***************************************************************************)
(* Dissemination implements LsaSpec and never loses sight of the newest    *)
(* number announced, for any number of origins, publications and parallel  *)
(* fetches.                                                                *)
(***************************************************************************)
EXTENDS Dissemination, TLAPS

\* What an origin published it had issued: numbers grow from one publication
\* to the next, none is beyond the present number, and a restart does not
\* lead back behind it.
Issued ==
  /\ \A r \in Others : known[r] <= Len(updates[r])
  /\ \A r \in Others, t \in Types :
       /\ updates[r] = <<>> => seqNo[<<r, t>>] = FirstNumber(t)
       /\ updates[r] # <<>> => seqNo[<<r, t>>] <= NumberAfterRestart(r, t)
       /\ \A i \in 1..Len(updates[r]) : updates[r][i][t] <= seqNo[<<r, t>>]
       /\ \A i, j \in 1..Len(updates[r]) : i <= j => updates[r][i][t] <= updates[r][j][t]

\* This router knows of nothing that was not issued, and of nothing beyond
\* what nsync announced.
Known ==
  \A l \in Lsas :
    /\ held[l] <= best[l]
    /\ best[l] <= seqNo[l]
    /\ highest[l] <= Announced(l)
    /\ \A f \in fetches : f.lsa = l => f.seq <= seqNo[l]

\* The newest announced number, unless it was installed, is the one that
\* m_highestSeqNo has, and is asked for or given up.
Pursued ==
  \A l \in Lsas :
    \/ best[l] >= Announced(l)
    \/ /\ highest[l] = Announced(l)
       /\ Twins(l, highest[l]) # {} \/ <<l, highest[l]>> \in abandoned

\* A LSA that is served has a number: only one that was never built has none.
Served == \A l \in serving : seqNo[l] >= 1

IInv == TypeOK /\ Issued /\ Served /\ Known /\ Pursued

-----------------------------------------------------------------------------
\* A LSA is a pair of its origin and its type.
LEMMA LsaPair ==
  ASSUME NEW l \in Lsas
  PROVE  l[1] \in Others /\ l[2] \in Types /\ l = <<l[1], l[2]>>
BY DEF Lsas

\* The numbers of a LSA that are published are natural numbers.
LEMMA UpdateType ==
  ASSUME TypeOK, NEW r \in Others, NEW i \in 1..Len(updates[r]), NEW t \in Types
  PROVE  updates[r][i] \in [Types -> Nat] /\ updates[r][i][t] \in Nat
BY DEF TypeOK

\* What nsync told of a LSA is a natural number.
LEMMA AnnouncedType ==
  ASSUME TypeOK, Issued, NEW l \in Lsas
  PROVE  /\ Announced(l) \in Nat
         /\ Announced(l) <= seqNo[l]
<1>1. l[1] \in Others /\ l[2] \in Types /\ l = <<l[1], l[2]>>
  BY LsaPair
<1>2. CASE known[l[1]] = 0
  BY <1>2 DEF Announced, TypeOK
<1>3. CASE known[l[1]] # 0
  <2>1. known[l[1]] \in 1..Len(updates[l[1]])
    BY <1>1, <1>3 DEF TypeOK, Issued
  <2>2. QED
    BY <1>1, <1>3, <2>1, UpdateType DEF Announced, Issued
<1>4. QED
  BY <1>2, <1>3

\* A restart gives natural numbers, none of them behind the present one.
LEMMA RestartNumber ==
  ASSUME TypeOK, Issued, NEW r \in Others, NEW t \in Types
  PROVE  /\ NumberAfterRestart(r, t) \in Nat
         /\ seqNo[<<r, t>>] <= NumberAfterRestart(r, t)
         /\ updates[r] = <<>> => NumberAfterRestart(r, t) = FirstNumber(t)
<1>1. <<r, t>> \in Lsas /\ FirstNumber(t) \in Nat
  BY DEF Lsas, FirstNumber
<1>2. CASE updates[r] = <<>>
  BY <1>1, <1>2 DEF NumberAfterRestart, Issued
<1>3. CASE updates[r] # <<>>
  <2>1. Len(updates[r]) \in 1..Len(updates[r])
    BY <1>3 DEF TypeOK
  <2>2. updates[r][Len(updates[r])][t] \in Nat
    BY <2>1, UpdateType
  <2>3. QED
    BY <1>1, <1>3, <2>2, BoundAssumption DEF NumberAfterRestart, Issued
<1>4. QED
  BY <1>2, <1>3

\* A new fetch is one.
LEMMA NewFetchType ==
  ASSUME TypeOK, NEW l \in Lsas, NEW s \in Nat, FreeCopies(l, s) # {}
  PROVE  /\ NewFetch(l, s) \in Fetches
         /\ NewFetch(l, s).lsa = l
         /\ NewFetch(l, s).seq = s
<1>1. (CHOOSE c \in FreeCopies(l, s) : TRUE) \in 1..MaxCopies
  BY DEF FreeCopies
<1>2. QED
  BY <1>1 DEF NewFetch, Fetches, Phases

\* The next phase of a fetch is a fetch of the same number.
LEMMA SetPhaseType ==
  ASSUME TypeOK, NEW f \in fetches, NEW p \in Phases
  PROVE  /\ [f EXCEPT !.phase = p] \in Fetches
         /\ [f EXCEPT !.phase = p].lsa = f.lsa
         /\ [f EXCEPT !.phase = p].seq = f.seq
BY DEF TypeOK, Fetches

\* So is the fetch whose deadline has passed.
LEMMA LateType ==
  ASSUME TypeOK, NEW f \in fetches
  PROVE  /\ [f EXCEPT !.late = TRUE] \in Fetches
         /\ [f EXCEPT !.late = TRUE].lsa = f.lsa
         /\ [f EXCEPT !.late = TRUE].seq = f.seq
BY DEF TypeOK, Fetches

\* The invariant is about these variables only.
LEMMA InvStays ==
  ASSUME IInv, UNCHANGED <<seqNo, updates, known, held, highest, fetches, best, abandoned>>,
         up' \subseteq Others, serving' \subseteq serving, data' \subseteq Lsas \X (Nat \ {0})
  PROVE  IInv'
<1>1. TypeOK'
  BY DEF IInv, TypeOK
<1>2. Issued'
  BY DEF IInv, Issued, NumberAfterRestart
<1>3. Known'
  BY DEF IInv, Known, Announced
<1>4. Pursued'
  BY DEF IInv, Pursued, Announced, Twins
<1>5. Served'
  BY DEF IInv, Served
<1>6. QED
  BY <1>1, <1>2, <1>3, <1>4, <1>5 DEF IInv

-----------------------------------------------------------------------------
(* The steps of the origins.                                               *)

\* A publication keeps the invariant: it is behind the earlier ones, and what
\* nsync told so far stays what it told.
LEMMA PublishInv ==
  ASSUME IInv, NEW l \in Lsas, Publish(l)
  PROVE  IInv'
<1> DEFINE r0 == l[1]
           e == [t \in Types |-> seqNo'[<<r0, t>>]]
<1>1. r0 \in Others /\ l[2] \in Types /\ l = <<r0, l[2]>>
  BY LsaPair
<1>2. /\ seqNo' \in [Lsas -> Nat]
      /\ \A k \in Lsas : seqNo[k] <= seqNo'[k]
      /\ \A r \in Others, t \in Types : r # r0 => seqNo'[<<r, t>>] = seqNo[<<r, t>>]
  BY <1>1 DEF Publish, IInv, TypeOK, Lsas
<1>3. e \in [Types -> Nat] /\ \A t \in Types : e[t] = seqNo'[<<r0, t>>]
  BY <1>1, <1>2 DEF Lsas
<1>4. /\ updates' = [updates EXCEPT ![r0] = Append(updates[r0], e)]
      /\ updates' \in [Others -> Seq([Types -> Nat])]
  BY <1>1, <1>3 DEF Publish, IInv, TypeOK
<1>5. /\ updates'[r0] = Append(updates[r0], e)
      /\ Len(updates'[r0]) = Len(updates[r0]) + 1
      /\ updates'[r0][Len(updates[r0]) + 1] = e
      /\ \A i \in 1..Len(updates[r0]) : updates'[r0][i] = updates[r0][i]
      /\ \A r \in Others : r # r0 => updates'[r] = updates[r]
  BY <1>1, <1>3, <1>4 DEF IInv, TypeOK
<1>6. TypeOK'
  BY <1>2, <1>4 DEF IInv, TypeOK, Publish, history
<1> HIDE DEF e
<1>7. Issued'
  <2>1. \A r \in Others : known'[r] <= Len(updates'[r])
    BY <1>5 DEF Publish, IInv, Issued, TypeOK
  <2>2. ASSUME NEW r \in Others, NEW t \in Types, r # r0
        PROVE  /\ updates'[r] = <<>> => seqNo'[<<r, t>>] = FirstNumber(t)
               /\ updates'[r] # <<>> => seqNo'[<<r, t>>] <= NumberAfterRestart(r, t)'
               /\ \A i \in 1..Len(updates'[r]) : updates'[r][i][t] <= seqNo'[<<r, t>>]
               /\ \A i, j \in 1..Len(updates'[r]) :
                    i <= j => updates'[r][i][t] <= updates'[r][j][t]
    BY <1>2, <1>5, <2>2, ZenonT(60) DEF IInv, Issued, NumberAfterRestart
  <2>3. ASSUME NEW t \in Types
        PROVE  /\ updates'[r0] # <<>>
               /\ seqNo'[<<r0, t>>] <= NumberAfterRestart(r0, t)'
               /\ \A i \in 1..Len(updates'[r0]) : updates'[r0][i][t] <= seqNo'[<<r0, t>>]
               /\ \A i, j \in 1..Len(updates'[r0]) :
                    i <= j => updates'[r0][i][t] <= updates'[r0][j][t]
    <3>1. /\ seqNo[<<r0, t>>] \in Nat /\ seqNo'[<<r0, t>>] \in Nat
          /\ seqNo[<<r0, t>>] <= seqNo'[<<r0, t>>]
      BY <1>1, <1>2 DEF IInv, TypeOK, Lsas
    <3>2. \A i \in 1..Len(updates[r0]) :
            updates[r0][i][t] \in Nat /\ updates[r0][i][t] <= seqNo[<<r0, t>>]
      BY <1>1, UpdateType DEF IInv, Issued
    <3>3. Len(updates[r0]) \in Nat
      BY <1>1 DEF IInv, TypeOK
    <3>4. \A i \in 1..Len(updates'[r0]) : updates'[r0][i][t] <= seqNo'[<<r0, t>>]
      <4>1. SUFFICES ASSUME NEW i \in 1..Len(updates'[r0])
                     PROVE  updates'[r0][i][t] <= seqNo'[<<r0, t>>]
        OBVIOUS
      <4>2. i \in 1..Len(updates[r0]) \/ i = Len(updates[r0]) + 1
        BY <1>5, <3>3
      <4>3. CASE i \in 1..Len(updates[r0])
        <5>1. updates'[r0][i] = updates[r0][i] /\ updates[r0][i][t] <= seqNo[<<r0, t>>]
              /\ updates[r0][i][t] \in Nat
          BY <1>5, <3>2, <4>3
        <5>2. QED
          BY <3>1, <5>1
      <4>4. CASE i = Len(updates[r0]) + 1
        <5>1. updates'[r0][i] = e
          BY <1>5, <4>4
        <5>2. QED
          BY <1>3, <3>1, <5>1
      <4>5. QED
        BY <4>2, <4>3, <4>4
    <3>5. updates'[r0] # <<>>
      <4>1. Len(updates'[r0]) # 0
        BY <1>5, <3>3
      <4>2. QED
        BY <4>1
    <3>6. seqNo'[<<r0, t>>] <= NumberAfterRestart(r0, t)'
      BY <1>3, <1>5, <3>1, <3>5, BoundAssumption DEF NumberAfterRestart, FirstNumber
    <3>7. \A i, j \in 1..Len(updates'[r0]) : i <= j => updates'[r0][i][t] <= updates'[r0][j][t]
      <4>1. SUFFICES ASSUME NEW i \in 1..Len(updates'[r0]), NEW j \in 1..Len(updates'[r0]), i <= j
                     PROVE  updates'[r0][i][t] <= updates'[r0][j][t]
        OBVIOUS
      <4>2. CASE j = Len(updates[r0]) + 1
        BY <1>3, <1>5, <3>4, <4>2
      <4>3. CASE j # Len(updates[r0]) + 1
        <5>1. i \in 1..Len(updates[r0]) /\ j \in 1..Len(updates[r0])
          BY <1>5, <3>3, <4>1, <4>3
        <5>2. updates'[r0][i] = updates[r0][i] /\ updates'[r0][j] = updates[r0][j]
          BY <1>5, <5>1
        <5>3. updates[r0][i][t] <= updates[r0][j][t]
          BY <1>1, <4>1, <5>1 DEF IInv, Issued
        <5>4. QED
          BY <5>2, <5>3
      <4>4. QED
        BY <4>2, <4>3
    <3>8. QED
      BY <3>4, <3>5, <3>6, <3>7
  <2>4. QED
    BY <1>1, <2>1, <2>2, <2>3 DEF Issued
<1>8. \A k \in Lsas : Announced(k)' = Announced(k)
  <2>1. SUFFICES ASSUME NEW k \in Lsas PROVE Announced(k)' = Announced(k)
    OBVIOUS
  <2>2. k[1] \in Others /\ known[k[1]] \in Nat /\ known[k[1]] <= Len(updates[k[1]])
    BY LsaPair DEF IInv, TypeOK, Issued
  <2>3. QED
    BY <1>5, <2>2 DEF Announced, Publish
<1>9. Known'
  <2>1. \A k \in Lsas : seqNo[k] \in Nat /\ seqNo'[k] \in Nat /\ best[k] \in Nat
    BY <1>2 DEF IInv, TypeOK
  <2>2. \A f \in fetches : f.seq \in Nat
    BY DEF IInv, TypeOK, Fetches
  <2>3. QED
    BY <1>2, <1>8, <2>1, <2>2 DEF Publish, IInv, Known, history
<1>10. Pursued'
  BY <1>8 DEF Publish, IInv, Pursued, Twins, history
<1>11. Served'
  <2>1. \A k \in Lsas : seqNo[k] \in Nat /\ seqNo'[k] \in Nat /\ seqNo[k] <= seqNo'[k]
    BY <1>2 DEF IInv, TypeOK
  <2>2. seqNo'[l] = seqNo[l] + 1 /\ serving' = serving \union {l} /\ serving \subseteq Lsas
    BY DEF Publish, IInv, TypeOK
  <2>3. QED
    BY <2>1, <2>2 DEF IInv, Served
<1>12. QED
  BY <1>6, <1>7, <1>9, <1>10, <1>11 DEF IInv

\* A restart keeps the invariant: the numbers read back are ahead of all that
\* were published.
LEMMA RestartInv ==
  ASSUME IInv, NEW r \in Others, Restart(r)
  PROVE  IInv'
<1>1. /\ seqNo' \in [Lsas -> Nat]
      /\ \A k \in Lsas : seqNo[k] <= seqNo'[k]
      /\ \A q \in Others, t \in Types :
           seqNo'[<<q, t>>] = IF q = r THEN NumberAfterRestart(r, t) ELSE seqNo[<<q, t>>]
  <2>1. \A k \in Lsas : seqNo[k] \in Nat /\ seqNo'[k] \in Nat /\ seqNo[k] <= seqNo'[k]
    <3>1. SUFFICES ASSUME NEW k \in Lsas
                   PROVE  seqNo[k] \in Nat /\ seqNo'[k] \in Nat /\ seqNo[k] <= seqNo'[k]
      OBVIOUS
    <3>2. seqNo[k] \in Nat
      BY DEF IInv, TypeOK
    <3>3. CASE k[1] = r
      BY <3>2, <3>3, LsaPair, RestartNumber DEF Restart, IInv
    <3>4. CASE k[1] # r
      BY <3>2, <3>4 DEF Restart
    <3>5. QED
      BY <3>3, <3>4
  <2>2. QED
    BY <2>1 DEF Restart, Lsas
<1>2. TypeOK'
  BY <1>1 DEF IInv, TypeOK, Restart, history
<1>3. Issued'
  <2>1. \A q \in Others : known'[q] <= Len(updates'[q])
    BY DEF Restart, IInv, Issued
  <2>2. ASSUME NEW q \in Others, NEW t \in Types
        PROVE  /\ updates'[q] = <<>> => seqNo'[<<q, t>>] = FirstNumber(t)
               /\ updates'[q] # <<>> => seqNo'[<<q, t>>] <= NumberAfterRestart(q, t)'
               /\ \A i \in 1..Len(updates'[q]) : updates'[q][i][t] <= seqNo'[<<q, t>>]
               /\ \A i, j \in 1..Len(updates'[q]) :
                    i <= j => updates'[q][i][t] <= updates'[q][j][t]
    <3>1. updates' = updates /\ NumberAfterRestart(q, t)' = NumberAfterRestart(q, t)
      BY DEF Restart, NumberAfterRestart
    <3>2. /\ NumberAfterRestart(q, t) \in Nat /\ <<q, t>> \in Lsas
          /\ updates[q] = <<>> => NumberAfterRestart(q, t) = FirstNumber(t)
      BY RestartNumber DEF IInv, Lsas
    <3>3. \A i \in 1..Len(updates[q]) : updates[q][i][t] \in Nat
      BY UpdateType DEF IInv
    <3>4. seqNo[<<q, t>>] \in Nat /\ seqNo'[<<q, t>>] \in Nat
      BY <1>1, <3>2 DEF IInv, TypeOK
    <3>5. /\ updates[q] = <<>> => seqNo'[<<q, t>>] = FirstNumber(t)
          /\ updates[q] # <<>> => seqNo'[<<q, t>>] <= NumberAfterRestart(q, t)
      BY <1>1, <3>2 DEF IInv, Issued
    <3>6. \A i \in 1..Len(updates[q]) : updates[q][i][t] <= seqNo'[<<q, t>>]
      <4>1. seqNo[<<q, t>>] <= seqNo'[<<q, t>>]
        BY <1>1, <3>2
      <4>2. \A i \in 1..Len(updates[q]) : updates[q][i][t] <= seqNo[<<q, t>>]
        BY DEF IInv, Issued
      <4>3. QED
        BY <3>3, <3>4, <4>1, <4>2
    <3>7. QED
      BY <3>1, <3>5, <3>6 DEF IInv, Issued
  <2>3. QED
    BY <2>1, <2>2 DEF Issued
<1>4. \A k \in Lsas : Announced(k)' = Announced(k)
  BY DEF Announced, Restart
<1>5. Known'
  <2>1. \A k \in Lsas : seqNo[k] \in Nat /\ seqNo'[k] \in Nat /\ best[k] \in Nat
    BY <1>1 DEF IInv, TypeOK
  <2>2. \A f \in fetches : f.seq \in Nat
    BY DEF IInv, TypeOK, Fetches
  <2>3. QED
    BY <1>1, <1>4, <2>1, <2>2 DEF Restart, IInv, Known, history
<1>6. Pursued'
  BY <1>4 DEF Restart, IInv, Pursued, Twins, history
<1>7. Served'
  <2>1. SUFFICES ASSUME NEW l \in serving' PROVE seqNo'[l] >= 1
    BY DEF Served
  <2>2. CASE l \in serving
    <3>1. l \in Lsas /\ seqNo[l] >= 1
      BY <2>2 DEF IInv, TypeOK, Served
    <3>2. seqNo[l] \in Nat /\ seqNo'[l] \in Nat /\ seqNo[l] <= seqNo'[l]
      BY <1>1, <3>1 DEF IInv, TypeOK
    <3>3. QED
      BY <3>1, <3>2
  <2>3. CASE l \notin serving
    <3>1. l \in Lsas /\ l[1] = r /\ l[2] # "ADJ"
      BY <2>1, <2>3 DEF Restart
    <3>2. seqNo'[l] = NumberAfterRestart(r, l[2]) /\ FirstNumber(l[2]) = 1
      BY <3>1 DEF Restart, FirstNumber
    <3>3. CASE updates[r] = <<>>
      BY <3>2, <3>3 DEF NumberAfterRestart
    <3>4. CASE updates[r] # <<>>
      <4>1. Len(updates[r]) \in 1..Len(updates[r]) /\ l[2] \in Types
        BY <3>1, <3>4, LsaPair DEF IInv, TypeOK
      <4>2. updates[r][Len(updates[r])][l[2]] \in Nat
        BY <4>1, UpdateType DEF IInv
      <4>3. QED
        BY <3>2, <3>4, <4>2, BoundAssumption DEF NumberAfterRestart
    <3>5. QED
      BY <3>3, <3>4
  <2>4. QED
    BY <2>2, <2>3
<1>8. QED
  BY <1>2, <1>3, <1>5, <1>6, <1>7 DEF IInv

-----------------------------------------------------------------------------
(* The steps of this router.                                               *)

\* A later publication does not lower any number nsync told of.
LEMMA AnnouncedGrows ==
  ASSUME IInv, NEW r \in Others, NEW k \in known[r]+1..Len(updates[r]),
         known' = [known EXCEPT ![r] = k], updates' = updates
  PROVE  /\ \A l \in Lsas : Announced(l) <= Announced(l)'
         /\ \A l \in Lsas : l[1] # r => Announced(l)' = Announced(l)
         /\ \A l \in Lsas : l[1] = r => Announced(l)' = updates[r][k][l[2]]
<1>1. SUFFICES ASSUME NEW l \in Lsas
               PROVE  /\ Announced(l) <= Announced(l)'
                      /\ l[1] # r => Announced(l)' = Announced(l)
                      /\ l[1] = r => Announced(l)' = updates[r][k][l[2]]
  OBVIOUS
<1>2. /\ l[1] \in Others /\ l[2] \in Types /\ Announced(l) \in Nat
      /\ known[r] \in Nat /\ Len(updates[r]) \in Nat
  <2>1. TypeOK /\ Issued
    BY DEF IInv
  <2>2. l[1] \in Others /\ l[2] \in Types /\ Announced(l) \in Nat
    BY <2>1, LsaPair, AnnouncedType
  <2>3. known[r] \in Nat /\ Len(updates[r]) \in Nat
    BY <2>1 DEF TypeOK
  <2>4. QED
    BY <2>2, <2>3
<1>3. CASE l[1] # r
  <2>1. known'[l[1]] = known[l[1]]
    BY <1>2, <1>3 DEF IInv, TypeOK
  <2>2. Announced(l)' = Announced(l)
    BY <2>1 DEF Announced
  <2>3. QED
    BY <1>2, <1>3, <2>2
<1>4. CASE l[1] = r
  <2>1. k # 0 /\ k \in 1..Len(updates[r]) /\ known'[r] = k
    BY <1>2 DEF IInv, TypeOK
  <2>2. Announced(l)' = updates[r][k][l[2]] /\ updates[r][k][l[2]] \in Nat
    BY <1>2, <1>4, <2>1, UpdateType DEF Announced, IInv
  <2>3. CASE known[r] = 0
    BY <1>4, <2>2, <2>3 DEF Announced
  <2>4. CASE known[r] # 0
    <3>1. known[r] \in 1..Len(updates[r]) /\ known[r] <= k
      BY <1>2, <2>1, <2>4
    <3>2. updates[r][known[r]][l[2]] <= updates[r][k][l[2]]
      BY <1>2, <2>1, <3>1 DEF IInv, Issued
    <3>3. QED
      BY <1>4, <2>2, <2>4, <3>2 DEF Announced
  <2>5. QED
    BY <1>4, <2>2, <2>3, <2>4
<1>5. QED
  BY <1>3, <1>4

\* Every LSA that is new by an announcement is being fetched afterwards, and
\* m_highestSeqNo has its number.
LEMMA NsyncUpdateInv ==
  ASSUME IInv, NEW r \in Others, NEW k, OnNsyncUpdate(r, k)
  PROVE  IInv'
<1> DEFINE W == Wanted(r, k)
           n(l) == updates[r][k][l[2]]
<1>1. /\ k \in known[r]+1..Len(updates[r])
      /\ known' = [known EXCEPT ![r] = k] /\ updates' = updates
      /\ highest' = [l \in Lsas |-> IF l \in W THEN n(l) ELSE highest[l]]
      /\ fetches' = fetches \union {NewFetch(l, n(l)) : l \in W}
      /\ UNCHANGED <<up, seqNo, serving, data, held, best, abandoned>>
  BY DEF OnNsyncUpdate, originVars, history
<1>2. k \in Nat /\ k \in 1..Len(updates[r])
  BY <1>1 DEF IInv, TypeOK
<1>3. ASSUME NEW l \in Lsas, l[1] = r
      PROVE  n(l) \in Nat /\ n(l) <= seqNo[l]
  <2>1. l[2] \in Types /\ l = <<r, l[2]>>
    BY <1>3, LsaPair
  <2>2. QED
    BY <1>2, <2>1, UpdateType DEF IInv, Issued
<1>4. \A l \in Lsas : /\ held[l] \in Nat /\ best[l] \in Nat /\ highest[l] \in Nat
                      /\ Announced(l) \in Nat /\ seqNo[l] \in Nat
  BY AnnouncedType DEF IInv, TypeOK
<1>5. /\ \A l \in Lsas : Announced(l) <= Announced(l)'
      /\ \A l \in Lsas : l[1] # r => Announced(l)' = Announced(l)
      /\ \A l \in Lsas : l[1] = r => Announced(l)' = n(l)
  BY <1>1, AnnouncedGrows
<1>6. /\ W \subseteq Lsas
      /\ \A l \in Lsas : l \in W <=> l[1] = r /\ IsLsaNew(l, n(l)) /\ n(l) >= highest[l]
  BY LsaPair DEF Wanted, Lsas
<1>7. ASSUME NEW l \in W
      PROVE  /\ NewFetch(l, n(l)) \in Fetches
             /\ NewFetch(l, n(l)).lsa = l
             /\ NewFetch(l, n(l)).seq = n(l)
  <2>1. FreeCopies(l, n(l)) # {}
    BY <1>7 DEF OnNsyncUpdate
  <2>2. l \in Lsas /\ n(l) \in Nat
    BY <1>3, <1>4, <1>6
  <2>3. QED
    BY <2>1, <2>2, NewFetchType DEF IInv
<1> HIDE DEF W, n
<1>8. TypeOK'
  <2>1. highest' \in [Lsas -> Nat]
    BY <1>1, <1>3, <1>4, <1>6
  <2>2. fetches' \subseteq Fetches
    BY <1>1, <1>7 DEF IInv, TypeOK
  <2>3. known' \in [Others -> Nat]
    BY <1>1, <1>2 DEF IInv, TypeOK
  <2>4. QED
    BY <1>1, <2>1, <2>2, <2>3 DEF IInv, TypeOK
<1>9. Issued'
  BY <1>1, <1>2 DEF IInv, Issued, NumberAfterRestart, TypeOK
<1>10. Known'
  <2>1. \A l \in Lsas : highest'[l] <= Announced(l)'
    BY <1>1, <1>3, <1>4, <1>5, <1>6 DEF IInv, Known
  <2>2. \A l \in Lsas : \A f \in fetches' : f.lsa = l => f.seq <= seqNo'[l]
    BY <1>1, <1>3, <1>6, <1>7 DEF IInv, Known
  <2>3. QED
    BY <1>1, <2>1, <2>2 DEF IInv, Known
<1>11. Pursued'
  <2>1. SUFFICES ASSUME NEW l \in Lsas, ~(best'[l] >= Announced(l)')
                 PROVE  /\ highest'[l] = Announced(l)'
                        /\ Twins(l, highest[l])' # {} \/ <<l, highest'[l]>> \in abandoned'
    BY DEF Pursued
  <2>2. CASE l \in W
    <3>1. highest'[l] = n(l) /\ Announced(l)' = n(l)
      BY <1>1, <1>5, <1>6, <2>2
    <3>2. NewFetch(l, n(l)) \in fetches'
      BY <1>1, <2>2
    <3>3. NewFetch(l, n(l)) \in Twins(l, highest[l])'
      BY <1>7, <2>2, <3>1, <3>2 DEF Twins
    <3>4. QED
      BY <3>1, <3>3
  <2>3. CASE l \notin W /\ l[1] = r
    <3>1. held[l] <= best[l] /\ highest[l] <= Announced(l)
      BY DEF IInv, Known
    <3>2. QED
      BY <1>1, <1>3, <1>4, <1>5, <1>6, <2>1, <2>3, <3>1 DEF IsLsaNew
  <2>4. CASE l \notin W /\ l[1] # r
    <3>1. highest'[l] = highest[l] /\ Announced(l)' = Announced(l)
      BY <1>1, <1>5, <2>4
    <3>2. highest[l] = Announced(l) /\ (Twins(l, highest[l]) # {} \/ <<l, highest[l]>> \in abandoned)
      BY <1>1, <2>1, <3>1 DEF IInv, Pursued
    <3>3. Twins(l, highest[l]) \subseteq Twins(l, highest[l])'
      BY <1>1, <3>1 DEF Twins
    <3>4. QED
      BY <1>1, <3>1, <3>2, <3>3
  <2>5. QED
    BY <2>2, <2>3, <2>4
<1>12. Served'
  BY <1>1 DEF IInv, Served
<1>13. QED
  BY <1>8, <1>9, <1>10, <1>11, <1>12 DEF IInv

\* A fetch that only changes its phase or passes its deadline goes on pursuing
\* its number.
LEMMA PhaseInv ==
  ASSUME IInv, NEW f \in fetches, NEW g \in Fetches, g.lsa = f.lsa, g.seq = f.seq,
         fetches' = (fetches \ {f}) \union {g}, data' \subseteq Lsas \X (Nat \ {0}),
         UNCHANGED <<up, seqNo, serving, updates, known, held, highest, best, abandoned>>
  PROVE  IInv'
<1>1. TypeOK'
  BY DEF IInv, TypeOK
<1>2. Issued'
  BY DEF IInv, Issued, NumberAfterRestart
<1>3. Known'
  BY DEF IInv, Known, Announced
<1>4. \A l \in Lsas : \A s : Twins(l, s) # {} => Twins(l, s)' # {}
  <2>1. SUFFICES ASSUME NEW l \in Lsas, NEW s, NEW h \in Twins(l, s)
                 PROVE  Twins(l, s)' # {}
    OBVIOUS
  <2>2. CASE h = f
    BY <2>1, <2>2 DEF Twins
  <2>3. CASE h # f
    BY <2>1, <2>3 DEF Twins
  <2>4. QED
    BY <2>2, <2>3
<1>5. Pursued'
  BY <1>4 DEF IInv, Pursued, Announced
<1>6. Served'
  BY DEF IInv, Served
<1>7. QED
  BY <1>1, <1>2, <1>3, <1>5, <1>6 DEF IInv

\* A fetch may end when its number is installed or given up, or is not the
\* highest one any more.
LEMMA EndInv ==
  ASSUME IInv, NEW f \in fetches, fetches' = fetches \ {f},
         held' \in [Lsas -> Nat], best' \in [Lsas -> Nat],
         \A l \in Lsas : /\ held'[l] <= best'[l] /\ best'[l] <= seqNo[l]
                         /\ best[l] <= best'[l],
         abandoned \subseteq abandoned', abandoned' \subseteq Lsas \X Nat,
         StillNewest(f) => best'[f.lsa] >= f.seq \/ <<f.lsa, f.seq>> \in abandoned',
         UNCHANGED <<up, seqNo, serving, updates, known, data, highest>>
  PROVE  IInv'
<1>1. TypeOK'
  BY DEF IInv, TypeOK
<1>2. Issued'
  BY DEF IInv, Issued, NumberAfterRestart
<1>3. Known'
  BY DEF IInv, Known, Announced
<1>4. Pursued'
  <2>1. SUFFICES ASSUME NEW l \in Lsas, ~(best'[l] >= Announced(l))
                 PROVE  /\ highest[l] = Announced(l)
                        /\ Twins(l, highest[l])' # {} \/ <<l, highest[l]>> \in abandoned'
    BY DEF Pursued, Announced
  <2>2. best[l] \in Nat /\ best'[l] \in Nat /\ Announced(l) \in Nat
    BY AnnouncedType DEF IInv, TypeOK
  <2>3. highest[l] = Announced(l) /\ (Twins(l, highest[l]) # {} \/ <<l, highest[l]>> \in abandoned)
    BY <2>1, <2>2 DEF IInv, Pursued
  <2>4. CASE f.lsa = l /\ f.seq = highest[l]
    BY <2>1, <2>3, <2>4 DEF StillNewest
  <2>5. CASE ~(f.lsa = l /\ f.seq = highest[l])
    <3>1. Twins(l, highest[l]) = Twins(l, highest[l])'
      BY <2>5 DEF Twins
    <3>2. QED
      BY <2>3, <3>1
  <2>6. QED
    BY <2>4, <2>5
<1>5. Served'
  BY DEF IInv, Served
<1>6. QED
  BY <1>1, <1>2, <1>3, <1>4, <1>5 DEF IInv

\* A fetch that is ended by a timeout or a failed validation was overtaken or
\* is given up for its deadline.
LEMMA EndFetchInv ==
  ASSUME IInv, NEW f \in fetches, ~GoesOn(f), EndFetch(f),
         UNCHANGED <<originVars, known, data, held, highest, best>>
  PROVE  IInv'
<1>1. f.lsa \in Lsas /\ f.seq \in Nat
  BY DEF IInv, TypeOK, Fetches
<1>2. /\ abandoned \subseteq abandoned' /\ abandoned' \subseteq Lsas \X Nat
      /\ StillNewest(f) => <<f.lsa, f.seq>> \in abandoned'
      /\ fetches' = fetches \ {f}
  BY <1>1 DEF EndFetch, GoesOn, IInv, TypeOK
<1>3. /\ held' \in [Lsas -> Nat] /\ best' \in [Lsas -> Nat]
      /\ \A l \in Lsas : /\ held'[l] <= best'[l] /\ best'[l] <= seqNo[l]
                         /\ best[l] <= best'[l]
  BY DEF IInv, TypeOK, Known
<1>4. QED
  BY <1>2, <1>3, EndInv DEF originVars

\* What is installed is newer than what was held and was issued; what is not
\* installed is not newer or is given up.
LEMMA ValidatedEffect ==
  ASSUME IInv, NEW f \in fetches, OnContentValidated(f)
  PROVE  /\ held' \in [Lsas -> Nat] /\ best' \in [Lsas -> Nat]
         /\ \A l \in Lsas : /\ held'[l] <= best'[l] /\ best'[l] <= seqNo[l]
                            /\ best[l] <= best'[l]
         /\ abandoned \subseteq abandoned' /\ abandoned' \subseteq Lsas \X Nat
         /\ best'[f.lsa] >= f.seq \/ <<f.lsa, f.seq>> \in abandoned'
         /\ \/ UNCHANGED held
            \/ /\ held' = [held EXCEPT ![f.lsa] = f.seq]
               /\ f.seq \in held[f.lsa]+1..seqNo[f.lsa]
<1> DEFINE k == f.lsa
           s == f.seq
<1>1. /\ k \in Lsas /\ s \in Nat /\ s <= seqNo[k]
      /\ \A l \in Lsas : /\ held[l] \in Nat /\ best[l] \in Nat /\ seqNo[l] \in Nat
                         /\ held[l] <= best[l] /\ best[l] <= seqNo[l]
      /\ held \in [Lsas -> Nat] /\ best \in [Lsas -> Nat]
      /\ abandoned \subseteq Lsas \X Nat
  BY DEF IInv, TypeOK, Fetches, Known
<1>2. ProcessContent(k, s)
  BY DEF OnContentValidated
<1> HIDE DEF k, s
<1>3. SUFFICES /\ held' \in [Lsas -> Nat] /\ best' \in [Lsas -> Nat]
               /\ \A l \in Lsas : /\ held'[l] <= best'[l] /\ best'[l] <= seqNo[l]
                                  /\ best[l] <= best'[l]
               /\ abandoned \subseteq abandoned' /\ abandoned' \subseteq Lsas \X Nat
               /\ best'[k] >= s \/ <<k, s>> \in abandoned'
               /\ \/ UNCHANGED held
                  \/ held' = [held EXCEPT ![k] = s] /\ s \in held[k]+1..seqNo[k]
  BY DEF k, s
<1>4. CASE /\ IsLsaNew(k, s)
           /\ held' = [held EXCEPT ![k] = s]
           /\ best' = [best EXCEPT ![k] = IF s > best[k] THEN s ELSE best[k]]
           /\ UNCHANGED abandoned
  <2>1. UNCHANGED held \/ s \in held[k]+1..seqNo[k]
    BY <1>1, <1>4 DEF IsLsaNew
  <2>2. QED
    BY <1>1, <1>4, <2>1
<1>5. CASE /\ abandoned' = abandoned \union {<<k, s>>}
           /\ UNCHANGED <<held, best>>
  BY <1>1, <1>5
<1>6. CASE ~IsLsaNew(k, s) /\ UNCHANGED <<held, best, abandoned>>
  BY <1>1, <1>6 DEF IsLsaNew
<1>7. QED
  BY <1>2, <1>4, <1>5, <1>6 DEF ProcessContent, history

\* Every callback of a fetch keeps the invariant.
LEMMA FetchStepInv ==
  ASSUME IInv, NEW f \in fetches, FetchStep(f)
  PROVE  IInv'
<1> USE DEF originVars, history
<1>1. TypeOK /\ f.lsa \in Lsas /\ f.seq \in Nat
  BY DEF IInv, TypeOK, Fetches
<1>2. up \subseteq Others /\ serving \subseteq Lsas /\ data \subseteq Lsas \X (Nat \ {0})
  BY <1>1 DEF TypeOK
<1>3. CASE ProcessInterestTimedOut(f)
  <2>1. CASE GoesOn(f) /\ UNCHANGED <<fetches, abandoned>>
    BY <1>2, <1>3, <2>1, InvStays DEF ProcessInterestTimedOut
  <2>2. CASE ~GoesOn(f) /\ EndFetch(f)
    BY <1>3, <2>2, EndFetchInv DEF ProcessInterestTimedOut
  <2>3. QED
    BY <1>3, <2>1, <2>2 DEF ProcessInterestTimedOut
<1>4. CASE OnContent(f)
  <2>1. <<f.lsa, f.seq>> \in Lsas \X (Nat \ {0})
    <3>1. CASE <<f.lsa, f.seq>> \in data
      BY <1>2, <3>1
    <3>2. CASE Serves(f.lsa, f.seq)
      <4>1. f.seq >= 1
        BY <3>2 DEF Serves, IInv, Served
      <4>2. QED
        BY <1>1, <4>1
    <3>3. QED
      BY <1>4, <3>1, <3>2 DEF OnContent
  <2>2. data' \subseteq Lsas \X (Nat \ {0})
    BY <1>2, <1>4, <2>1 DEF OnContent
  <2>3. /\ fetches' = (fetches \ {f}) \union {[f EXCEPT !.phase = "validating"]}
        /\ UNCHANGED <<up, seqNo, serving, updates, known, held, highest, best, abandoned>>
    BY <1>4 DEF OnContent, SetPhase
  <2>4. "validating" \in Phases
    BY DEF Phases
  <2>5. QED
    BY <1>1, <2>2, <2>3, <2>4, SetPhaseType, PhaseInv
<1>5. CASE OnContentValidated(f)
  <2>1. /\ held' \in [Lsas -> Nat] /\ best' \in [Lsas -> Nat]
        /\ \A l \in Lsas : /\ held'[l] <= best'[l] /\ best'[l] <= seqNo[l]
                           /\ best[l] <= best'[l]
        /\ abandoned \subseteq abandoned' /\ abandoned' \subseteq Lsas \X Nat
        /\ best'[f.lsa] >= f.seq \/ <<f.lsa, f.seq>> \in abandoned'
    BY <1>5, ValidatedEffect
  <2>2. /\ fetches' = fetches \ {f}
        /\ UNCHANGED <<up, seqNo, serving, updates, known, data, highest>>
    BY <1>5 DEF OnContentValidated
  <2>3. QED
    BY <2>1, <2>2, EndInv
<1>6. CASE OnContentValidationFailed(f)
  <2>1. CASE GoesOn(f) /\ SetPhase(f, "waiting") /\ UNCHANGED abandoned
    BY <1>1, <1>2, <1>6, <2>1, SetPhaseType, PhaseInv
       DEF OnContentValidationFailed, SetPhase, Phases
  <2>2. CASE ~GoesOn(f) /\ EndFetch(f)
    BY <1>6, <2>2, EndFetchInv DEF OnContentValidationFailed
  <2>3. QED
    BY <1>6, <2>1, <2>2 DEF OnContentValidationFailed
<1>7. CASE RetryContentValidation(f)
  BY <1>1, <1>2, <1>7, SetPhaseType, PhaseInv DEF RetryContentValidation, SetPhase, Phases
<1>8. CASE DeadlinePasses(f)
  BY <1>1, <1>2, <1>8, LateType, PhaseInv DEF DeadlinePasses
<1>9. QED
  BY <1>3, <1>4, <1>5, <1>6, <1>7, <1>8 DEF FetchStep

-----------------------------------------------------------------------------
(* The specification.                                                      *)

\* The invariant holds initially: nothing was published, and nobody asked.
LEMMA InitInv == Init => IInv
<1> SUFFICES ASSUME Init PROVE IInv
  OBVIOUS
<1>1. Blank \in [Lsas -> Nat] /\ \A l \in Lsas : Blank[l] = 0
  BY DEF Blank
<1>2. seqNo \in [Lsas -> Nat] /\ \A r \in Others, t \in Types : seqNo[<<r, t>>] = FirstNumber(t)
  BY DEF Init, Lsas, FirstNumber
<1>3. \A r \in Others : updates[r] = <<>> /\ known[r] = 0 /\ Len(updates[r]) = 0
  BY DEF Init
<1>4. TypeOK
  BY <1>1, <1>2 DEF Init, TypeOK, Lsas
<1>5. Issued
  BY <1>2, <1>3 DEF Issued
<1>6. \A l \in Lsas : Announced(l) = 0
  BY <1>3, LsaPair DEF Announced
<1>7. Known
  BY <1>1, <1>2, <1>6 DEF Init, Known
<1>8. Pursued
  <2>1. \A l \in Lsas : best[l] >= Announced(l)
    BY <1>1, <1>6 DEF Init
  <2>2. QED
    BY <2>1 DEF Pursued
<1>9. Served
  BY <1>2, LsaPair DEF Init, FirstNumber, Served
<1>10. QED
  BY <1>4, <1>5, <1>7, <1>8, <1>9 DEF IInv

\* Every step keeps the invariant.
LEMMA NextInv == IInv /\ [Next]_vars => IInv'
<1> SUFFICES ASSUME IInv, [Next]_vars PROVE IInv'
  OBVIOUS
<1> USE DEF originVars, history
<1>1. up \subseteq Others /\ serving \subseteq Lsas /\ data \subseteq Lsas \X (Nat \ {0})
  BY DEF IInv, TypeOK
<1>2. ASSUME NEW l \in Lsas, AnotherRouterAsks(l) PROVE IInv'
  <2>1. seqNo[l] \in Nat /\ seqNo[l] >= 1
    BY <1>2 DEF AnotherRouterAsks, IInv, TypeOK, Served
  <2>2. data' \subseteq Lsas \X (Nat \ {0})
    BY <1>1, <1>2, <2>1 DEF AnotherRouterAsks
  <2>3. QED
    BY <1>1, <1>2, <2>2, InvStays DEF AnotherRouterAsks
<1>3. ASSUME NEW l \in Lsas, Expire(l) PROVE IInv'
  <2>1. held' \in [Lsas -> Nat] /\ \A k \in Lsas : held'[k] <= best[k]
    BY <1>3 DEF Expire, IInv, TypeOK, Known
  <2>2. TypeOK'
    BY <1>3, <2>1 DEF Expire, IInv, TypeOK
  <2>3. Issued'
    BY <1>3 DEF Expire, IInv, Issued, NumberAfterRestart
  <2>4. Known'
    BY <1>3, <2>1 DEF Expire, IInv, Known, Announced
  <2>5. Pursued'
    BY <1>3 DEF Expire, IInv, Pursued, Announced, Twins
  <2>6. Served'
    BY <1>3 DEF Expire, IInv, Served
  <2>7. QED
    BY <2>2, <2>3, <2>4, <2>5, <2>6 DEF IInv
<1>4. ASSUME NEW r \in Others, RemoveAdjLsa(r) \/ Crash(r) PROVE IInv'
  BY <1>1, <1>4, InvStays DEF RemoveAdjLsa, Crash
<1>5. CASE UNCHANGED vars
  BY <1>1, <1>5, InvStays DEF vars
<1>6. QED
  BY <1>2, <1>3, <1>4, <1>5, PublishInv, RestartInv, NsyncUpdateInv, FetchStepInv DEF Next

\* The invariant holds throughout.
THEOREM InvCorrect == Spec => []IInv
BY InitInv, NextInv, PTL DEF Spec

\* The variables keep their types; in particular no data has number 0, though
\* number 0 is asked for, so that 0 can stand for none in held.
THEOREM TypeCorrect == Spec => []TypeOK
<1>1. IInv => TypeOK
  BY DEF IInv
<1>2. QED
  BY <1>1, InvCorrect, PTL

\* The newest number nsync told of is never lost sight of, whatever timeouts,
\* failed validations and overtaking fetches there are.
THEOREM NewestIsFetchedCorrect == Spec => []NewestIsFetched
<1>1. IInv => NewestIsFetched
  BY DEF IInv, Pursued, NewestIsFetched
<1>2. QED
  BY <1>1, InvCorrect, PTL

\* Initially nothing is held.
LEMMA RefineInit == Init => Promise!Init
BY DEF Init, Promise!Init, Blank, FirstNumber, Lsas

\* Every step installs something newer that was issued, drops a LSA, issues
\* LSAs, or does not show.
LEMMA RefineStep ==
  ASSUME IInv, [Next]_vars
  PROVE  [Promise!Next]_<<seqNo, held>>
<1> USE DEF originVars, history
<1>1. TypeOK
  BY DEF IInv
<1>2. ASSUME NEW l \in Lsas, Publish(l) PROVE Promise!Issue
  <2>1. seqNo' = [seqNo EXCEPT ![l] = seqNo[l] + 1] /\ held' = held
    BY <1>2 DEF Publish
  <2>2. seqNo \in [Lsas -> Nat]
    BY <1>1 DEF TypeOK
  <2>3. seqNo' \in [Lsas -> Nat]
    BY <2>1, <2>2
  <2>4. \A k \in Lsas : seqNo'[k] >= seqNo[k]
    BY <2>1, <2>2
  <2>5. seqNo' = [k \in Lsas |-> seqNo'[k]]
    BY <2>3
  <2>6. QED
    BY <2>1, <2>4, <2>5 DEF Promise!Issue
<1>3. ASSUME NEW r \in Others, Restart(r) PROVE Promise!Issue
  <2>1. \A l \in Lsas : seqNo[l] \in Nat /\ seqNo'[l] >= seqNo[l]
    <3>1. SUFFICES ASSUME NEW l \in Lsas PROVE seqNo[l] \in Nat /\ seqNo'[l] >= seqNo[l]
      OBVIOUS
    <3>2. seqNo[l] \in Nat
      BY <1>1 DEF TypeOK
    <3>3. CASE l[1] = r
      BY <1>1, <1>3, <3>2, <3>3, LsaPair, RestartNumber DEF Restart, IInv
    <3>4. CASE l[1] # r
      BY <1>3, <3>2, <3>4 DEF Restart
    <3>5. QED
      BY <3>3, <3>4
  <2>2. seqNo' = [l \in Lsas |-> seqNo'[l]]
    BY <1>3 DEF Restart
  <2>3. QED
    BY <1>3, <2>1, <2>2 DEF Restart, Promise!Issue
<1>4. ASSUME NEW l \in Lsas, Expire(l) PROVE Promise!Drop(l)
  BY <1>1, <1>4 DEF Expire, Promise!Drop, TypeOK
<1>5. ASSUME NEW f \in fetches, OnContentValidated(f)
      PROVE  UNCHANGED <<seqNo, held>> \/ Promise!Install(f.lsa)
  <2>1. seqNo' = seqNo /\ f.lsa \in Lsas
    BY <1>1, <1>5 DEF OnContentValidated, TypeOK, Fetches
  <2>2. CASE UNCHANGED held
    BY <2>1, <2>2
  <2>3. CASE /\ held' = [held EXCEPT ![f.lsa] = f.seq]
             /\ f.seq \in held[f.lsa]+1..seqNo[f.lsa]
    BY <1>1, <2>1, <2>3 DEF Promise!Install, TypeOK
  <2>4. QED
    BY <1>5, <2>2, <2>3, ValidatedEffect
<1>6. ASSUME NEW f \in fetches, FetchStep(f), ~OnContentValidated(f) PROVE UNCHANGED <<seqNo, held>>
  BY <1>6 DEF FetchStep, ProcessInterestTimedOut, OnContent, OnContentValidationFailed,
              RetryContentValidation, DeadlinePasses
<1>7. ASSUME NEW f \in fetches PROVE f.lsa \in Lsas
  BY <1>1 DEF TypeOK, Fetches
<1>8. ASSUME NEW r \in Others, NEW k, RemoveAdjLsa(r) \/ Crash(r) \/ OnNsyncUpdate(r, k)
      PROVE  UNCHANGED <<seqNo, held>>
  BY <1>8 DEF RemoveAdjLsa, Crash, OnNsyncUpdate
<1>9. ASSUME NEW l \in Lsas, AnotherRouterAsks(l) PROVE UNCHANGED <<seqNo, held>>
  BY <1>9 DEF AnotherRouterAsks
<1>10. CASE UNCHANGED vars
  BY <1>10 DEF vars
<1>11. QED
  BY <1>2, <1>3, <1>4, <1>5, <1>6, <1>7, <1>8, <1>9, <1>10 DEF Next, Promise!Next

\* Dissemination implements its abstract specification: whatever is fetched,
\* retried, overtaken or lost, a router holds LSAs that were issued and
\* replaces them by newer ones.
THEOREM RefinementCorrect == Spec => RefinesLsaSpec
<1>1. IInv /\ [Next]_vars => [Promise!Next]_<<seqNo, held>>
  BY RefineStep
<1>2. QED
  BY <1>1, RefineInit, InvCorrect, PTL DEF Spec, RefinesLsaSpec, Promise!Spec
==============================================================================
