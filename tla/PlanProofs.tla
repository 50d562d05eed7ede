------------------------------ MODULE PlanProofs ------------------------------
(***************************************************************************)
(* Proofs about composePlan and planWorkflow, for any registry, any        *)
(* compositions, roots and exclusions, and any task.                       *)
(*                                                                         *)
(* The plan: a capability that has returned from expand can be ranked      *)
(* above everything it leads to, unless a link closes a cycle or the depth *)
(* cut something off.  The inspection finds a cycle or ranks every node,   *)
(* and then linearize places every node.  The workflow: its steps are the  *)
(* subtasks with what was chosen for them, and the plan is composed from   *)
(* exactly that.                                                           *)
(***************************************************************************)
EXTENDS DecisionProofs, Workflow

-----------------------------------------------------------------------------
(* The compositions.  Both traversals keep a stack of calls, and who has    *)
(* returned can be ranked: all of it that a capability leads to returned    *)
(* before and has a lower rank.                                             *)
Frames == [id : Ids, kids : Seq(Ids)]
Called(s) == {s[i].id : i \in 1 .. Len(s)}
OnceEach(s) == \A i, j \in 1 .. Len(s) : s[i].id = s[j].id => i = j

Ranks(rel, done, s, f, n) ==
    /\ f \in [Ids -> Nat] /\ n \in Nat
    /\ \A c \in done : f[c] < n /\ \A k \in rel[c] : k \in done /\ f[k] < f[c]
    /\ \A i \in 1 .. Len(s) : \A k \in rel[s[i].id] :
          k \in Elems(s[i].kids) \/ k \in done \/ (i < Len(s) /\ k = s[i + 1].id)

Traversed(rel, done, s) == \E f, n : Ranks(rel, done, s, f, n)

WithoutKid(s) == [s EXCEPT ![Len(s)].kids = Tail(@)]
WithoutTop(s) == SubSeq(s, 1, Len(s) - 1)

LEMMA HeadAndTail ==
  ASSUME NEW q \in Seq(Ids), q # <<>>
  PROVE  /\ Head(q) \in Elems(q) /\ Head(q) \in Ids /\ Tail(q) \in Seq(Ids)
         /\ Elems(q) = {Head(q)} \cup Elems(Tail(q)) /\ Elems(q) \subseteq Ids
<1>1. Len(q) \in Nat \ {0} /\ Head(q) = q[1] /\ DOMAIN q = 1 .. Len(q)
  OBVIOUS
<1>2. /\ Tail(q) \in Seq(Ids) /\ DOMAIN Tail(q) = 1 .. Len(q) - 1
      /\ \A i \in 1 .. Len(q) - 1 : Tail(q)[i] = q[i + 1]
  OBVIOUS
<1>3. \A i \in 1 .. Len(q) : i = 1 \/ (i - 1 \in 1 .. Len(q) - 1 /\ i - 1 + 1 = i)
  BY <1>1
<1>4. \A i \in 1 .. Len(q) - 1 : i + 1 \in 1 .. Len(q)
  BY <1>1
<1>5. 1 \in 1 .. Len(q) /\ \A i \in 1 .. Len(q) : q[i] \in Ids
  BY <1>1
<1>6. \A x \in Elems(q) : x = Head(q) \/ x \in Elems(Tail(q))
  <2> TAKE x \in Elems(q)
  <2>1. PICK i \in 1 .. Len(q) : x = q[i]
    BY <1>1 DEF Elems
  <2>2. CASE i = 1
    BY <1>1, <2>1, <2>2
  <2>3. CASE i # 1
    <3>1. i - 1 \in DOMAIN Tail(q) /\ Tail(q)[i - 1] = q[i]
      BY <1>2, <1>3, <2>3
    <3> QED BY <2>1, <3>1 DEF Elems
  <2> QED BY <2>2, <2>3
<1>7. \A x \in Elems(Tail(q)) : x \in Elems(q)
  BY <1>1, <1>2, <1>4 DEF Elems
<1> QED BY <1>1, <1>2, <1>5, <1>6, <1>7 DEF Elems

LEMMA TopFrame ==
  ASSUME NEW s \in Seq(Frames), s # <<>>
  PROVE  /\ Len(s) \in Nat \ {0} /\ Len(s) \in 1 .. Len(s)
         /\ s[Len(s)].id \in Ids /\ s[Len(s)].kids \in Seq(Ids)
<1>1. Len(s) \in Nat \ {0} /\ Len(s) \in 1 .. Len(s) /\ s[Len(s)] \in Frames
  OBVIOUS
<1> QED BY <1>1 DEF Frames

LEMMA FrameRest ==
  ASSUME NEW fr \in Frames, NEW q \in Seq(Ids)
  PROVE  LET rest == [fr EXCEPT !.kids = q]
         IN  rest \in Frames /\ rest.id = fr.id /\ rest.kids = q
BY DEF Frames

LEMMA KidTaken ==
  ASSUME NEW s \in Seq(Frames), s # <<>>, s[Len(s)].kids # <<>>
  PROVE  /\ WithoutKid(s) \in Seq(Frames) /\ Len(WithoutKid(s)) = Len(s)
         /\ \A i \in 1 .. Len(s) :
              /\ WithoutKid(s)[i].id = s[i].id
              /\ i < Len(s) => WithoutKid(s)[i].kids = s[i].kids
         /\ WithoutKid(s)[Len(s)].kids = Tail(s[Len(s)].kids)
<1> DEFINE n == Len(s)
           rest == [s[n] EXCEPT !.kids = Tail(s[n].kids)]
           r == WithoutKid(s)
<1>1. n \in Nat \ {0} /\ n \in 1 .. n /\ s[n] \in Frames /\ s \in [1 .. n -> Frames]
  OBVIOUS
<1>2. Tail(s[n].kids) \in Seq(Ids)
  BY TopFrame, HeadAndTail
<1>3. rest \in Frames /\ rest.id = s[n].id /\ rest.kids = Tail(s[n].kids)
  BY <1>1, <1>2, FrameRest
<1>4. r = [s EXCEPT ![n] = rest]
  BY DEF WithoutKid
<1> HIDE DEF rest, r, n
<1>5. r \in [1 .. n -> Frames] /\ \A i \in 1 .. n : r[i] = IF i = n THEN rest ELSE s[i]
  BY <1>1, <1>3, <1>4
<1>6. r \in Seq(Frames) /\ Len(r) = n
  BY <1>1, <1>5
<1>7. ASSUME NEW i \in 1 .. n PROVE r[i].id = s[i].id /\ (i < n => r[i].kids = s[i].kids)
  <2>1. CASE i = n
    BY <1>1, <1>3, <1>5, <2>1
  <2>2. CASE i # n
    BY <1>5, <2>2
  <2> QED BY <2>1, <2>2
<1>8. r[n].kids = Tail(s[n].kids)
  BY <1>1, <1>3, <1>5
<1> QED BY <1>6, <1>7, <1>8 DEF r, n

LEMMA TopTaken ==
  ASSUME NEW s \in Seq(Frames), s # <<>>
  PROVE  /\ WithoutTop(s) \in Seq(Frames) /\ Len(WithoutTop(s)) = Len(s) - 1
         /\ \A i \in 1 .. Len(s) - 1 : WithoutTop(s)[i] = s[i]
  BY DEF WithoutTop

LEMMA Pushed ==
  ASSUME NEW s \in Seq(Frames), NEW fr \in Frames
  PROVE  /\ Append(s, fr) \in Seq(Frames) /\ Len(Append(s, fr)) = Len(s) + 1
         /\ \A i \in 1 .. Len(s) : Append(s, fr)[i] = s[i]
         /\ Append(s, fr)[Len(s) + 1] = fr
  OBVIOUS

-----------------------------------------------------------------------------
(* The steps of a traversal: a kid that is done or does not matter, ...     *)
LEMMA SkipKid ==
  ASSUME NEW rel, NEW done, NEW s \in Seq(Frames), s # <<>>,
         s[Len(s)].kids # <<>>, Traversed(rel, done, s),
         Head(s[Len(s)].kids) \in rel[s[Len(s)].id] => Head(s[Len(s)].kids) \in done
  PROVE  Traversed(rel, done, WithoutKid(s))
<1> DEFINE n == Len(s)
           r == WithoutKid(s)
           q == s[n].kids
<1>1. n \in Nat \ {0} /\ q \in Seq(Ids)
  BY TopFrame
<1>2. /\ Len(r) = n
      /\ \A i \in 1 .. n : r[i].id = s[i].id /\ (i < n => r[i].kids = s[i].kids)
      /\ r[n].kids = Tail(q)
  BY KidTaken
<1>3. PICK f, m : Ranks(rel, done, s, f, m)
  BY DEF Traversed
<1>4. \A k \in Elems(q) : k = Head(q) \/ k \in Elems(Tail(q))
  BY <1>1, HeadAndTail
<1> HIDE DEF r
<1>5. ASSUME NEW i \in 1 .. n, NEW k \in rel[r[i].id]
      PROVE  k \in Elems(r[i].kids) \/ k \in done \/ (i < n /\ k = r[i + 1].id)
  <2>1. k \in Elems(s[i].kids) \/ k \in done \/ (i < n /\ k = s[i + 1].id)
    BY <1>2, <1>3, <1>5 DEF Ranks
  <2>2. CASE i = n
    BY <1>2, <1>4, <1>5, <2>1, <2>2
  <2>3. CASE i # n
    <3>1. i < n /\ i + 1 \in 1 .. n
      BY <1>1, <2>3
    <3> QED BY <1>2, <2>1, <3>1
  <2> QED BY <2>2, <2>3
<1>6. Ranks(rel, done, r, f, m)
  BY <1>2, <1>3, <1>5 DEF Ranks
<1> QED BY <1>6 DEF Traversed, r

(* ... a call, ...                                                          *)
LEMMA CallKid ==
  ASSUME NEW rel, NEW done, NEW s \in Seq(Frames), s # <<>>,
         s[Len(s)].kids # <<>>, Traversed(rel, done, s),
         NEW fr \in Frames, fr.id = Head(s[Len(s)].kids), rel[fr.id] \subseteq Elems(fr.kids)
  PROVE  Traversed(rel, done, Append(WithoutKid(s), fr))
<1> DEFINE n == Len(s)
           r == WithoutKid(s)
           t == Append(r, fr)
           q == s[n].kids
<1>1. n \in Nat \ {0} /\ q \in Seq(Ids)
  BY TopFrame
<1>2. /\ r \in Seq(Frames) /\ Len(r) = n
      /\ \A i \in 1 .. n : r[i].id = s[i].id /\ (i < n => r[i].kids = s[i].kids)
      /\ r[n].kids = Tail(q)
  BY KidTaken
<1>3. PICK f, m : Ranks(rel, done, s, f, m)
  BY DEF Traversed
<1>4. \A k \in Elems(q) : k = Head(q) \/ k \in Elems(Tail(q))
  BY <1>1, HeadAndTail
<1> HIDE DEF r
<1>5. Len(t) = n + 1 /\ t[n + 1] = fr /\ \A i \in 1 .. n : t[i] = r[i]
  BY <1>2, Pushed
<1> HIDE DEF t
<1>6. ASSUME NEW i \in 1 .. n + 1, NEW k \in rel[t[i].id]
      PROVE  k \in Elems(t[i].kids) \/ k \in done \/ (i < n + 1 /\ k = t[i + 1].id)
  <2>1. CASE i = n + 1
    BY <1>5, <1>6, <2>1
  <2>2. CASE i = n
    <3>1. i \in 1 .. n /\ t[i] = r[i] /\ t[i + 1] = fr /\ i < n + 1
      BY <1>1, <1>5, <2>2
    <3>2. k \in Elems(q) \/ k \in done
      BY <1>2, <1>3, <1>6, <2>2, <3>1 DEF Ranks
    <3> QED BY <1>2, <1>4, <2>2, <3>1, <3>2
  <2>3. CASE i < n
    <3>1. i \in 1 .. n /\ i + 1 \in 1 .. n /\ i < n + 1
      BY <1>1, <2>3
    <3>2. k \in Elems(s[i].kids) \/ k \in done \/ k = s[i + 1].id
      BY <1>2, <1>3, <1>5, <1>6, <3>1 DEF Ranks
    <3> QED BY <1>2, <1>5, <2>3, <3>1, <3>2
  <2> QED BY <1>1, <2>1, <2>2, <2>3
<1>7. Ranks(rel, done, t, f, m)
  BY <1>3, <1>5, <1>6 DEF Ranks
<1> QED BY <1>7 DEF Traversed, t, r

(* ... a call from outside, ...                                             *)
LEMMA CallFirst ==
  ASSUME NEW rel, NEW done, Traversed(rel, done, <<>>),
         NEW fr \in Frames, rel[fr.id] \subseteq Elems(fr.kids)
  PROVE  Traversed(rel, done, <<fr>>)
<1>1. PICK f, m : Ranks(rel, done, <<>>, f, m)
  BY DEF Traversed
<1>2. Len(<<fr>>) = 1 /\ <<fr>>[1] = fr /\ \A i \in 1 .. 1 : i = 1
  OBVIOUS
<1>3. Ranks(rel, done, <<fr>>, f, m)
  BY <1>1, <1>2 DEF Ranks
<1> QED BY <1>3 DEF Traversed

(* Whoever leads only to what is done can be done next.                     *)
LEMMA FinishOne ==
  ASSUME NEW rel, NEW done \in SUBSET Ids, NEW s \in Seq(Frames), Traversed(rel, done, s),
         NEW c \in Ids, rel[c] \subseteq done
  PROVE  Traversed(rel, done \cup {c}, s)
<1>1. CASE c \in done
  <2>1. done \cup {c} = done
    BY <1>1
  <2> QED BY <2>1
<1>2. CASE c \notin done
  <2> DEFINE new == done \cup {c}
  <2>1. PICK f, m : Ranks(rel, done, s, f, m)
    BY DEF Traversed
  <2>2. /\ f \in [Ids -> Nat] /\ m \in Nat
        /\ \A x \in done : f[x] < m /\ \A k \in rel[x] : k \in done /\ f[k] < f[x]
        /\ \A i \in 1 .. Len(s) : \A k \in rel[s[i].id] :
              k \in Elems(s[i].kids) \/ k \in done \/ (i < Len(s) /\ k = s[i + 1].id)
    BY <2>1 DEF Ranks
  <2> DEFINE g == [f EXCEPT ![c] = m]
  <2>3. g \in [Ids -> Nat] /\ g[c] = m /\ \A x \in done : g[x] = f[x]
    BY <1>2, <2>2
  <2> HIDE DEF g
  <2>4. \A x \in new : g[x] < m + 1 /\ \A k \in rel[x] : k \in new /\ g[k] < g[x]
    <3> TAKE x \in new
    <3>1. CASE x = c
      BY <2>2, <2>3, <3>1
    <3>2. CASE x \in done
      <4>1. f[x] \in Nat /\ f[x] < m /\ \A k \in rel[x] : k \in done /\ f[k] < f[x]
        BY <2>2, <3>2
      <4> QED BY <2>2, <2>3, <3>2, <4>1
    <3> QED BY <3>1, <3>2
  <2>5. m + 1 \in Nat
    BY <2>2
  <2>6. Ranks(rel, new, s, g, m + 1)
    BY <2>2, <2>3, <2>4, <2>5 DEF Ranks
  <2> QED BY <2>6 DEF Traversed
<1> QED BY <1>1, <1>2

(* ... and a return.                                                        *)
LEMMA ReturnTop ==
  ASSUME NEW rel, NEW done \in SUBSET Ids, NEW s \in Seq(Frames), s # <<>>,
         s[Len(s)].kids = <<>>, Traversed(rel, done, s)
  PROVE  Traversed(rel, done \cup {s[Len(s)].id}, WithoutTop(s))
<1> DEFINE n == Len(s)
           c == s[n].id
           r == WithoutTop(s)
           new == done \cup {c}
<1>1. n \in Nat \ {0} /\ n \in 1 .. n /\ c \in Ids
  BY TopFrame
<1>2. Len(r) = n - 1 /\ \A i \in 1 .. n - 1 : r[i] = s[i]
  BY TopTaken
<1>3. rel[c] \subseteq done
  <2>1. Elems(s[n].kids) = {}
    BY DEF Elems
  <2> QED BY <1>1, <2>1 DEF Traversed, Ranks
<1>4. Traversed(rel, new, s)
  BY <1>1, <1>3, FinishOne
<1>5. PICK f, m : Ranks(rel, new, s, f, m)
  BY <1>4 DEF Traversed
<1> HIDE DEF r
<1>6. ASSUME NEW i \in 1 .. n - 1, NEW k \in rel[r[i].id]
      PROVE  k \in Elems(r[i].kids) \/ k \in new \/ (i < n - 1 /\ k = r[i + 1].id)
  <2>1. i \in 1 .. n /\ i < n /\ r[i] = s[i]
    BY <1>1, <1>2
  <2>2. k \in Elems(s[i].kids) \/ k \in new \/ k = s[i + 1].id
    BY <1>5, <1>6, <2>1 DEF Ranks
  <2>3. CASE i = n - 1
    <3>1. s[i + 1].id = c
      BY <1>1, <2>3
    <3> QED BY <2>1, <2>2, <3>1
  <2>4. CASE i # n - 1
    <3>1. i < n - 1 /\ i + 1 \in 1 .. n - 1 /\ r[i + 1] = s[i + 1]
      BY <1>1, <1>2, <2>4
    <3> QED BY <2>1, <2>2, <3>1
  <2> QED BY <2>3, <2>4
<1>7. Ranks(rel, new, r, f, m)
  BY <1>2, <1>5, <1>6 DEF Ranks
<1> QED BY <1>7 DEF Traversed, r

(* What a rank shows: there is no cycle among what is done.                 *)
LEMMA DoneIsAcyclic ==
  ASSUME NEW rel \in Relation, NEW done \in SUBSET Ids, Traversed(rel, done, <<>>),
         NEW c \in done
  PROVE  ~OnCycle(rel, c)
<1>1. PICK f, m : Ranks(rel, done, <<>>, f, m)
  BY DEF Traversed
<1>2. /\ f \in [Ids -> Nat]
      /\ \A x \in done : \A k \in rel[x] : k \in done /\ f[k] < f[x]
  BY <1>1 DEF Ranks
<1> DEFINE below == {x \in done : f[x] < f[c]}
<1>3. ASSUME NEW x \in below PROVE rel[x] \subseteq below
  <2>1. f[x] \in Int /\ f[c] \in Int /\ f[x] < f[c]
    BY <1>2
  <2>2. \A k \in rel[x] : k \in done /\ f[k] \in Int /\ f[k] < f[x]
    BY <1>2
  <2> QED BY <2>1, <2>2
<1>4. rel[c] \in SUBSET Ids /\ rel[c] \subseteq below
  BY <1>2 DEF Relation
<1>5. c \notin below
  BY <1>2
<1> HIDE DEF below
<1>6. Reach(rel, rel[c]) \subseteq below
  BY <1>3, <1>4, ReachIsClosure DEF IsClosure
<1> QED BY <1>5, <1>6 DEF OnCycle

-----------------------------------------------------------------------------
(* The calls under way: everybody once, each called by the one before it,   *)
(* with some of its kids left.                                              *)
Calls(kidsOf, lnk, s) ==
    /\ OnceEach(s)
    /\ \A i \in 1 .. Len(s) : Elems(s[i].kids) \subseteq kidsOf[s[i].id]
    /\ \A i \in 1 .. Len(s) - 1 : <<s[i].id, s[i + 1].id>> \in lnk

LEMMA CallsSkip ==
  ASSUME NEW kidsOf, NEW lnk, NEW s \in Seq(Frames), s # <<>>, s[Len(s)].kids # <<>>,
         Calls(kidsOf, lnk, s)
  PROVE  /\ Calls(kidsOf, lnk, WithoutKid(s)) /\ Called(WithoutKid(s)) = Called(s)
         /\ WithoutKid(s) # <<>>
         /\ WithoutKid(s)[Len(WithoutKid(s))].id = s[Len(s)].id
         /\ Len(WithoutKid(s)) = Len(s)
         /\ WithoutKid(s) \in Seq(Frames)
<1> DEFINE r == WithoutKid(s)
           n == Len(s)
           q == s[n].kids
<1>1. n \in Nat \ {0} /\ n \in 1 .. n /\ q \in Seq(Ids)
  BY TopFrame
<1>2. /\ r \in Seq(Frames) /\ Len(r) = n
      /\ \A i \in 1 .. n : r[i].id = s[i].id /\ (i < n => r[i].kids = s[i].kids)
      /\ r[n].kids = Tail(q)
  BY KidTaken
<1>3. Elems(Tail(q)) \subseteq Elems(q)
  BY <1>1, HeadAndTail
<1> HIDE DEF r
<1>4. OnceEach(r) /\ Called(r) = Called(s) /\ r # <<>>
  BY <1>1, <1>2 DEF Calls, OnceEach, Called
<1>5. ASSUME NEW i \in 1 .. n PROVE Elems(r[i].kids) \subseteq kidsOf[r[i].id]
  <2>1. CASE i = n
    BY <1>1, <1>2, <1>3, <2>1 DEF Calls
  <2>2. CASE i # n
    <3>1. i < n
      BY <1>1, <2>2
    <3> QED BY <1>2, <3>1 DEF Calls
  <2> QED BY <2>1, <2>2
<1>6. ASSUME NEW i \in 1 .. n - 1 PROVE <<r[i].id, r[i + 1].id>> \in lnk
  <2>1. i \in 1 .. n /\ i + 1 \in 1 .. n
    BY <1>1
  <2> QED BY <1>2, <1>6, <2>1 DEF Calls
<1> QED BY <1>1, <1>2, <1>4, <1>5, <1>6 DEF Calls, r

LEMMA CallsPush ==
  ASSUME NEW kidsOf, NEW lnk, NEW s \in Seq(Frames), Calls(kidsOf, lnk, s),
         NEW fr \in Frames, fr.id \notin Called(s), Elems(fr.kids) \subseteq kidsOf[fr.id],
         s # <<>> => <<s[Len(s)].id, fr.id>> \in lnk
  PROVE  /\ Calls(kidsOf, lnk, Append(s, fr)) /\ Append(s, fr) \in Seq(Frames)
         /\ Called(Append(s, fr)) = Called(s) \cup {fr.id}
<1> DEFINE n == Len(s)
           t == Append(s, fr)
<1>1. /\ t \in Seq(Frames) /\ Len(t) = n + 1 /\ n \in Nat
      /\ \A i \in 1 .. n : t[i] = s[i]
      /\ t[n + 1] = fr
  BY Pushed
<1>2. /\ \A i \in 1 .. n + 1 : i \in 1 .. n \/ i = n + 1
      /\ \A i \in 1 .. n : i \in 1 .. n + 1
      /\ n + 1 \in 1 .. n + 1
  BY <1>1
<1>a. n = 0 <=> s = <<>>
  OBVIOUS
<1> HIDE DEF t, n
<1>b. Called(s) = {s[i].id : i \in 1 .. n} /\ \A i, j \in 1 .. n : s[i].id = s[j].id => i = j
  BY DEF Calls, Called, OnceEach, n
<1>3. Called(t) = Called(s) \cup {fr.id}
  <2>1. Called(t) = {t[i].id : i \in 1 .. n + 1}
    BY <1>1 DEF Called
  <2> QED BY <1>1, <1>2, <1>b, <2>1
<1>4. OnceEach(t)
  <2>1. \A i, j \in 1 .. n + 1 : t[i].id = t[j].id => i = j
    BY <1>1, <1>2, <1>b
  <2> QED BY <1>1, <2>1 DEF OnceEach
<1>5. ASSUME NEW i \in 1 .. n + 1 PROVE Elems(t[i].kids) \subseteq kidsOf[t[i].id]
  BY <1>1, <1>2 DEF Calls, n
<1>6. ASSUME NEW i \in 1 .. n PROVE <<t[i].id, t[i + 1].id>> \in lnk
  <2>1. CASE i = n
    BY <1>1, <1>a, <2>1 DEF n
  <2>2. CASE i # n
    <3>1. i \in 1 .. n - 1 /\ i + 1 \in 1 .. n
      BY <1>1, <2>2
    <3>2. <<s[i].id, s[i + 1].id>> \in lnk
      BY <3>1 DEF Calls, n
    <3> QED BY <1>1, <3>1, <3>2
  <2> QED BY <2>1, <2>2
<1>7. n + 1 - 1 = n
  BY <1>1
<1>8. Calls(kidsOf, lnk, t)
  <2>1. \A i \in 1 .. Len(t) : Elems(t[i].kids) \subseteq kidsOf[t[i].id]
    BY <1>1, <1>5
  <2>2. \A i \in 1 .. Len(t) - 1 : <<t[i].id, t[i + 1].id>> \in lnk
    BY <1>1, <1>6, <1>7
  <2> QED BY <1>4, <2>1, <2>2 DEF Calls
<1> QED BY <1>1, <1>3, <1>8 DEF t

LEMMA CallsPop ==
  ASSUME NEW kidsOf, NEW lnk, NEW s \in Seq(Frames), s # <<>>, Calls(kidsOf, lnk, s)
  PROVE  /\ Calls(kidsOf, lnk, WithoutTop(s)) /\ WithoutTop(s) \in Seq(Frames)
         /\ Called(s) = Called(WithoutTop(s)) \cup {s[Len(s)].id}
         /\ s[Len(s)].id \notin Called(WithoutTop(s))
<1> DEFINE n == Len(s)
           r == WithoutTop(s)
<1>1. n \in Nat \ {0} /\ n \in 1 .. n
  BY TopFrame
<1>2. r \in Seq(Frames) /\ Len(r) = n - 1 /\ \A i \in 1 .. n - 1 : r[i] = s[i]
  BY TopTaken
<1>3. /\ \A i \in 1 .. n : i \in 1 .. n - 1 \/ i = n
      /\ \A i \in 1 .. n - 1 : i \in 1 .. n /\ i # n
      /\ \A i \in 1 .. n - 1 - 1 : i \in 1 .. n - 1 /\ i + 1 \in 1 .. n - 1
  BY <1>1
<1> HIDE DEF r, n
<1>4. Called(s) = {s[i].id : i \in 1 .. n} /\ \A i, j \in 1 .. n : s[i].id = s[j].id => i = j
  BY DEF Calls, Called, OnceEach, n
<1>5. Called(r) = {s[i].id : i \in 1 .. n - 1}
  BY <1>2 DEF Called
<1>6. Called(s) = Called(r) \cup {s[n].id} /\ s[n].id \notin Called(r)
  BY <1>1, <1>3, <1>4, <1>5
<1>7. OnceEach(r)
  BY <1>2, <1>3, <1>4 DEF OnceEach
<1>8. \A i \in 1 .. n - 1 : Elems(r[i].kids) \subseteq kidsOf[r[i].id]
  BY <1>2, <1>3 DEF Calls, n
<1>9. \A i \in 1 .. n - 1 - 1 : <<r[i].id, r[i + 1].id>> \in lnk
  BY <1>2, <1>3 DEF Calls, n
<1> QED BY <1>2, <1>6, <1>7, <1>8, <1>9 DEF Calls, r, n

LEMMA CallsMore ==
  ASSUME NEW kidsOf, NEW lnk, NEW s, Calls(kidsOf, lnk, s), NEW more, lnk \subseteq more
  PROVE  Calls(kidsOf, more, s)
BY DEF Calls

(* A link back to a caller closes a cycle: nothing decreases along it.      *)
Decreases(f, lnk) == f \in [Ids -> Nat] /\ \A a, b \in Ids : <<a, b>> \in lnk => f[b] < f[a]

LEMMA LinkBack ==
  ASSUME NEW kidsOf, NEW lnk \in SUBSET (Ids \X Ids), NEW s \in Seq(Frames), s # <<>>,
         Calls(kidsOf, lnk, s), NEW k \in Called(s), <<s[Len(s)].id, k>> \in lnk, NEW f
  PROVE  ~Decreases(f, lnk)
<1> SUFFICES ASSUME Decreases(f, lnk) PROVE FALSE
  OBVIOUS
<1> DEFINE n == Len(s)
<1>1. n \in Nat \ {0} /\ n \in 1 .. n /\ \A i \in 1 .. n : s[i] \in Frames
  BY TopFrame
<1>2. PICK j \in 1 .. n : k = s[j].id
  BY DEF Called
<1>3. \A i \in 1 .. n : s[i].id \in Ids /\ f[s[i].id] \in Int
  BY <1>1 DEF Frames, Decreases
<1> DEFINE K == {i \in 1 .. n : f[s[i].id] <= f[k]}
<1> HIDE DEF n
<1>4. j \in K
  BY <1>2, <1>3
<1>5. ASSUME NEW l \in j .. n - 1, l \in K PROVE l + 1 \in K
  <2>1. l \in 1 .. n - 1 /\ l \in 1 .. n /\ l + 1 \in 1 .. n
    BY <1>1
  <2>2. <<s[l].id, s[l + 1].id>> \in lnk
    BY <2>1 DEF Calls, n
  <2>3. f[s[l + 1].id] < f[s[l].id] /\ f[s[l].id] <= f[k]
    BY <1>3, <1>5, <2>1, <2>2 DEF Decreases
  <2> QED BY <1>2, <1>3, <2>1, <2>3
<1> HIDE DEF K
<1>6. j .. n \subseteq K
  BY <1>1, <1>4, <1>5, Upward
<1>7. n \in K
  BY <1>1, <1>2, <1>6
<1>8. f[s[n].id] <= f[k] /\ f[k] < f[s[n].id]
  BY <1>1, <1>2, <1>3, <1>7 DEF K, Decreases, n
<1> QED BY <1>1, <1>2, <1>3, <1>8

-----------------------------------------------------------------------------
(* In order, everybody once.                                                *)
LEMMA SortedByLists ==
  ASSUME NEW S, S \subseteq Int, IsFiniteSet(S), NEW f \in [S -> Int]
  PROVE  LET s == SortedBy(S, f)
         IN  /\ s \in Seq(S) /\ Len(s) = Cardinality(S) /\ Elems(s) = S
             /\ \A i, j \in 1 .. Len(s) : s[i] = s[j] => i = j
             /\ \A i, j \in 1 .. Len(s) : i < j => f[s[i]] <= f[s[j]]
<1> DEFINE N == Cardinality(S)
           upTo(c) == {d \in S : f[d] < f[c] \/ (f[d] = f[c] /\ d <= c)}
           rank == [c \in S |-> Cardinality(upTo(c))]
           s == SortedBy(S, f)
<1>1. N \in Nat /\ IsFiniteSet(S)
  BY FS_CardinalityType
<1>0. \A c \in S : c \in Int /\ f[c] \in Int
  OBVIOUS
<1>2. ASSUME NEW c \in S
      PROVE  IsFiniteSet(upTo(c)) /\ Cardinality(upTo(c)) \in 1 .. N
  <2>1. upTo(c) \in SUBSET S /\ c \in upTo(c)
    BY <1>0
  <2>2. IsFiniteSet(upTo(c)) /\ Cardinality(upTo(c)) <= N
    BY <1>1, <2>1, FS_Subset
  <2>3. Cardinality(upTo(c)) \in Nat /\ Cardinality(upTo(c)) # 0
    BY <2>1, <2>2, FS_CardinalityType, FS_EmptySet
  <2> QED BY <1>1, <2>2, <2>3
<1>3. ASSUME NEW c \in S, NEW d \in S, f[c] < f[d] \/ (f[c] = f[d] /\ c < d)
      PROVE  rank[c] < rank[d]
  <2>1. upTo(c) \subseteq upTo(d) /\ d \in upTo(d) /\ d \notin upTo(c)
    <3>1. ASSUME NEW x \in S, f[x] < f[c] \/ (f[x] = f[c] /\ x <= c)
          PROVE  f[x] < f[d] \/ (f[x] = f[d] /\ x <= d)
      BY <1>0, <1>3, <3>1
    <3>2. d <= d /\ ~(f[d] < f[c] \/ (f[d] = f[c] /\ d <= c))
      BY <1>0, <1>3
    <3> QED BY <3>1, <3>2
  <2>2. Cardinality(upTo(c)) <= Cardinality(upTo(d)) /\ Cardinality(upTo(c)) # Cardinality(upTo(d))
    BY <1>2, <2>1, FS_Subset
  <2> HIDE DEF upTo
  <2> QED BY <1>2, <2>2
<1>4. rank \in [S -> 1 .. N]
  <2> HIDE DEF upTo
  <2> QED BY <1>1, <1>2
<1>a. s = [n \in 1 .. N |-> CHOOSE i \in S : rank[i] = n]
  BY DEF SortedBy
<1> HIDE DEF rank, s
<1>5. \A c, d \in S : c # d => rank[c] # rank[d]
  <2> TAKE c, d \in S
  <2>1. rank[c] \in Int /\ rank[d] \in Int
    BY <1>4
  <2>2. CASE f[c] < f[d] \/ (f[c] = f[d] /\ c < d)
    BY <1>3, <2>1, <2>2
  <2>3. CASE f[d] < f[c] \/ (f[d] = f[c] /\ d < c)
    BY <1>3, <2>1, <2>3
  <2>4. /\ c \in Int /\ d \in Int /\ f[c] \in Int /\ f[d] \in Int
    BY <1>0
  <2>5. c # d => \/ f[c] < f[d] \/ (f[c] = f[d] /\ c < d)
                  \/ f[d] < f[c] \/ (f[d] = f[c] /\ d < c)
    BY <2>4
  <2> QED BY <2>2, <2>3, <2>5
<1>6. rank \in Injection(S, 1 .. N)
  BY <1>4, <1>5 DEF Injection, IsInjective
<1>7. IsFiniteSet(1 .. N) /\ Cardinality(1 .. N) = N
  <2>1. 1 \in Int /\ N \in Int
    BY <1>1
  <2>2. IsFiniteSet(1 .. N) /\ Cardinality(1 .. N) = IF 1 > N THEN 0 ELSE N - 1 + 1
    BY <2>1, FS_Interval
  <2> QED BY <1>1, <2>2
<1>8. rank \in Surjection(S, 1 .. N)
  BY <1>6, <1>7, FS_Injection
<1>9. ASSUME NEW n \in 1 .. N PROVE s[n] \in S /\ rank[s[n]] = n
  <2>1. \E c \in S : rank[c] = n
    BY <1>8 DEF Surjection
  <2>2. s[n] = CHOOSE i \in S : rank[i] = n
    BY <1>a, <1>9
  <2> QED BY <2>1, <2>2
<1>10. DOMAIN s = 1 .. N /\ s \in [1 .. N -> S]
  <2>2. DOMAIN s = 1 .. N
    BY <1>a
  <2>3. s = [n \in 1 .. N |-> s[n]]
    BY <1>a
  <2> QED BY <1>9, <2>2, <2>3
<1>11. s \in Seq(S) /\ Len(s) = N
  BY <1>1, <1>10
<1>12. ASSUME NEW c \in S PROVE c \in Elems(s)
  <2>1. rank[c] \in 1 .. N
    BY <1>4
  <2>2. s[rank[c]] = c
    BY <1>5, <1>9, <2>1
  <2> QED BY <1>10, <2>1, <2>2 DEF Elems
<1>13. Elems(s) = S
  BY <1>9, <1>10, <1>12 DEF Elems
<1>15. \A i, j \in 1 .. N : s[i] = s[j] => i = j
  BY <1>9
<1>16. ASSUME NEW i \in 1 .. N, NEW j \in 1 .. N, i < j PROVE f[s[i]] <= f[s[j]]
  <2>1. s[i] \in S /\ s[j] \in S /\ rank[s[i]] = i /\ rank[s[j]] = j
    BY <1>9
  <2>2. ~(f[s[j]] < f[s[i]])
    <3>1. SUFFICES ASSUME f[s[j]] < f[s[i]] PROVE FALSE
      OBVIOUS
    <3>2. rank[s[j]] < rank[s[i]]
      BY <1>3, <2>1, <3>1
    <3> QED BY <1>1, <1>16, <2>1, <3>2
  <2>3. f[s[i]] \in Int /\ f[s[j]] \in Int
    BY <1>0, <2>1
  <2> QED BY <2>2, <2>3
<1> HIDE DEF N
<1> QED BY <1>11, <1>13, <1>15, <1>16 DEF s, N

LEMMA SortedLists ==
  ASSUME NEW S, S \subseteq Int, IsFiniteSet(S)
  PROVE  /\ Sorted(S) \in Seq(S) /\ Len(Sorted(S)) = Cardinality(S) /\ Elems(Sorted(S)) = S
         /\ \A i, j \in 1 .. Len(Sorted(S)) : Sorted(S)[i] = Sorted(S)[j] => i = j
<1>1. [i \in S |-> 0] \in [S -> Int]
  OBVIOUS
<1> QED BY <1>1, SortedByLists DEF Sorted

(* Kahn's algorithm places every node once when the links have no cycle:    *)
(* of the nodes that are left, one of the highest rank is free.             *)
Needed == [c \in Ids |-> Required(c)]
Free(p) == {c \in Node \ Elems(p) : \A d \in Node : <<d, c>> \in links => d \in Elems(p)}

LEMMA OneIsFree ==
  ASSUME NEW done \in SUBSET Ids, Traversed(Needed, done, <<>>), Node \subseteq done,
         NEW p, ~(Node \subseteq Elems(p))
  PROVE  Free(p) # {}
<1>1. PICK f, n : Ranks(Needed, done, <<>>, f, n)
  BY DEF Traversed
<1>2. /\ f \in [Ids -> Nat] /\ n \in Nat
      /\ \A c \in done : f[c] < n /\ \A k \in Needed[c] : f[k] < f[c]
  BY <1>1 DEF Ranks
<1> DEFINE L == Node \ Elems(p)
           H == {n - f[c] : c \in L}
<1>3. L # {} /\ L \subseteq done
  OBVIOUS
<1> HIDE DEF L
<1>4. H \subseteq Nat /\ H # {}
  <2>1. ASSUME NEW c \in L PROVE n - f[c] \in Nat
    <3>1. f[c] \in Nat /\ f[c] < n
      BY <1>2, <1>3
    <3> QED BY <1>2, <3>1
  <2> QED BY <1>3, <2>1
<1>5. PICK h \in H : \A k \in H : h <= k
  BY <1>4, LeastNatural
<1>6. PICK c \in L : h = n - f[c]
  BY <1>5
<1>7. ASSUME NEW d \in Node, <<d, c>> \in links, d \notin Elems(p) PROVE FALSE
  <2>1. d \in L /\ d \in Ids /\ c \in Ids /\ c \in L
    BY <1>3, <1>7 DEF L
  <2>2. c \in Needed[d]
    BY <1>7, <2>1 DEF Needed, Required
  <2>3. f[c] < f[d] /\ f[c] \in Int /\ f[d] \in Int /\ n \in Int
    BY <1>2, <1>3, <2>1, <2>2
  <2>4. n - f[c] <= n - f[d]
    BY <1>5, <1>6, <2>1
  <2> QED BY <2>3, <2>4
<1>8. c \in Free(p)
  BY <1>7 DEF Free, L
<1> QED BY <1>8

Reversed(p) == [i \in 1 .. Len(p) |-> p[Len(p) + 1 - i]]

LEMMA ReversedOnce ==
  ASSUME NEW p \in Seq(Ids), \A i, j \in 1 .. Len(p) : p[i] = p[j] => i = j
  PROVE  LET q == Reversed(p)
         IN  /\ q \in Seq(Ids) /\ Len(q) = Len(p) /\ Elems(q) = Elems(p)
             /\ \A i, j \in 1 .. Len(q) : q[i] = q[j] => i = j
<1> DEFINE q == Reversed(p)
           n == Len(p)
<1>1. n \in Nat /\ DOMAIN p = 1 .. n /\ \A i \in 1 .. n : p[i] \in Ids
  OBVIOUS
<1>2. \A i \in 1 .. n : n + 1 - i \in 1 .. n /\ n + 1 - (n + 1 - i) = i
  BY <1>1
<1>3. DOMAIN q = 1 .. n /\ \A i \in 1 .. n : q[i] = p[n + 1 - i]
  BY DEF Reversed
<1>a. q = [i \in 1 .. n |-> q[i]]
  BY DEF Reversed
<1> HIDE DEF q, n
<1>4. q \in [1 .. n -> Ids]
  BY <1>1, <1>2, <1>3, <1>a
<1>5. q \in Seq(Ids) /\ Len(q) = n
  BY <1>1, <1>4
<1>6. ASSUME NEW i \in 1 .. n, NEW j \in 1 .. n, q[i] = q[j] PROVE i = j
  <2>1. n + 1 - i = n + 1 - j
    BY <1>2, <1>3, <1>6 DEF n
  <2> QED BY <1>1, <2>1
<1>7. Elems(q) = Elems(p)
  <2>1. \A i \in 1 .. n : q[n + 1 - i] = p[i]
    BY <1>2, <1>3
  <2> QED BY <1>1, <1>2, <1>3, <2>1 DEF Elems
<1> QED BY <1>5, <1>6, <1>7 DEF q, n

PlaceNext(p) == IF Free(p) = {} THEN p ELSE Append(p, Least(Free(p)))

LEMMA LinearPlaces ==
  ASSUME nodes \in Seq(Ids)
  PROVE  /\ Linear \in Seq(Ids) /\ Elems(Linear) \subseteq Node
         /\ \A i, j \in 1 .. Len(Linear) : Linear[i] = Linear[j] => i = j
         /\ \A done \in SUBSET Ids :
              (Traversed(Needed, done, <<>>) /\ Node \subseteq done) => Elems(Linear) = Node
<1> DEFINE N == Cardinality(Node)
           next == [p \in Seq(Ids) |-> PlaceNext(p)]
           place[n \in 0 .. N] == IF n = 0 THEN <<>> ELSE next[place[n-1]]
           Body(f) == [n \in 0 .. N |-> IF n = 0 THEN <<>> ELSE next[f[n-1]]]
           F == [t \in Seq(Ids) \X (1 .. N) |-> PlaceNext(t[1])]
           acyclic == \E done \in SUBSET Ids : Traversed(Needed, done, <<>>) /\ Node \subseteq done
<1>1. Linear = Reversed(place[N])
  BY DEF Linear, Reversed, Free, PlaceNext
<1>2. IsFiniteSet(Node) /\ N \in Nat
  <2>1. Node \subseteq Ids
    BY DEF Node, Elems
  <2> QED BY <2>1, IdsAssumption, FS_Subset, FS_CardinalityType
<1>b. \A p : Free(p) \in SUBSET Ids /\ Free(p) \subseteq Node \ Elems(p)
  <2>1. Node \subseteq Ids
    BY DEF Node, Elems
  <2> QED BY <2>1 DEF Free
<1>3. ASSUME NEW p \in Seq(Ids) PROVE PlaceNext(p) \in Seq(Ids)
  <2>1. Free(p) \in SUBSET Ids
    BY <1>b
  <2>2. Free(p) # {} => Least(Free(p)) \in Ids
    BY <2>1, LeastIs
  <2> QED BY <2>2 DEF PlaceNext
<1> HIDE DEF N, acyclic
<1>4. PICK f \in Recursive(N, Seq(Ids), <<>>, F) : TRUE
  <2>1. F \in StepFunctions(N, Seq(Ids))
    BY <1>3 DEF StepFunctions
  <2>2. <<>> \in Seq(Ids)
    OBVIOUS
  <2> HIDE DEF F
  <2> QED BY <1>2, <2>1, <2>2, RecursiveExists
<1>5. /\ f \in [0 .. N -> Seq(Ids)] /\ f[0] = <<>>
      /\ \A n \in 1 .. N : f[n] = F[<<f[n-1], n>>]
  <2> HIDE DEF F
  <2> QED BY <1>4 DEF Recursive
<1>6. /\ 0 \in 0 .. N /\ \A n \in 1 .. N : n \in 0 .. N /\ n # 0 /\ n - 1 \in 0 .. N
      /\ \A n \in 0 .. N : n # 0 => n \in 1 .. N
  BY <1>2
<1>7. ASSUME NEW n \in 1 .. N PROVE f[n] = next[f[n-1]]
  <2>1. <<f[n-1], n>> \in Seq(Ids) \X (1 .. N)
    BY <1>5, <1>6
  <2>2. F[<<f[n-1], n>>] = PlaceNext(f[n-1]) /\ next[f[n-1]] = PlaceNext(f[n-1])
    BY <1>5, <1>6, <2>1
  <2> HIDE DEF F, next
  <2> QED BY <1>5, <2>2
<1> HIDE DEF F
<1> HIDE DEF next
<1>8. f = Body(f)
  BY <1>5, <1>6, <1>7
<1>9. place = Body(place)
  BY <1>8
<1>10. place[0] = <<>> /\ \A n \in 1 .. N : place[n] = next[place[n-1]]
  <2> HIDE DEF place
  <2> QED BY <1>6, <1>9
<1> HIDE DEF place
<1> DEFINE Good == {p \in Seq(Ids) : Distinct(p) /\ Elems(p) \subseteq Node}
           At == {n \in 0 .. N : place[n] \in Good /\ (acyclic => Len(place[n]) = n)}
<1>11. 0 \in At
  <2>1. <<>> \in Seq(Ids) /\ Elems(<<>>) = {} /\ Len(<<>>) = 0 /\ DOMAIN <<>> = {}
    BY DEF Elems
  <2>2. Distinct(<<>>)
    <3>1. Cardinality({}) = 0
      BY FS_EmptySet
    <3> QED BY <2>1, <3>1 DEF Distinct
  <2> QED BY <1>6, <1>10, <2>1, <2>2
<1>12. ASSUME NEW n \in 0 .. N - 1, n \in At PROVE n + 1 \in At
  <2> DEFINE p == place[n]
             c == Least(Free(p))
  <2>1. n + 1 \in 1 .. N /\ n + 1 \in 0 .. N /\ n + 1 - 1 = n /\ n < N /\ n \in Nat
    BY <1>2
  <2>2. p \in Seq(Ids) /\ Distinct(p) /\ Elems(p) \subseteq Node /\ (acyclic => Len(p) = n)
    BY <1>12
  <2>3. place[n + 1] = PlaceNext(p)
    <3>1. place[n + 1] = next[p]
      BY <1>10, <2>1
    <3> QED BY <2>2, <3>1 DEF next
  <2> HIDE DEF p
  <2>4. ASSUME acyclic PROVE Free(p) # {}
    <3>1. Cardinality(Elems(p)) = n
      BY <2>2, <2>4 DEF Distinct
    <3>2. Elems(p) # Node
      BY <2>1, <3>1 DEF N
    <3>3. ~(Node \subseteq Elems(p))
      BY <2>2, <3>2
    <3> QED BY <2>4, <3>3, OneIsFree DEF acyclic
  <2>5. CASE Free(p) = {}
    <3>1. ~acyclic /\ place[n + 1] = p
      BY <2>3, <2>4, <2>5 DEF PlaceNext
    <3> QED BY <2>1, <2>2, <3>1
  <2>6. CASE Free(p) # {}
    <3>1. Free(p) \in SUBSET Ids /\ Free(p) \subseteq Node \ Elems(p)
      BY <1>b
    <3>2. c \in Ids /\ c \in Node /\ c \notin Elems(p)
      BY <2>6, <3>1, LeastIs
    <3>3. place[n + 1] = Append(p, c)
      BY <2>3, <2>6 DEF PlaceNext
    <3> HIDE DEF c
    <3>4. /\ Append(p, c) \in Seq(Ids) /\ Distinct(Append(p, c))
          /\ Elems(Append(p, c)) = Elems(p) \cup {c} /\ Len(Append(p, c)) = Len(p) + 1
      BY <2>2, <3>2, Appended
    <3> QED BY <2>1, <2>2, <3>2, <3>3, <3>4
  <2> QED BY <2>5, <2>6
<1> HIDE DEF At
<1>13. N \in At
  <2>1. 0 .. N \subseteq At
    BY <1>2, <1>11, <1>12, UpTo
  <2> QED BY <1>2, <2>1
<1> DEFINE all == place[N]
<1>14. all \in Seq(Ids) /\ Distinct(all) /\ Elems(all) \subseteq Node /\ (acyclic => Len(all) = N)
  BY <1>13 DEF At
<1> HIDE DEF all
<1>15. acyclic => Elems(all) = Node
  <2>1. acyclic => Cardinality(Elems(all)) = Cardinality(Node)
    BY <1>14 DEF Distinct, N
  <2> QED BY <1>2, <1>14, <2>1, FS_Subset
<1>16. \A i, j \in 1 .. Len(all) : all[i] = all[j] => i = j
  BY <1>14 DEF Distinct
<1>17. Linear = Reversed(all)
  BY <1>1 DEF all
<1>18. /\ Linear \in Seq(Ids) /\ Elems(Linear) = Elems(all)
       /\ \A i, j \in 1 .. Len(Linear) : Linear[i] = Linear[j] => i = j
  BY <1>14, <1>16, <1>17, ReversedOnce
<1> QED BY <1>14, <1>15, <1>18 DEF acyclic

(* The steps: of what was placed, what has a status worth one.              *)
Worth(st) == {c \in Ids : st[c] \notin {"skipped", "missing"}}

StepsOf(q, st) ==
    LET kept[i \in 0 .. Len(q)] ==
          IF i = 0 THEN <<>>
          ELSE IF st[q[i]] \in {"skipped", "missing"} THEN kept[i-1]
          ELSE Append(kept[i-1], q[i])
    IN  kept[Len(q)]

KeepNext(st, p, c) == IF st[c] \in {"skipped", "missing"} THEN p ELSE Append(p, c)

LEMMA StepsOnce ==
  ASSUME NEW q \in Seq(Ids), \A i, j \in 1 .. Len(q) : q[i] = q[j] => i = j, NEW st
  PROVE  /\ StepsOf(q, st) \in Seq(Ids) /\ Elems(StepsOf(q, st)) = Elems(q) \cap Worth(st)
         /\ Len(StepsOf(q, st)) = Cardinality(Elems(StepsOf(q, st)))
         /\ Distinct(StepsOf(q, st))
<1> DEFINE N == Len(q)
           kept[i \in 0 .. N] ==
             IF i = 0 THEN <<>>
             ELSE IF st[q[i]] \in {"skipped", "missing"} THEN kept[i-1]
             ELSE Append(kept[i-1], q[i])
           Body(f) == [i \in 0 .. N |->
             IF i = 0 THEN <<>>
             ELSE IF st[q[i]] \in {"skipped", "missing"} THEN f[i-1]
             ELSE Append(f[i-1], q[i])]
           F == [t \in Seq(Ids) \X (1 .. N) |-> KeepNext(st, t[1], q[t[2]])]
<1>1. StepsOf(q, st) = kept[N]
  BY DEF StepsOf
<1>2. N \in Nat /\ DOMAIN q = 1 .. N /\ \A i \in 1 .. N : q[i] \in Ids
  OBVIOUS
<1>3. ASSUME NEW p \in Seq(Ids), NEW c \in Ids PROVE KeepNext(st, p, c) \in Seq(Ids)
  BY DEF KeepNext
<1>a. \A i, j \in 1 .. N : q[i] = q[j] => i = j
  OBVIOUS
<1> HIDE DEF N
<1>4. PICK f \in Recursive(N, Seq(Ids), <<>>, F) : TRUE
  <2>1. F \in StepFunctions(N, Seq(Ids))
    <3>1. ASSUME NEW t \in Seq(Ids) \X (1 .. N) PROVE KeepNext(st, t[1], q[t[2]]) \in Seq(Ids)
      <4>1. t[1] \in Seq(Ids) /\ q[t[2]] \in Ids
        BY <1>2
      <4> QED BY <1>3, <4>1
    <3> QED BY <3>1 DEF StepFunctions
  <2>2. <<>> \in Seq(Ids)
    OBVIOUS
  <2> HIDE DEF F
  <2>3. Recursive(N, Seq(Ids), <<>>, F) # {}
    BY <1>2, <2>1, <2>2, RecursiveExists
  <2> HIDE DEF Recursive
  <2> QED BY <2>3
<1>5. /\ f \in [0 .. N -> Seq(Ids)] /\ f[0] = <<>>
      /\ \A i \in 1 .. N : f[i] = F[<<f[i-1], i>>]
  <2> HIDE DEF F
  <2> QED BY <1>4 DEF Recursive
<1>6. /\ 0 \in 0 .. N /\ \A i \in 1 .. N : i \in 0 .. N /\ i # 0 /\ i - 1 \in 0 .. N
      /\ \A i \in 0 .. N : i # 0 => i \in 1 .. N
  BY <1>2
<1>7. ASSUME NEW i \in 1 .. N PROVE f[i] = KeepNext(st, f[i-1], q[i])
  <2>1. <<f[i-1], i>> \in Seq(Ids) \X (1 .. N)
    BY <1>5, <1>6
  <2>2. F[<<f[i-1], i>>] = KeepNext(st, f[i-1], q[i])
    BY <2>1
  <2> HIDE DEF F
  <2> QED BY <1>5, <2>2
<1> HIDE DEF F
<1>8. f = Body(f)
  BY <1>5, <1>6, <1>7 DEF KeepNext
<1>9. kept = Body(kept)
  BY <1>8
<1>10. kept[0] = <<>> /\ \A i \in 1 .. N : kept[i] = KeepNext(st, kept[i-1], q[i])
  <2> HIDE DEF kept
  <2> QED BY <1>6, <1>9, Zenon DEF KeepNext
<1> HIDE DEF kept
<1> DEFINE Upto(i) == {q[j] : j \in 1 .. i} \cap Worth(st)
           At == {i \in 0 .. N : /\ kept[i] \in Seq(Ids) /\ Distinct(kept[i])
                                 /\ Elems(kept[i]) = Upto(i)}
<1>11. 0 \in At
  <2>1. <<>> \in Seq(Ids) /\ Elems(<<>>) = {} /\ Len(<<>>) = 0 /\ DOMAIN <<>> = {} /\ Upto(0) = {}
    BY DEF Elems
  <2>2. Distinct(<<>>)
    <3>1. Cardinality({}) = 0
      BY FS_EmptySet
    <3> QED BY <2>1, <3>1 DEF Distinct
  <2> QED BY <1>6, <1>10, <2>1, <2>2
<1>12. ASSUME NEW n \in 0 .. N - 1, n \in At PROVE n + 1 \in At
  <2> DEFINE p == kept[n]
             c == q[n + 1]
  <2>1. n + 1 \in 1 .. N /\ n + 1 \in 0 .. N /\ n + 1 - 1 = n /\ n \in Nat
    BY <1>2
  <2>2. p \in Seq(Ids) /\ Distinct(p) /\ Elems(p) = Upto(n) /\ c \in Ids
    BY <1>2, <1>12, <2>1
  <2>3. kept[n + 1] = KeepNext(st, p, c)
    BY <1>10, <2>1
  <2>4. \A i \in 1 .. n + 1 : i \in 1 .. n \/ i = n + 1
    BY <2>1
  <2>5. \A i \in 1 .. n : i \in 1 .. n + 1 /\ i \in 1 .. N /\ i # n + 1
    BY <1>2, <2>1
  <2>6. n + 1 \in 1 .. n + 1
    BY <2>1
  <2>7. Upto(n + 1) = Upto(n) \cup ({c} \cap Worth(st))
    BY <2>4, <2>5, <2>6
  <2>8. c \notin Upto(n)
    BY <1>a, <2>1, <2>5
  <2> HIDE DEF p, c, Upto
  <2>9. CASE st[c] \in {"skipped", "missing"}
    <3>1. Upto(n + 1) = Upto(n)
      BY <2>2, <2>7, <2>9 DEF Worth
    <3> QED BY <2>1, <2>2, <2>3, <2>9, <3>1 DEF KeepNext
  <2>10. CASE st[c] \notin {"skipped", "missing"}
    <3>1. Upto(n + 1) = Upto(n) \cup {c} /\ kept[n + 1] = Append(p, c)
      BY <2>2, <2>3, <2>7, <2>10 DEF Worth, KeepNext
    <3>2. /\ Append(p, c) \in Seq(Ids) /\ Distinct(Append(p, c))
          /\ Elems(Append(p, c)) = Elems(p) \cup {c}
      BY <2>2, <2>8, Appended
    <3> QED BY <2>1, <2>2, <3>1, <3>2
  <2> QED BY <2>9, <2>10
<1>13. N \in At
  <2> HIDE DEF At
  <2>1. 0 .. N \subseteq At
    BY <1>2, <1>11, <1>12, UpTo
  <2> QED BY <1>2, <2>1
<1>14. kept[N] \in Seq(Ids) /\ Distinct(kept[N]) /\ Elems(kept[N]) = Upto(N)
  BY <1>13
<1>15. Upto(N) = Elems(q) \cap Worth(st)
  BY <1>2 DEF Elems
<1> QED BY <1>1, <1>14, <1>15 DEF Distinct

(* What composePlan has established on its way, when no root is excluded.   *)
(* Who has returned from expand leads to nodes that returned before, unless *)
(* a link closes a cycle or something was cut off for its depth: that is    *)
(* why the links a capability does not get are no loss to the cycles.       *)
NoneExcluded == Roots \cap input.exclude = {}
Children == [c \in Ids |-> Elems(input.children[c])]
Others == [c \in Ids |-> Opened[c] \ {c}]

Looping == ~ \E f : Decreases(f, links)
Deep == \E c \in Ids : status[c] = "pending" /\ depth[c] >= MaxDepth

Composable(p) ==
    /\ p.registry \subseteq Ids /\ p.exclude \subseteq Ids
    /\ p.children \in [Ids -> Seq(Ids)] /\ p.conflicts \in Relation
    /\ p.roots \in Seq(Ids)

PlanTyped ==
    /\ work \in {"idle", "roots", "inspect", "composed"}
    /\ work # "idle" => Composable(input)
    /\ toStart \in Seq(Ids) /\ nodes \in Seq(Ids) /\ stack \in Seq(Frames)
    /\ status \in [Ids -> {"none", "missing", "pending", "skipped", "conflict", "satisfied"}]
    /\ depth \in [Ids -> Nat]
    /\ links \in SUBSET (Ids \X Ids) /\ finished \in SUBSET Ids
    /\ work = "idle" => /\ nodes = <<>> /\ stack = <<>> /\ links = {} /\ finished = {}
                        /\ looped = {} /\ \A c \in Ids : status[c] = "none"

NodesAre ==
    /\ Elems(nodes) = {c \in Ids : status[c] # "none"}
    /\ Elems(nodes) \subseteq Whole
    /\ \A c \in Ids :
         /\ status[c] \in {"none", "missing", "pending", "skipped"}
         /\ status[c] = "missing" =>
              c \notin input.registry /\ (c \in Roots \/ \E a \in Ids : <<a, c>> \in links)
         /\ status[c] = "skipped" => c \in input.registry \cap input.exclude
         /\ status[c] = "pending" => c \in input.registry \ input.exclude
    /\ \A a, b \in Ids : <<a, b>> \in links => status[a] # "none"

Expanding ==
    /\ Roots \subseteq Elems(nodes) \cup Elems(toStart) /\ Elems(toStart) \subseteq Roots
    /\ finished = {} /\ looped = {}
    /\ Calls(Children, links, stack)
    /\ \A c \in Called(stack) : status[c] = "pending"
    /\ Looping \/ Deep \/ Traversed(Others, Elems(nodes) \ Called(stack), stack)

Inspecting ==
    /\ Roots \subseteq Elems(nodes)
    /\ finished \cap Called(stack) = {}
    /\ Elems(nodes) \subseteq finished \cup Called(stack) \cup Elems(toStart)
    /\ Calls(Needed, links, stack)
    /\ looped # {} \/ Traversed(Needed, finished, stack)
    /\ Looping \/ Deep \/ Traversed(Others, Elems(nodes), <<>>)

CompositionInv ==
    /\ PlanTyped
    /\ (work \in {"roots", "inspect"} /\ NoneExcluded) => NodesAre
    /\ (work = "roots" /\ NoneExcluded) => Expanding
    /\ (work = "inspect" /\ NoneExcluded) => Inspecting
    /\ (work = "composed" /\ NoneExcluded) => Elems(nodes) \subseteq Whole
    /\ work = "composed" => CompositionsAreSound

LEMMA InputStays ==
  ASSUME input' = input
  PROVE  /\ Roots' = Roots /\ Opened' = Opened /\ Whole' = Whole /\ NoneExcluded' = NoneExcluded
         /\ Children' = Children /\ Others' = Others
<1>1. Roots' = Roots /\ Opened' = Opened
  BY DEF Roots, Opened
<1> QED BY <1>1 DEF Whole, NoneExcluded, Children, Others

LEMMA FewIds == ASSUME NEW S \in SUBSET Ids PROVE S \subseteq Int /\ IsFiniteSet(S)
<1>1. IsFiniteSet(S)
  BY IdsAssumption, FS_Subset
<1>2. S \subseteq Int
  BY IdsAssumption
<1> QED BY <1>1, <1>2

LEMMA InputTyped ==
  ASSUME PlanTyped, work # "idle"
  PROVE  /\ input.registry \subseteq Ids /\ input.exclude \subseteq Ids
         /\ input.children \in [Ids -> Seq(Ids)] /\ input.conflicts \in Relation
         /\ Roots \subseteq Ids /\ Opened \in Relation /\ Others \in Relation
         /\ Children \in Relation
<1>1. /\ input.registry \subseteq Ids /\ input.exclude \subseteq Ids
      /\ input.children \in [Ids -> Seq(Ids)] /\ input.conflicts \in Relation
      /\ input.roots \in Seq(Ids)
  BY DEF PlanTyped, Composable
<1>2. \A q \in Seq(Ids) : Elems(q) \subseteq Ids
  BY DEF Elems
<1>3. Elems(Sorted(input.registry)) \subseteq Ids
  <2>1. input.registry \subseteq Int /\ IsFiniteSet(input.registry)
    BY <1>1, FewIds
  <2> QED BY <1>1, <2>1, SortedLists
<1>4. Roots \subseteq Ids
  BY <1>1, <1>2, <1>3 DEF Roots
<1>5. \A c \in Ids : Elems(input.children[c]) \subseteq Ids
  BY <1>1, <1>2
<1> QED BY <1>1, <1>4, <1>5 DEF Opened, Others, Children, Relation

LEMMA WholeIsClosed ==
  ASSUME PlanTyped, work # "idle"
  PROVE  IsClosure(Opened, Roots, Whole)
BY InputTyped, ReachIsClosure DEF Whole

(* A new node, ...                                                          *)
LEMMA NodeAdded ==
  ASSUME PlanTyped, NodesAre, input' = input,
         NEW c \in Whole \cap Ids, NEW s \in {"missing", "skipped", "pending"}, NEW d,
         AddNode(c, s, d),
         status[c] = "none" \/ (status[c] = "missing" /\ s = "missing"),
         s = "missing" => c \notin input.registry
                          /\ (c \in Roots \/ \E a \in Ids : <<a, c>> \in links'),
         s = "skipped" => c \in input.registry \cap input.exclude,
         s = "pending" => c \in input.registry \ input.exclude,
         links \subseteq links',
         \A a, b \in Ids : <<a, b>> \in links' => <<a, b>> \in links \/ status[a] # "none"
  PROVE  /\ NodesAre' /\ Elems(nodes') = Elems(nodes) \cup {c} /\ (Deep => Deep')
         /\ \A x \in Ids : x # c => status'[x] = status[x]
         /\ status'[c] = s
<1>1. /\ nodes' = Append(nodes, c) /\ status' = [status EXCEPT ![c] = s]
      /\ depth' = [depth EXCEPT ![c] = d]
  BY DEF AddNode
<1>2. /\ \A x \in Ids : x # c => status'[x] = status[x] /\ depth'[x] = depth[x]
      /\ status'[c] = s
  BY <1>1 DEF PlanTyped
<1>3. Elems(nodes') = Elems(nodes) \cup {c}
  <2> DEFINE n == Len(nodes)
             t == nodes'
  <2>1. /\ n \in Nat /\ DOMAIN nodes = 1 .. n /\ DOMAIN t = 1 .. n + 1
        /\ t[n + 1] = c /\ \A i \in 1 .. n : t[i] = nodes[i]
    BY <1>1 DEF PlanTyped
  <2>2. /\ \A i \in 1 .. n + 1 : i \in 1 .. n \/ i = n + 1
        /\ \A i \in 1 .. n : i \in 1 .. n + 1
        /\ n + 1 \in 1 .. n + 1
    BY <2>1
  <2> HIDE DEF n, t
  <2>3. Elems(t) = Elems(nodes) \cup {c}
    BY <2>1, <2>2 DEF Elems
  <2> QED BY <2>3 DEF t
<1>4. Deep => Deep'
  <2> SUFFICES ASSUME NEW x \in Ids, status[x] = "pending", depth[x] >= MaxDepth PROVE Deep'
    BY DEF Deep
  <2>1. x # c
    OBVIOUS
  <2> QED BY <1>2, <2>1 DEF Deep
<1>5. Elems(nodes') = {x \in Ids : status'[x] # "none"}
  BY <1>2, <1>3 DEF NodesAre
<1>6. Elems(nodes') \subseteq Whole
  BY <1>3 DEF NodesAre
<1>7. /\ Roots' = Roots /\ Whole' = Whole
  BY InputStays
<1>8. ASSUME NEW x \in Ids
      PROVE  /\ status'[x] \in {"none", "missing", "pending", "skipped"}
             /\ status'[x] = "missing" =>
                  x \notin input.registry /\ (x \in Roots \/ \E a \in Ids : <<a, x>> \in links')
             /\ status'[x] = "skipped" => x \in input.registry \cap input.exclude
             /\ status'[x] = "pending" => x \in input.registry \ input.exclude
  <2>1. CASE x = c
    BY <1>2, <2>1
  <2>2. CASE x # c
    BY <1>2, <2>2 DEF NodesAre
  <2> QED BY <2>1, <2>2
<1>9. \A a, b \in Ids : <<a, b>> \in links' => status'[a] # "none"
  BY <1>2 DEF NodesAre
<1>10. NodesAre'
  BY <1>5, <1>6, <1>7, <1>8, <1>9 DEF NodesAre
<1> QED BY <1>2, <1>3, <1>4, <1>10

(* ... and a link from a node.                                              *)
LEMMA LinkAdded ==
  ASSUME NodesAre, UNCHANGED <<input, nodes, status, depth>>, links \subseteq links',
         \A a, b \in Ids : <<a, b>> \in links' => <<a, b>> \in links \/ status[a] # "none"
  PROVE  NodesAre' /\ (Deep => Deep')
<1>1. Roots' = Roots /\ Whole' = Whole
  BY InputStays
<1>2. Deep' = Deep
  BY DEF Deep
<1> QED BY <1>1, <1>2 DEF NodesAre

LEMMA LoopingStays == ASSUME links \subseteq links', Looping PROVE Looping'
<1> SUFFICES ASSUME NEW f, Decreases(f, links') PROVE FALSE
  BY DEF Looping
<1>1. Decreases(f, links)
  BY DEF Decreases
<1> QED BY <1>1 DEF Looping

(* The types.                                                               *)
LEMMA FrameTyped == ASSUME PlanTyped, work # "idle", NEW c \in Ids PROVE Frame(c) \in Frames
BY InputTyped DEF Frame, Frames

LEMMA EntryTyped ==
  ASSUME PlanTyped, NEW c \in Ids
  PROVE  /\ [id |-> c, kids |-> Sorted(Required(c))] \in Frames
         /\ Elems(Sorted(Required(c))) = Needed[c]
<1>1. Required(c) \subseteq Ids /\ Required(c) \subseteq Int /\ IsFiniteSet(Required(c))
  <2>1. Required(c) \subseteq Ids
    BY DEF Required
  <2> QED BY <2>1, FewIds
<1>2. /\ Sorted(Required(c)) \in Seq(Required(c)) /\ Elems(Sorted(Required(c))) = Required(c)
  BY <1>1, SortedLists
<1>3. Sorted(Required(c)) \in Seq(Ids)
  BY <1>1, <1>2
<1> QED BY <1>2, <1>3 DEF Frames, Needed

LEMMA AddTyped ==
  ASSUME PlanTyped, NEW c \in Ids, NEW s \in {"missing", "skipped", "pending"}, NEW d \in Nat,
         AddNode(c, s, d)
  PROVE  /\ nodes' \in Seq(Ids) /\ depth' \in [Ids -> Nat]
         /\ status' \in [Ids -> {"none", "missing", "pending", "skipped", "conflict", "satisfied"}]
BY DEF PlanTyped, AddNode

-----------------------------------------------------------------------------
LEMMA NobodyCalled ==
         /\ <<>> \in Seq(Frames) /\ Called(<<>>) = {}
         /\ \A kidsOf, lnk : Calls(kidsOf, lnk, <<>>)
         /\ \A rel : Traversed(rel, {}, <<>>)
<1>1. Len(<<>>) = 0 /\ <<>> \in Seq(Frames) /\ 1 .. 0 = {} /\ 1 .. 0 - 1 = {}
  OBVIOUS
<1>2. Called(<<>>) = {} /\ \A kidsOf, lnk : Calls(kidsOf, lnk, <<>>)
  BY <1>1 DEF Called, Calls, OnceEach
<1>3. ASSUME NEW rel PROVE Ranks(rel, {}, <<>>, [c \in Ids |-> 0], 0)
  BY <1>1 DEF Ranks
<1> QED BY <1>1, <1>2, <1>3 DEF Traversed

LEMMA PlanInitInv == PlanInit => CompositionInv
<1> SUFFICES ASSUME PlanInit PROVE CompositionInv
  OBVIOUS
<1>1. PlanTyped
  <2>1. /\ <<>> \in Seq(Ids) /\ <<>> \in Seq(Frames) /\ {} \in SUBSET (Ids \X Ids)
        /\ {} \in SUBSET Ids
    OBVIOUS
  <2> QED BY <2>1 DEF PlanInit, PlanTyped
<1> QED BY <1>1 DEF PlanInit, CompositionInv

(* composePlan is called, with a list or for the whole registry.            *)
Composes ==
    /\ work = "idle" /\ work' = "roots" /\ Composable(input')
    /\ toStart' = IF input'.roots = <<>> THEN Sorted(input'.registry) ELSE input'.roots
    /\ UNCHANGED <<stack, nodes, status, depth, links, finished, looped>>

LEMMA ComposesInv == ASSUME CompositionInv, Composes PROVE CompositionInv'
<1>1. /\ work = "idle" /\ work' = "roots" /\ Composable(input')
      /\ toStart' = IF input'.roots = <<>> THEN Sorted(input'.registry) ELSE input'.roots
      /\ UNCHANGED <<stack, nodes, status, depth, links, finished, looped>>
  BY DEF Composes
<1>2. /\ nodes = <<>> /\ stack = <<>> /\ links = {} /\ finished = {} /\ looped = {}
      /\ \A c \in Ids : status[c] = "none"
  BY <1>1 DEF CompositionInv, PlanTyped
<1>3. toStart' \in Seq(Ids)
  <2>1. input'.registry \in SUBSET Ids /\ input'.roots \in Seq(Ids)
    BY <1>1 DEF Composable
  <2>2. Sorted(input'.registry) \in Seq(input'.registry)
    BY <2>1, FewIds, SortedLists
  <2>3. Sorted(input'.registry) \in Seq(Ids)
    BY <2>1, <2>2
  <2> QED BY <1>1, <2>1, <2>3
<1>4. PlanTyped'
  BY <1>1, <1>3 DEF CompositionInv, PlanTyped
<1>5. Roots' = Elems(toStart')
  BY <1>1 DEF Roots
<1>6. Elems(nodes) = {}
  BY <1>2 DEF Elems
<1>7. NodesAre'
  BY <1>1, <1>2, <1>6 DEF NodesAre
<1>8. Expanding'
  <2>1. Calls(Children', links', stack') /\ Called(stack') = {} /\ Elems(nodes') \ Called(stack') = {}
    BY <1>1, <1>2, <1>6, NobodyCalled
  <2>2. Traversed(Others', Elems(nodes') \ Called(stack'), stack')
    BY <1>1, <1>2, <2>1, NobodyCalled
  <2> QED BY <1>1, <1>2, <1>5, <2>1, <2>2 DEF Expanding
<1> QED BY <1>1, <1>4, <1>7, <1>8 DEF CompositionInv

LEMMA ComposeInv == ASSUME CompositionInv, Compose PROVE CompositionInv'
<1>1. input' \in Compositions
  BY DEF Compose
<1>2. Composes
  BY <1>1, PlanAssumption DEF Compose, Composes, Composable
<1> QED BY <1>2, ComposesInv

LEMMA FirstCalled ==
  ASSUME NEW kidsOf, NEW lnk, NEW fr \in Frames, Elems(fr.kids) \subseteq kidsOf[fr.id]
  PROVE  Calls(kidsOf, lnk, <<fr>>) /\ Called(<<fr>>) = {fr.id}
<1>1. Len(<<fr>>) = 1 /\ <<fr>>[1] = fr /\ 1 .. 1 - 1 = {} /\ \A i \in 1 .. 1 : i = 1
  OBVIOUS
<1>2. 1 \in 1 .. 1
  OBVIOUS
<1> QED BY <1>1, <1>2 DEF Calls, Called, OnceEach

(* A node that is no call: what it leads to is nothing.                     *)
LEMMA LeafAdded ==
  ASSUME NEW c \in Ids, NEW done \in SUBSET Ids, NEW s \in Seq(Frames), Others[c] = {},
         Traversed(Others, done \ Called(s), s), c \notin Called(s)
  PROVE  Traversed(Others, (done \cup {c}) \ Called(s), s)
<1>1. (done \cup {c}) \ Called(s) = (done \ Called(s)) \cup {c}
  OBVIOUS
<1>2. Traversed(Others, (done \ Called(s)) \cup {c}, s)
  BY FinishOne
<1> QED BY <1>1, <1>2

LEMMA StartRootInv == ASSUME CompositionInv, StartRoot PROVE CompositionInv'
<1> DEFINE c == Head(toStart)
<1>1. /\ work = "roots" /\ work' = "roots" /\ stack = <<>> /\ toStart # <<>>
      /\ toStart' = Tail(toStart) /\ UNCHANGED <<input, links, finished, looped>>
      /\ PlanTyped
  BY DEF StartRoot, CompositionInv
<1>2. /\ c \in Ids /\ Tail(toStart) \in Seq(Ids) /\ Elems(toStart) = {c} \cup Elems(toStart')
  BY <1>1, HeadAndTail DEF PlanTyped
<1>3. \/ c \notin input.registry /\ AddNode(c, "missing", 1) /\ UNCHANGED stack
      \/ Exists(c) /\ UNCHANGED <<nodes, status, depth, stack>>
      \/ /\ c \in input.registry /\ ~Exists(c) /\ AddNode(c, "pending", 1)
         /\ stack' = IF MaxDepth < 2 THEN <<>> ELSE <<Frame(c)>>
  BY DEF StartRoot
<1> HIDE DEF c
<1>4. PlanTyped'
  <2>1. Frame(c) \in Frames
    BY <1>1, <1>2, FrameTyped
  <2>2. stack' \in Seq(Frames)
    <3>1. <<>> \in Seq(Frames) /\ <<Frame(c)>> \in Seq(Frames)
      BY <2>1
    <3> QED BY <1>1, <1>3, <3>1
  <2>3. /\ nodes' \in Seq(Ids) /\ depth' \in [Ids -> Nat]
        /\ status' \in [Ids -> {"none", "missing", "pending", "skipped", "conflict", "satisfied"}]
    BY <1>1, <1>2, <1>3, AddTyped DEF PlanTyped
  <2> QED BY <1>1, <1>2, <2>2, <2>3 DEF PlanTyped
<1>5. ASSUME NoneExcluded' PROVE NodesAre' /\ Expanding'
  <2>1. /\ Roots' = Roots /\ Whole' = Whole /\ Children' = Children /\ Others' = Others
        /\ Looping' = Looping
        /\ NoneExcluded /\ NodesAre /\ Expanding
    BY <1>1, <1>5, InputStays DEF CompositionInv, Looping
  <2>2. /\ c \in Roots /\ c \in Whole /\ c \notin input.exclude /\ Elems(toStart') \subseteq Roots
        /\ Elems(nodes) \in SUBSET Ids
    <3>1. Roots \subseteq Whole
      BY <1>1, WholeIsClosed DEF IsClosure
    <3> QED BY <1>2, <2>1, <3>1 DEF Expanding, NoneExcluded, NodesAre
  <2>3. Called(<<>>) = {} /\ Calls(Children, links, <<>>) /\ <<>> \in Seq(Frames)
    BY NobodyCalled
  <2>4. Looping \/ Deep \/ Traversed(Others, Elems(nodes), <<>>)
    <3>1. Elems(nodes) \ {} = Elems(nodes)
      OBVIOUS
    <3> QED BY <1>1, <2>1, <2>3, <3>1 DEF Expanding
  <2>5. CASE c \notin input.registry /\ AddNode(c, "missing", 1) /\ UNCHANGED stack
    <3>1. status[c] = "none" \/ status[c] = "missing"
      BY <1>2, <2>1, <2>5 DEF NodesAre
    <3>2. NodesAre' /\ Elems(nodes') = Elems(nodes) \cup {c} /\ (Deep => Deep')
      BY <1>1, <1>2, <2>1, <2>2, <2>5, <3>1, NodeAdded
    <3>3. Others[c] = {}
      BY <1>2, <2>5 DEF Others, Opened
    <3>4. Traversed(Others, Elems(nodes), <<>>) => Traversed(Others, Elems(nodes'), <<>>)
      <4>1. Others[c] \subseteq Elems(nodes)
        BY <3>3
      <4>2. Traversed(Others, Elems(nodes), <<>>) => Traversed(Others, Elems(nodes) \cup {c}, <<>>)
        BY <1>2, <2>2, <2>3, <4>1, FinishOne
      <4> QED BY <3>2, <4>2
    <3>5. Elems(nodes') \ Called(stack') = Elems(nodes') /\ stack' = <<>> /\ Called(stack') = {}
      BY <1>1, <2>3, <2>5
    <3> QED BY <1>1, <1>2, <2>1, <2>2, <2>3, <2>4, <3>2, <3>4, <3>5 DEF Expanding
  <2>6. CASE Exists(c) /\ UNCHANGED <<nodes, status, depth, stack>>
    <3>1. NodesAre' /\ (Deep => Deep')
      BY <1>1, <2>1, <2>6, LinkAdded DEF NodesAre
    <3>2. c \in Elems(nodes)
      BY <1>2, <2>1, <2>6 DEF NodesAre, Exists
    <3> QED BY <1>1, <1>2, <2>1, <2>2, <2>6, <3>1, <3>2 DEF Expanding
  <2>7. CASE /\ c \in input.registry /\ ~Exists(c) /\ AddNode(c, "pending", 1)
             /\ stack' = IF MaxDepth < 2 THEN <<>> ELSE <<Frame(c)>>
    <3>1. status[c] = "none"
      BY <1>2, <2>1, <2>7 DEF NodesAre, Exists
    <3>2. /\ NodesAre' /\ Elems(nodes') = Elems(nodes) \cup {c} /\ (Deep => Deep')
          /\ status'[c] = "pending"
      BY <1>1, <1>2, <2>1, <2>2, <2>7, <3>1, NodeAdded
    <3>3. CASE MaxDepth < 2
      <4>1. depth'[c] = 1
        BY <1>1, <1>2, <2>7 DEF AddNode, PlanTyped
      <4>2. Deep'
        BY <1>2, <3>2, <3>3, <4>1, PlanAssumption DEF Deep
      <4> QED BY <1>1, <1>2, <2>1, <2>2, <2>3, <2>7, <3>2, <3>3, <4>2 DEF Expanding
    <3>4. CASE ~(MaxDepth < 2)
      <4> DEFINE fr == Frame(c)
      <4>1. fr \in Frames /\ fr.id = c /\ fr.kids = input.children[c]
        BY <1>1, <1>2, FrameTyped DEF Frame
      <4>2. Elems(fr.kids) = Children[c] /\ Others[c] \subseteq Children[c]
        BY <1>2, <4>1 DEF Children, Others, Opened
      <4> HIDE DEF fr
      <4>4. Calls(Children, links, <<fr>>) /\ Called(<<fr>>) = {c}
        BY <4>1, <4>2, FirstCalled
      <4>5. Traversed(Others, Elems(nodes), <<>>) => Traversed(Others, Elems(nodes), <<fr>>)
        BY <4>1, <4>2, CallFirst
      <4>6. c \notin Elems(nodes)
        BY <2>1, <3>1 DEF NodesAre
      <4>7. Elems(nodes') \ {c} = Elems(nodes)
        BY <3>2, <4>6
      <4>8. stack' = <<fr>>
        BY <2>7, <3>4 DEF fr
      <4> QED BY <1>1, <1>2, <2>1, <2>2, <2>4, <3>2, <4>4, <4>5, <4>7, <4>8 DEF Expanding
    <3> QED BY <3>3, <3>4
  <2> QED BY <1>3, <2>5, <2>6, <2>7
<1> QED BY <1>1, <1>4, <1>5 DEF CompositionInv

(* The child of the call on top: a node there is already, ...               *)
ChildOf(c, k) ==
    /\ c = stack[Len(stack)].id /\ k = Head(stack[Len(stack)].kids)
    /\ c \in Ids /\ k \in Ids /\ c \in Called(stack)
    /\ stack # <<>> /\ stack[Len(stack)].kids # <<>> /\ stack \in Seq(Frames)
    /\ work = "roots" /\ work' = "roots" /\ UNCHANGED <<input, toStart, finished, looped>>
    /\ PlanTyped /\ NodesAre /\ Expanding /\ NoneExcluded

LEMMA ChildKnown ==
  ASSUME NEW c, NEW k, ChildOf(c, k)
  PROVE  /\ status[c] = "pending" /\ c \in input.registry \ input.exclude
         /\ k \in Children[c] /\ k \in Opened[c] /\ k \in Whole
         /\ Elems(nodes) \in SUBSET Ids
         /\ \A x \in Called(stack) : x \in Elems(nodes) /\ status[x] = "pending"
<1>1. \A x \in Called(stack) : status[x] = "pending" /\ x \in Ids
  <2>1. \A i \in 1 .. Len(stack) : stack[i] \in Frames /\ stack[i].id \in Ids
    <3>1. \A i \in 1 .. Len(stack) : stack[i] \in Frames
      BY DEF ChildOf
    <3> QED BY <3>1 DEF Frames
  <2> QED BY <2>1 DEF ChildOf, Expanding, Called
<1>2. \A x \in Called(stack) : x \in Elems(nodes)
  BY <1>1 DEF ChildOf, NodesAre
<1>3. status[c] = "pending" /\ c \in input.registry \ input.exclude /\ c \in Whole /\ c \in Ids
  BY <1>1, <1>2 DEF ChildOf, NodesAre
<1>4. k \in Children[c]
  <2>1. k \in Elems(stack[Len(stack)].kids) /\ Len(stack) \in 1 .. Len(stack)
    BY TopFrame, HeadAndTail DEF ChildOf
  <2> QED BY <2>1 DEF ChildOf, Expanding, Calls
<1>5. k \in Opened[c]
  BY <1>3, <1>4 DEF Opened, Children
<1>6. k \in Whole
  BY <1>3, <1>5, WholeIsClosed DEF ChildOf, IsClosure, ClosedUnder
<1>7. Elems(nodes) \in SUBSET Ids
  BY DEF ChildOf, NodesAre
<1> QED BY <1>1, <1>2, <1>3, <1>4, <1>5, <1>6, <1>7

LEMMA ExpandSame ==
  ASSUME NEW c, NEW k, ChildOf(c, k), Exists(k), stack' = WithoutKid(stack),
         UNCHANGED <<nodes, status, depth>>,
         \/ k \in Visited /\ k \notin input.exclude /\ links' = links \cup {<<c, k>>}
         \/ ~(k \in Visited /\ k \notin input.exclude) /\ links' = links
  PROVE  NodesAre' /\ Expanding'
<1> DEFINE D == Elems(nodes) \ Called(stack)
<1>1. /\ Roots' = Roots /\ Children' = Children /\ Others' = Others
  BY InputStays DEF ChildOf
<1>2. NodesAre' /\ (Deep => Deep')
  <2>1. links \subseteq links' /\ status[c] # "none"
    BY ChildKnown
  <2>2. \A a, b \in Ids : <<a, b>> \in links' => <<a, b>> \in links \/ status[a] # "none"
    BY <2>1
  <2> QED BY <2>1, <2>2, LinkAdded DEF ChildOf
<1>3. links \subseteq links' /\ links' \in SUBSET (Ids \X Ids)
  BY DEF ChildOf, PlanTyped
<1>4. Calls(Children, links', stack)
  BY <1>3, CallsMore DEF ChildOf, Expanding
<1>5. Calls(Children, links', stack') /\ Called(stack') = Called(stack)
  BY <1>4, CallsSkip DEF ChildOf
<1>6. Looping => Looping'
  BY <1>3, LoopingStays
<1>7. Looping' \/ Deep' \/ Traversed(Others, D, stack')
  <2>1. CASE k \in Visited /\ k \notin input.exclude /\ links' = links \cup {<<c, k>>}
    <3>1. k \in Called(stack)
      <4>1. Len(stack) \in Nat \ {0}
        BY TopFrame DEF ChildOf
      <4>2. 1 \in 1 .. Len(stack) /\ \A i \in 1 .. Len(stack) - 1 : i \in 1 .. Len(stack)
        BY <4>1
      <4> QED BY <2>1, <4>2 DEF Visited, Called
    <3>2. <<stack[Len(stack)].id, k>> \in links'
      BY <2>1 DEF ChildOf
    <3>3. \A f : ~Decreases(f, links')
      BY <1>3, <1>4, <3>1, <3>2, LinkBack DEF ChildOf
    <3> QED BY <3>3 DEF Looping
  <2>2. CASE ~(k \in Visited /\ k \notin input.exclude) /\ links' = links
    <3>1. k = c \/ k \in D
      <4>1. k \in Elems(nodes)
        BY DEF Exists, NodesAre, ChildOf
      <4>2. CASE k \in input.exclude
        BY <4>1, <4>2, ChildKnown DEF NodesAre, ChildOf
      <4>3. CASE k \notin Visited
        <5>1. ASSUME k \in Called(stack) PROVE k = c
          <6>1. Len(stack) \in Nat \ {0}
            BY TopFrame DEF ChildOf
          <6>2. \A i \in 1 .. Len(stack) : i \in 1 .. Len(stack) - 1 \/ i = Len(stack)
            BY <6>1
          <6>3. PICK i \in 1 .. Len(stack) : k = stack[i].id
            BY <5>1 DEF Called
          <6>4. i = Len(stack)
            BY <4>3, <6>2, <6>3 DEF Visited
          <6> QED BY <6>3, <6>4 DEF ChildOf
        <5> QED BY <4>1, <5>1
      <4> QED BY <2>2, <4>2, <4>3
    <3>2. c \notin Others[c]
      BY DEF Others, ChildOf
    <3>3. Head(stack[Len(stack)].kids) \in Others[stack[Len(stack)].id]
            => Head(stack[Len(stack)].kids) \in D
      BY <3>1, <3>2 DEF ChildOf
    <3>4. Traversed(Others, D, stack) => Traversed(Others, D, WithoutKid(stack))
      BY <3>3, SkipKid DEF ChildOf
    <3> QED BY <1>2, <1>6, <3>4 DEF ChildOf, Expanding
  <2> QED BY <2>1, <2>2
<1> QED BY <1>1, <1>2, <1>5, <1>7 DEF Expanding, ChildOf

(* ... one that is not expanded, ...                                        *)
LEMMA ExpandLeaf ==
  ASSUME NEW c, NEW k, ChildOf(c, k), ~Exists(k), stack' = WithoutKid(stack),
         NEW d, links' = links \cup {<<c, k>>},
         \/ k \notin input.registry /\ AddNode(k, "missing", d)
         \/ k \in input.registry \cap input.exclude /\ AddNode(k, "skipped", d)
  PROVE  NodesAre' /\ Expanding'
<1> DEFINE D == Elems(nodes) \ Called(stack)
           D2 == (Elems(nodes) \cup {k}) \ Called(stack)
<1>1. /\ Roots' = Roots /\ Children' = Children /\ Others' = Others
      /\ k \in Ids /\ c \in Ids /\ status[c] = "pending" /\ k \in Whole
  BY InputStays, ChildKnown DEF ChildOf
<1>2. /\ links \subseteq links' /\ <<c, k>> \in links'
      /\ \A a, b \in Ids : <<a, b>> \in links' => <<a, b>> \in links \/ status[a] # "none"
  BY <1>1
<1>3. /\ status[k] = "none" \/ status[k] = "missing"
      /\ status[k] = "missing" => k \notin input.registry
  BY <1>1 DEF Exists, NodesAre, ChildOf
<1>4. /\ NodesAre' /\ Elems(nodes') = Elems(nodes) \cup {k} /\ (Deep => Deep')
      /\ \A x \in Ids : x # k => status'[x] = status[x]
  <2>1. CASE k \notin input.registry /\ AddNode(k, "missing", d)
    BY <1>1, <1>2, <1>3, <2>1, NodeAdded DEF ChildOf
  <2>2. CASE k \in input.registry \cap input.exclude /\ AddNode(k, "skipped", d)
    BY <1>1, <1>2, <1>3, <2>2, NodeAdded DEF ChildOf
  <2> QED BY <2>1, <2>2
<1>5. k \notin Called(stack) /\ \A x \in Called(stack) : status'[x] = "pending"
  <2>1. \A x \in Called(stack) : status[x] = "pending" /\ x \in Ids
    BY ChildKnown
  <2> QED BY <1>3, <1>4, <2>1
<1>6. Calls(Children, links', stack') /\ Called(stack') = Called(stack)
  BY <1>2, CallsMore, CallsSkip DEF ChildOf, Expanding
<1>7. Looping => Looping'
  BY <1>2, LoopingStays
<1>8. Traversed(Others, D, stack) => Traversed(Others, D2, WithoutKid(stack))
  <2> SUFFICES ASSUME Traversed(Others, D, stack) PROVE Traversed(Others, D2, WithoutKid(stack))
    OBVIOUS
  <2>1. Others[k] = {}
    BY <1>1 DEF Others, Opened
  <2>2. Traversed(Others, D2, stack)
    BY <1>1, <1>5, <2>1, LeafAdded, ChildKnown DEF ChildOf
  <2>3. k \in D2
    BY <1>5
  <2> QED BY <2>2, <2>3, SkipKid DEF ChildOf
<1>9. Looping' \/ Deep' \/ Traversed(Others, D2, stack')
  BY <1>4, <1>7, <1>8 DEF ChildOf, Expanding
<1>10. D2 = Elems(nodes') \ Called(stack')
  BY <1>4, <1>6
<1> HIDE DEF D2
<1> QED BY <1>1, <1>4, <1>5, <1>6, <1>9, <1>10 DEF Expanding, ChildOf

(* ... and one that is, unless it is too deep.                              *)
LEMMA ExpandCall ==
  ASSUME NEW c, NEW k, ChildOf(c, k), ~Exists(k), links' = links \cup {<<c, k>>},
         k \in input.registry \ input.exclude, AddNode(k, "pending", Len(stack) + 1),
         stack' = IF Len(stack) + 2 > MaxDepth THEN WithoutKid(stack)
                  ELSE Append(WithoutKid(stack), Frame(k))
  PROVE  NodesAre' /\ Expanding'
<1> DEFINE D == Elems(nodes) \ Called(stack)
           r == WithoutKid(stack)
<1>1. /\ Roots' = Roots /\ Children' = Children /\ Others' = Others
      /\ k \in Ids /\ c \in Ids /\ status[c] = "pending" /\ k \in Whole
  BY InputStays, ChildKnown DEF ChildOf
<1>2. /\ links \subseteq links' /\ <<c, k>> \in links'
      /\ \A a, b \in Ids : <<a, b>> \in links' => <<a, b>> \in links \/ status[a] # "none"
  BY <1>1
<1>3. status[k] = "none" /\ k \notin Elems(nodes)
  BY <1>1 DEF Exists, NodesAre, ChildOf
<1>4. /\ NodesAre' /\ Elems(nodes') = Elems(nodes) \cup {k} /\ (Deep => Deep')
      /\ (\A x \in Ids : x # k => status'[x] = status[x]) /\ status'[k] = "pending"
  BY <1>1, <1>2, <1>3, NodeAdded DEF ChildOf
<1>5. k \notin Called(stack) /\ \A x \in Called(stack) : status'[x] = "pending"
  <2>1. \A x \in Called(stack) : status[x] = "pending" /\ x \in Ids
    BY ChildKnown
  <2> QED BY <1>3, <1>4, <2>1
<1>6. /\ Calls(Children, links', r) /\ Called(r) = Called(stack) /\ r \in Seq(Frames)
      /\ r # <<>> /\ r[Len(r)].id = c
  <2>1. Calls(Children, links', stack)
    BY <1>2, CallsMore DEF ChildOf, Expanding
  <2> QED BY <2>1, CallsSkip DEF ChildOf
<1>7. Looping => Looping'
  BY <1>2, LoopingStays
<1>8. CASE Len(stack) + 2 > MaxDepth
  <2>1. depth'[k] = Len(stack) + 1
    BY <1>1 DEF AddNode, ChildOf, PlanTyped
  <2>2. Len(stack) \in Nat
    BY TopFrame DEF ChildOf
  <2>3. Deep'
    BY <1>1, <1>4, <1>8, <2>1, <2>2, PlanAssumption DEF Deep
  <2>4. stack' = r
    BY <1>8
  <2> QED BY <1>1, <1>4, <1>5, <1>6, <2>3, <2>4 DEF Expanding, ChildOf
<1>9. CASE ~(Len(stack) + 2 > MaxDepth)
  <2> DEFINE fr == Frame(k)
  <2>1. fr \in Frames /\ fr.id = k /\ fr.kids = input.children[k]
    BY <1>1, FrameTyped DEF Frame, ChildOf
  <2>2. Elems(fr.kids) = Children[k] /\ Others[k] \subseteq Children[k]
    BY <1>1, <2>1 DEF Children, Others, Opened
  <2> HIDE DEF fr
  <2>3. stack' = Append(r, fr)
    BY <1>9 DEF fr
  <2>4. Traversed(Others, D, stack) => Traversed(Others, D, Append(r, fr))
    BY <2>1, <2>2, CallKid DEF ChildOf
  <2> HIDE DEF r
  <2>5. Calls(Children, links', stack') /\ Called(stack') = Called(stack) \cup {k}
    <3>1. /\ fr.id \notin Called(r) /\ Elems(fr.kids) \subseteq Children[fr.id]
          /\ r # <<>> => <<r[Len(r)].id, fr.id>> \in links'
          /\ Calls(Children, links', r) /\ fr \in Frames /\ r \in Seq(Frames)
      BY <1>2, <1>5, <1>6, <2>1, <2>2
    <3>2. /\ Calls(Children, links', Append(r, fr))
          /\ Called(Append(r, fr)) = Called(r) \cup {fr.id}
      BY <3>1, CallsPush
    <3> QED BY <1>6, <2>1, <2>3, <3>2
  <2>6. Elems(nodes') \ Called(stack') = D
    BY <1>3, <1>4, <2>5
  <2>7. Looping' \/ Deep' \/ Traversed(Others, D, stack')
    BY <1>4, <1>7, <2>3, <2>4 DEF ChildOf, Expanding
  <2>8. \A x \in Called(stack') : status'[x] = "pending"
    BY <1>4, <1>5, <2>5
  <2> HIDE DEF D
  <2> QED BY <1>1, <1>4, <2>5, <2>6, <2>7, <2>8 DEF Expanding, ChildOf
<1> QED BY <1>8, <1>9

LEMMA ExpandChildInv == ASSUME CompositionInv, ExpandChild PROVE CompositionInv'
<1> DEFINE c == stack[Len(stack)].id
           k == Head(stack[Len(stack)].kids)
           n == Len(stack)
           r == WithoutKid(stack)
<1>1. /\ work = "roots" /\ work' = "roots" /\ stack # <<>> /\ stack[Len(stack)].kids # <<>>
      /\ UNCHANGED <<input, toStart, finished, looped>>
      /\ PlanTyped /\ stack \in Seq(Frames)
  BY DEF ExpandChild, CompositionInv, PlanTyped
<1>2. /\ c \in Ids /\ k \in Ids /\ c \in Called(stack) /\ n \in Nat /\ r \in Seq(Frames)
  BY <1>1, TopFrame, HeadAndTail, KidTaken DEF Called
<1>3. \/ /\ Exists(k) /\ k \in Visited /\ k \notin input.exclude
         /\ links' = links \cup {<<c, k>>} /\ stack' = r /\ UNCHANGED <<nodes, status, depth>>
      \/ /\ Exists(k) /\ ~(k \in Visited /\ k \notin input.exclude)
         /\ stack' = r /\ UNCHANGED <<links, nodes, status, depth>>
      \/ /\ ~Exists(k) /\ k \notin input.registry
         /\ links' = links \cup {<<c, k>>} /\ AddNode(k, "missing", n + 1) /\ stack' = r
      \/ /\ ~Exists(k) /\ k \in input.registry /\ k \in input.exclude
         /\ links' = links \cup {<<c, k>>} /\ AddNode(k, "skipped", n + 1) /\ stack' = r
      \/ /\ ~Exists(k) /\ k \in input.registry /\ k \notin input.exclude
         /\ links' = links \cup {<<c, k>>} /\ AddNode(k, "pending", n + 1)
         /\ stack' = IF n + 2 > MaxDepth THEN r ELSE Append(r, Frame(k))
  BY <1>1 DEF ExpandChild, WithoutKid
<1> HIDE DEF c, k, n, r
<1>4. PlanTyped'
  <2>1. Frame(k) \in Frames
    BY <1>1, <1>2, FrameTyped
  <2>2. Append(r, Frame(k)) \in Seq(Frames)
    BY <1>2, <2>1, Pushed
  <2>3. stack' \in Seq(Frames)
    BY <1>2, <1>3, <2>2
  <2>4. /\ nodes' \in Seq(Ids) /\ depth' \in [Ids -> Nat]
        /\ status' \in [Ids -> {"none", "missing", "pending", "skipped", "conflict", "satisfied"}]
    <3>1. n + 1 \in Nat
      BY <1>2
    <3> QED BY <1>1, <1>2, <1>3, <3>1, AddTyped DEF PlanTyped
  <2>5. links' \in SUBSET (Ids \X Ids)
    BY <1>1, <1>2, <1>3 DEF PlanTyped
  <2> QED BY <1>1, <2>3, <2>4, <2>5 DEF PlanTyped
<1>5. ASSUME NoneExcluded' PROVE NodesAre' /\ Expanding'
  <2>1. ChildOf(c, k)
    <3>1. NoneExcluded /\ NodesAre /\ Expanding
      BY <1>1, <1>5, InputStays DEF CompositionInv
    <3> QED BY <1>1, <1>2, <3>1 DEF ChildOf, c, k
  <2> QED BY <1>3, <2>1, ExpandSame, ExpandLeaf, ExpandCall DEF n, r
<1> QED BY <1>1, <1>4, <1>5 DEF CompositionInv

LEMMA GraphStays ==
  ASSUME UNCHANGED <<input, nodes, status, depth, links>>
  PROVE  /\ NodesAre' = NodesAre /\ NoneExcluded' = NoneExcluded
         /\ Roots' = Roots /\ Children' = Children /\ Others' = Others
         /\ Looping' = Looping /\ Deep' = Deep /\ Needed' = Needed
<1>1. /\ NoneExcluded' = NoneExcluded /\ Whole' = Whole
      /\ Roots' = Roots /\ Children' = Children /\ Others' = Others
  BY InputStays
<1>2. Looping' = Looping /\ Deep' = Deep /\ Needed' = Needed
  BY DEF Looping, Deep, Needed, Required
<1> QED BY <1>1, <1>2 DEF NodesAre

LEMMA ReturnInv == ASSUME CompositionInv, Return PROVE CompositionInv'
<1> DEFINE c == stack[Len(stack)].id
           r == WithoutTop(stack)
<1>1. /\ work \in {"roots", "inspect"} /\ stack # <<>> /\ stack[Len(stack)].kids = <<>>
      /\ stack' = r
      /\ finished' = IF work = "inspect" THEN finished \cup {c} ELSE finished
      /\ UNCHANGED <<work, input, toStart, nodes, status, depth, links, looped>>
      /\ PlanTyped /\ stack \in Seq(Frames) /\ finished \in SUBSET Ids
  BY DEF Return, CompositionInv, PlanTyped, WithoutTop
<1>2. c \in Ids /\ r \in Seq(Frames)
  BY <1>1, TopFrame, TopTaken
<1> HIDE DEF c, r
<1>3. PlanTyped'
  <2>1. finished' \in SUBSET Ids
    BY <1>1, <1>2
  <2> QED BY <1>1, <1>2, <2>1 DEF PlanTyped
<1>4. /\ NodesAre' = NodesAre /\ NoneExcluded' = NoneExcluded
      /\ Roots' = Roots /\ Children' = Children /\ Others' = Others
      /\ Looping' = Looping /\ Deep' = Deep /\ Needed' = Needed
  BY <1>1, GraphStays
<1>5. ASSUME NoneExcluded, work = "roots" PROVE Expanding'
  <2>1. NodesAre /\ Expanding
    BY <1>1, <1>5 DEF CompositionInv
  <2>2. /\ Calls(Children, links, r) /\ Called(stack) = Called(r) \cup {c} /\ c \notin Called(r)
    BY <1>1, <2>1, CallsPop DEF Expanding, c, r
  <2>3. c \in Elems(nodes)
    <3>1. status[c] = "pending"
      BY <2>1, <2>2 DEF Expanding
    <3> QED BY <1>2, <2>1, <3>1 DEF NodesAre
  <2> DEFINE D == Elems(nodes) \ Called(stack)
  <2>4. D \cup {c} = Elems(nodes) \ Called(r) /\ D \in SUBSET Ids
    BY <2>1, <2>2, <2>3 DEF NodesAre
  <2> HIDE DEF D
  <2>5. Traversed(Others, D, stack) => Traversed(Others, D \cup {c}, r)
    BY <1>1, <2>4, ReturnTop DEF c, r
  <2>6. Looping \/ Deep \/ Traversed(Others, Elems(nodes) \ Called(r), r)
    BY <2>1, <2>4, <2>5 DEF Expanding, D
  <2>7. finished' = finished
    BY <1>1, <1>5
  <2> QED BY <1>1, <1>4, <2>1, <2>2, <2>6, <2>7 DEF Expanding
<1>6. ASSUME NoneExcluded, work = "inspect" PROVE Inspecting'
  <2>1. NodesAre /\ Inspecting
    BY <1>1, <1>6 DEF CompositionInv
  <2>2. /\ Calls(Needed, links, r) /\ Called(stack) = Called(r) \cup {c} /\ c \notin Called(r)
    BY <1>1, <2>1, CallsPop DEF Inspecting, c, r
  <2>3. finished' = finished \cup {c}
    BY <1>1, <1>6
  <2>4. Traversed(Needed, finished, stack) => Traversed(Needed, finished', r)
    BY <1>1, <2>3, ReturnTop DEF c, r
  <2>5. finished' \cap Called(r) = {}
    BY <2>1, <2>2, <2>3 DEF Inspecting
  <2>6. Elems(nodes) \subseteq finished' \cup Called(r) \cup Elems(toStart)
    BY <2>1, <2>2, <2>3 DEF Inspecting
  <2> QED BY <1>1, <1>4, <2>1, <2>2, <2>4, <2>5, <2>6 DEF Inspecting
<1> QED BY <1>1, <1>3, <1>4, <1>5, <1>6 DEF CompositionInv

LEMMA InspectStartInv == ASSUME CompositionInv, InspectStart PROVE CompositionInv'
<1>1. /\ work = "roots" /\ work' = "inspect" /\ stack = <<>> /\ toStart = <<>>
      /\ toStart' = nodes
      /\ UNCHANGED <<input, stack, nodes, status, depth, links, finished, looped>>
      /\ PlanTyped
  BY DEF InspectStart, CompositionInv
<1>2. PlanTyped'
  BY <1>1 DEF PlanTyped
<1>3. /\ NodesAre' = NodesAre /\ NoneExcluded' = NoneExcluded
      /\ Roots' = Roots /\ Children' = Children /\ Others' = Others
      /\ Looping' = Looping /\ Deep' = Deep /\ Needed' = Needed
  BY <1>1, GraphStays
<1>4. ASSUME NoneExcluded PROVE NodesAre /\ Inspecting'
  <2>1. NodesAre /\ Expanding
    BY <1>1, <1>4 DEF CompositionInv
  <2>2. Called(<<>>) = {} /\ Calls(Needed, links, <<>>) /\ Traversed(Needed, {}, <<>>)
    BY NobodyCalled
  <2>3. Elems(toStart) = {}
    BY <1>1 DEF Elems
  <2>4. Elems(nodes) \ {} = Elems(nodes)
    OBVIOUS
  <2>5. Looping \/ Deep \/ Traversed(Others, Elems(nodes), <<>>)
    BY <1>1, <2>1, <2>2, <2>4 DEF Expanding
  <2>6. Roots \subseteq Elems(nodes) /\ finished = {}
    BY <2>1, <2>3 DEF Expanding
  <2> QED BY <1>1, <1>3, <2>1, <2>2, <2>5, <2>6 DEF Inspecting
<1> QED BY <1>1, <1>2, <1>3, <1>4 DEF CompositionInv

LEMMA VisitNodeInv == ASSUME CompositionInv, VisitNode PROVE CompositionInv'
<1> DEFINE c == Head(toStart)
           fr == [id |-> c, kids |-> Sorted(Required(c))]
<1>1. /\ work = "inspect" /\ work' = "inspect" /\ stack = <<>> /\ toStart # <<>>
      /\ toStart' = Tail(toStart)
      /\ UNCHANGED <<input, nodes, status, depth, links, finished, looped>>
      /\ PlanTyped
  BY DEF VisitNode, CompositionInv
<1>2. /\ c \in Ids /\ Tail(toStart) \in Seq(Ids) /\ Elems(toStart) = {c} \cup Elems(toStart')
  BY <1>1, HeadAndTail DEF PlanTyped
<1>3. fr \in Frames /\ fr.id = c /\ Elems(fr.kids) = Needed[c]
  BY <1>1, <1>2, EntryTyped
<1>4. stack' = IF c \in finished THEN <<>> ELSE <<fr>>
  <2>1. Append(<<>>, fr) = <<fr>>
    OBVIOUS
  <2> QED BY <1>1, <2>1 DEF VisitNode, Enter
<1> HIDE DEF c, fr
<1>5. PlanTyped'
  <2>1. <<>> \in Seq(Frames) /\ <<fr>> \in Seq(Frames)
    BY <1>3
  <2> QED BY <1>1, <1>2, <1>4, <2>1 DEF PlanTyped
<1>6. /\ NodesAre' = NodesAre /\ NoneExcluded' = NoneExcluded
      /\ Roots' = Roots /\ Children' = Children /\ Others' = Others
      /\ Looping' = Looping /\ Deep' = Deep /\ Needed' = Needed
  BY <1>1, GraphStays
<1>7. ASSUME NoneExcluded PROVE NodesAre /\ Inspecting'
  <2>1. NodesAre /\ Inspecting /\ Called(<<>>) = {}
    BY <1>1, <1>7, NobodyCalled DEF CompositionInv
  <2>2. CASE c \in finished
    BY <1>1, <1>2, <1>4, <1>6, <2>1, <2>2 DEF Inspecting
  <2>3. CASE c \notin finished
    <3>1. Calls(Needed, links, <<fr>>) /\ Called(<<fr>>) = {c}
      BY <1>3, FirstCalled
    <3>2. Traversed(Needed, finished, <<>>) => Traversed(Needed, finished, <<fr>>)
      BY <1>3, CallFirst
    <3>3. /\ finished \cap {c} = {}
          /\ Elems(nodes) \subseteq finished \cup {c} \cup Elems(toStart')
      BY <1>1, <1>2, <2>1, <2>3 DEF Inspecting
    <3> QED BY <1>1, <1>4, <1>6, <2>1, <2>3, <3>1, <3>2, <3>3 DEF Inspecting
  <2> QED BY <2>1, <2>2, <2>3
<1> QED BY <1>1, <1>5, <1>6, <1>7 DEF CompositionInv

LEMMA VisitRequiredInv == ASSUME CompositionInv, VisitRequired PROVE CompositionInv'
<1> DEFINE n == Len(stack)
           c == stack[n].id
           k == Head(stack[n].kids)
           r == WithoutKid(stack)
           fr == [id |-> k, kids |-> Sorted(Required(k))]
           open == {i \in 1 .. n : stack[i].id = k}
<1>1. /\ work = "inspect" /\ work' = "inspect" /\ stack # <<>> /\ stack[n].kids # <<>>
      /\ UNCHANGED <<input, toStart, nodes, status, depth, links, finished>>
      /\ PlanTyped /\ stack \in Seq(Frames)
  BY DEF VisitRequired, CompositionInv, PlanTyped
<1>2. /\ c \in Ids /\ k \in Ids /\ c \in Called(stack) /\ n \in Nat /\ r \in Seq(Frames)
      /\ k \in Elems(stack[n].kids) /\ n \in 1 .. n
  BY <1>1, TopFrame, HeadAndTail, KidTaken DEF Called
<1>3. fr \in Frames /\ fr.id = k /\ Elems(fr.kids) = Needed[k]
  BY <1>1, <1>2, EntryTyped
<1>4. /\ stack' = IF k \in finished \/ open # {} THEN r ELSE Append(r, fr)
      /\ open # {} => looped' # {}
      /\ open = {} => looped' = looped
  BY <1>1 DEF VisitRequired, WithoutKid
<1>5. open = {} <=> k \notin Called(stack)
  BY DEF Called
<1> HIDE DEF n, c, k, r, fr, open
<1>6. PlanTyped'
  <2>1. Append(r, fr) \in Seq(Frames)
    BY <1>2, <1>3, Pushed
  <2>2. stack' \in Seq(Frames)
    BY <1>2, <1>4, <2>1
  <2> QED BY <1>1, <2>2 DEF PlanTyped
<1>7. /\ NodesAre' = NodesAre /\ NoneExcluded' = NoneExcluded
      /\ Roots' = Roots /\ Children' = Children /\ Others' = Others
      /\ Looping' = Looping /\ Deep' = Deep /\ Needed' = Needed
  BY <1>1, GraphStays
<1>8. ASSUME NoneExcluded PROVE NodesAre /\ Inspecting'
  <2>1. NodesAre /\ Inspecting
    BY <1>1, <1>8 DEF CompositionInv
  <2>2. /\ Calls(Needed, links, r) /\ Called(r) = Called(stack)
        /\ r # <<>> /\ r[Len(r)].id = c
    BY <1>1, <2>1, CallsSkip DEF Inspecting, n, c, r
  <2>3. CASE open # {}
    BY <1>1, <1>4, <1>7, <2>1, <2>2, <2>3 DEF Inspecting
  <2>4. CASE open = {} /\ k \in finished
    <3>1. Traversed(Needed, finished, stack) => Traversed(Needed, finished, r)
      BY <1>1, <2>4, SkipKid DEF n, k, r
    <3> QED BY <1>1, <1>4, <1>7, <2>1, <2>2, <2>4, <3>1 DEF Inspecting
  <2>5. CASE open = {} /\ k \notin finished
    <3>1. <<c, k>> \in links
      <4>1. k \in Needed[c]
        BY <1>2, <2>1 DEF Inspecting, Calls, c, n
      <4> QED BY <1>2, <4>1 DEF Needed, Required
    <3>2. /\ fr.id \notin Called(r) /\ Elems(fr.kids) \subseteq Needed[fr.id]
          /\ r # <<>> => <<r[Len(r)].id, fr.id>> \in links
          /\ Calls(Needed, links, r) /\ fr \in Frames /\ r \in Seq(Frames)
      BY <1>2, <1>3, <1>5, <2>2, <2>5, <3>1
    <3>3. /\ Calls(Needed, links, Append(r, fr))
          /\ Called(Append(r, fr)) = Called(r) \cup {fr.id}
      BY <3>2, CallsPush
    <3>4. Traversed(Needed, finished, stack) => Traversed(Needed, finished, Append(r, fr))
      BY <1>1, <1>3, CallKid DEF n, k, r
    <3>5. stack' = Append(r, fr) /\ Called(stack') = Called(stack) \cup {k}
      BY <1>3, <1>4, <2>2, <2>5, <3>3
    <3>6. /\ finished \cap (Called(stack) \cup {k}) = {}
          /\ Elems(nodes) \subseteq finished \cup (Called(stack) \cup {k}) \cup Elems(toStart)
      BY <2>1, <2>5 DEF Inspecting
    <3> QED BY <1>1, <1>4, <1>7, <2>1, <2>5, <3>3, <3>4, <3>5, <3>6 DEF Inspecting
  <2> QED BY <2>1, <2>3, <2>4, <2>5
<1> QED BY <1>1, <1>6, <1>7, <1>8 DEF CompositionInv

(* What a plan without a reported cycle is, when nothing was cut off.       *)
LEMMA PlanIsWhole ==
  ASSUME PlanTyped, NodesAre, Inspecting, work = "inspect", stack = <<>>, toStart = <<>>,
         looped = {}, Uncut
  PROVE  /\ Elems(nodes) = Whole /\ \A c \in Whole : ~OnCycle(Others, c)
         /\ Traversed(Needed, finished, <<>>) /\ Node \subseteq finished
<1>1. Elems(toStart) = {} /\ Called(stack) = {}
  BY NobodyCalled DEF Elems
<1>2. Traversed(Needed, finished, <<>>) /\ Node \subseteq finished
  BY <1>1 DEF Inspecting, Node
<1>3. ~Looping
  <2>1. PICK f, n : Ranks(Needed, finished, <<>>, f, n)
    BY <1>2 DEF Traversed
  <2>2. ASSUME NEW a \in Ids, NEW b \in Ids, <<a, b>> \in links PROVE f[b] < f[a]
    <3>1. a \in finished
      BY <1>2, <2>2 DEF NodesAre, Node
    <3>2. b \in Needed[a]
      BY <2>2 DEF Needed, Required
    <3> QED BY <2>1, <3>1, <3>2 DEF Ranks
  <2>3. Decreases(f, links)
    BY <2>1, <2>2 DEF Decreases, Ranks
  <2> QED BY <2>3 DEF Looping
<1>4. ~Deep
  <2> SUFFICES ASSUME NEW c \in Ids, depth[c] >= MaxDepth PROVE FALSE
    BY DEF Deep
  <2>1. depth[c] \in Nat /\ depth[c] < MaxDepth
    BY DEF PlanTyped, Uncut
  <2> QED BY <2>1, PlanAssumption
<1>5. Traversed(Others, Elems(nodes), <<>>)
  BY <1>3, <1>4 DEF Inspecting
<1>6. Others \in Relation /\ Elems(nodes) \in SUBSET Ids
  BY InputTyped DEF NodesAre
<1>7. ASSUME NEW c \in Elems(nodes) PROVE Opened[c] \subseteq Elems(nodes)
  <2>1. Others[c] \subseteq Elems(nodes)
    BY <1>5 DEF Traversed, Ranks
  <2>2. Opened[c] \subseteq Others[c] \cup {c}
    BY <1>6 DEF Others
  <2> QED BY <2>1, <2>2
<1>8. Whole \subseteq Elems(nodes)
  BY <1>7, WholeIsClosed DEF IsClosure, Inspecting
<1>9. Elems(nodes) = Whole
  BY <1>8 DEF NodesAre
<1>10. \A c \in Elems(nodes) : ~OnCycle(Others, c)
  BY <1>5, <1>6, DoneIsAcyclic
<1> QED BY <1>2, <1>9, <1>10

LEMMA ValidIsKnown ==
  ASSUME PlanTyped, NodesAre, work # "idle", Valid, Roots \subseteq input.registry, NEW c \in Node
  PROVE  /\ c \in Ids /\ status[c] \in {"skipped", "pending"} /\ c \in input.registry
         /\ status[c] = "skipped" <=> c \in input.exclude
         /\ Classified(c) = IF c \in input.exclude THEN "skipped" ELSE "satisfied"
<1>1. /\ c \in Ids /\ status[c] \in {"missing", "pending", "skipped"}
      /\ status[c] = "missing" =>
           c \notin input.registry /\ (c \in Roots \/ \E a \in Ids : <<a, c>> \in links)
      /\ status[c] = "skipped" => c \in input.registry \cap input.exclude
      /\ status[c] = "pending" => c \in input.registry \ input.exclude
  BY DEF NodesAre, Node
<1>2. status[c] # "missing"
  <2> SUFFICES ASSUME status[c] = "missing" PROVE FALSE
    OBVIOUS
  <2>1. PICK a \in Ids : <<a, c>> \in links
    BY <1>1
  <2>2. <<a, c>>[2] = c
    OBVIOUS
  <2>3. <<a, c>> \in Unsatisfied
    BY <1>1, <2>1, <2>2 DEF Unsatisfied
  <2> QED BY <2>3 DEF Valid
<1>3. UNION looped = {} /\ Clashes = {}
  BY DEF Valid
<1> QED BY <1>1, <1>2, <1>3 DEF Classified

LEMMA ClassifyInv == ASSUME CompositionInv, Classify PROVE CompositionInv'
<1>1. /\ work = "inspect" /\ work' = "composed" /\ stack = <<>> /\ toStart = <<>>
      /\ status' = [c \in Ids |-> Classified(c)]
      /\ UNCHANGED <<input, toStart, stack, nodes, depth, links, finished, looped>>
      /\ PlanTyped
  BY DEF Classify, CompositionInv
<1>2. PlanTyped'
  <2>1. \A c \in Ids : Classified(c) \in {"none", "missing", "pending", "skipped", "conflict", "satisfied"}
    BY DEF Classified
  <2>2. status' \in [Ids -> {"none", "missing", "pending", "skipped", "conflict", "satisfied"}]
    BY <1>1, <2>1
  <2> QED BY <1>1, <2>2 DEF PlanTyped
<1>3. /\ Roots' = Roots /\ Opened' = Opened /\ Whole' = Whole /\ Uncut' = Uncut
      /\ Valid' = Valid /\ Linear' = Linear /\ NoneExcluded' = NoneExcluded
  <2>1. Unsatisfied' = Unsatisfied /\ Node' = Node
    BY <1>1 DEF Unsatisfied, Node
  <2>2. Clashes' = Clashes
    BY <1>1, <2>1 DEF Clashes
  <2>3. Valid' = Valid
    BY <1>1, <2>1, <2>2 DEF Valid
  <2>4. Linear' = Linear
    BY <1>1, <2>1 DEF Linear
  <2>5. Uncut' = Uncut
    BY <1>1 DEF Uncut
  <2> QED BY <1>1, <2>3, <2>4, <2>5, InputStays
<1>a. NoneExcluded' => Elems(nodes') \subseteq Whole'
  BY <1>1, <1>3 DEF CompositionInv, NodesAre
<1>4. SUFFICES ASSUME Composed' PROVE CompositionsAreSound'
  <2>1. ~Composed' => CompositionsAreSound'
    BY DEF CompositionsAreSound
  <2> QED BY <1>1, <1>2, <1>4, <1>a, <2>1 DEF CompositionInv
<1>5. Uncut /\ NoneExcluded /\ NodesAre /\ Inspecting
  <2>1. Uncut' /\ NoneExcluded'
    BY <1>4 DEF Composed, NoneExcluded
  <2> QED BY <1>1, <1>3, <2>1 DEF CompositionInv
<1>6. (\E c \in Whole : OnCycle(Others, c)) => looped # {}
  BY <1>1, <1>5, PlanIsWhole
<1>7. ASSUME Valid, Roots \subseteq input.registry
      PROVE  /\ Elems(Steps') = Whole \ input.exclude
             /\ Len(Steps') = Cardinality(Whole \ input.exclude)
             /\ Whole \subseteq input.registry
             /\ \A c, d \in Elems(Steps') : d \notin input.conflicts[c]
  <2>1. looped = {} /\ Clashes = {}
    BY <1>7 DEF Valid
  <2>2. /\ Node = Whole /\ Traversed(Needed, finished, <<>>) /\ Node \subseteq finished
        /\ finished \in SUBSET Ids
    BY <1>1, <1>5, <2>1, PlanIsWhole DEF Node, PlanTyped
  <2>3. /\ Linear \in Seq(Ids) /\ Elems(Linear) = Whole
        /\ \A i, j \in 1 .. Len(Linear) : Linear[i] = Linear[j] => i = j
    BY <1>1, <2>2, LinearPlaces DEF PlanTyped
  <2>4. Steps' = StepsOf(Linear, status')
    BY <1>3 DEF Steps, StepsOf
  <2>5. /\ Elems(Steps') = Whole \cap Worth(status')
        /\ Len(Steps') = Cardinality(Elems(Steps'))
    <3> DEFINE q == Linear
               st == status'
    <3>1. /\ q \in Seq(Ids) /\ Elems(q) = Whole
          /\ \A i, j \in 1 .. Len(q) : q[i] = q[j] => i = j
      BY <2>3
    <3> HIDE DEF q, st
    <3>2. /\ Elems(StepsOf(q, st)) = Elems(q) \cap Worth(st)
          /\ Len(StepsOf(q, st)) = Cardinality(Elems(StepsOf(q, st)))
      BY <3>1, StepsOnce
    <3> QED BY <2>4, <3>1, <3>2 DEF q, st
  <2>6. \A c \in Whole : /\ c \in Ids /\ c \in input.registry
                         /\ status'[c] = IF c \in input.exclude THEN "skipped" ELSE "satisfied"
    BY <1>1, <1>5, <1>7, <2>2, ValidIsKnown
  <2>7. Elems(Steps') = Whole \ input.exclude
    BY <2>5, <2>6 DEF Worth
  <2>8. ASSUME NEW c \in Whole, NEW d \in Whole PROVE d \notin input.conflicts[c]
    <3> SUFFICES ASSUME d \in input.conflicts[c] PROVE FALSE
      OBVIOUS
    <3>1. <<c, d>> \in (Node \cap input.registry) \X input.registry
      BY <2>2, <2>6
    <3>2. <<c, d>>[1] = c /\ <<c, d>>[2] = d
      OBVIOUS
    <3>3. <<c, d>> \in Clashes
      BY <2>1, <3>1, <3>2 DEF Clashes
    <3> QED BY <2>1, <3>3
  <2>9. Whole \subseteq input.registry
    BY <2>6
  <2> QED BY <2>5, <2>7, <2>8, <2>9
<1>8. Others = [c \in Ids |-> Opened[c] \ {c}]
  BY DEF Others
<1> QED BY <1>1, <1>3, <1>6, <1>7, <1>8 DEF CompositionsAreSound

LEMMA PlanStays ==
  ASSUME UNCHANGED planVars
  PROVE  /\ Roots' = Roots /\ Opened' = Opened /\ Whole' = Whole /\ Uncut' = Uncut
         /\ Valid' = Valid /\ Steps' = Steps
<1>1. UNCHANGED <<work, input, toStart, stack, nodes, status, depth, links, finished, looped>>
  BY DEF planVars
<1>2. Roots' = Roots /\ Opened' = Opened /\ Whole' = Whole
  BY <1>1, InputStays
<1>3. Unsatisfied' = Unsatisfied /\ Node' = Node /\ Uncut' = Uncut
  BY <1>1 DEF Unsatisfied, Node, Uncut
<1>4. Clashes' = Clashes /\ Linear' = Linear
  BY <1>1, <1>3 DEF Clashes, Linear
<1> QED BY <1>1, <1>2, <1>3, <1>4 DEF Valid, Steps

LEMMA PlanStepInv == CompositionInv /\ [PlanNext]_planVars => CompositionInv'
<1> SUFFICES ASSUME CompositionInv, [PlanNext]_planVars PROVE CompositionInv'
  OBVIOUS
<1>1. CASE PlanNext
  BY <1>1, ComposeInv, StartRootInv, ExpandChildInv, ReturnInv, InspectStartInv, VisitNodeInv,
     VisitRequiredInv, ClassifyInv DEF PlanNext, PlanStep
<1>2. CASE UNCHANGED planVars
  <2>1. UNCHANGED <<work, input, toStart, stack, nodes, status, depth, links, finished, looped>>
    BY <1>2 DEF planVars
  <2>2. PlanTyped' = PlanTyped /\ CompositionsAreSound' = CompositionsAreSound
    BY <1>2, <2>1, PlanStays DEF PlanTyped, CompositionsAreSound, Composed
  <2>3. NodesAre' = NodesAre /\ Expanding' = Expanding /\ Inspecting' = Inspecting
        /\ NoneExcluded' = NoneExcluded /\ Whole' = Whole
    BY <2>1, GraphStays, InputStays DEF Expanding, Inspecting
  <2> QED BY <2>1, <2>2, <2>3 DEF CompositionInv
<1> QED BY <1>1, <1>2

(* composePlan, for any registry, roots and exclusions: no cyclic           *)
(* composition goes unreported, and a valid plan has one step each for what *)
(* the roots reach and is not excluded, all known, no two in conflict       *)
(* (graph.ts:53-66, 137-227, plan/index.ts:8-29).                           *)
THEOREM PlansAreSound == PlanSpec => []CompositionsAreSound
<1>1. CompositionInv => CompositionsAreSound
  BY DEF CompositionInv, CompositionsAreSound, Composed
<1> QED BY <1>1, PlanInitInv, PlanStepInv, PTL DEF PlanSpec

-----------------------------------------------------------------------------
(* The workflow.  The eleven recipes have their own operations each, and    *)
(* three to five stages.                                                    *)
LEMMA RecipesAre ==
  /\ DOMAIN Recipes = 1 .. 11
  /\ \A i \in 1 .. 11 : Recipes[i][2] \in 3 .. 5 /\ Recipes[i][1] # "any"
BY DEF Recipes

Numbered(op) ==
    CASE op = "security-review" -> 1 [] op = "deployment" -> 2 [] op = "migration" -> 3
      [] op = "testing" -> 4 [] op = "debugging" -> 5 [] op = "refactoring" -> 6
      [] op = "configuration" -> 7 [] op = "documentation" -> 8 [] op = "design" -> 9
      [] op = "review" -> 10 [] OTHER -> 11

LEMMA RecipesNumbered == \A i \in 1 .. 11 : Numbered(Recipes[i][1]) = i
BY DEF Recipes, Numbered

LEMMA RecipesDiffer == \A i, j \in DOMAIN Recipes : Recipes[i][1] = Recipes[j][1] => i = j
BY RecipesAre, RecipesNumbered

Opening(q) == {q[i][1] : i \in DOMAIN q}

LEMMA StagesAre ==
  ASSUME NEW op, NEW n \in Nat
  PROVE  LET q == Stages(<<op, n>>)
         IN  /\ DOMAIN q = 1 .. n /\ q \in Seq({op} \X Nat) /\ Len(q) = n
             /\ \A i \in 1 .. n : q[i][1] = op
<1> DEFINE q == Stages(<<op, n>>)
<1>1. <<op, n>>[1] = op /\ <<op, n>>[2] = n
  OBVIOUS
<1>2. q = [i \in 1 .. n |-> <<op, i>>]
  BY <1>1 DEF Stages
<1> HIDE DEF q
<1>3. DOMAIN q = 1 .. n /\ q \in [1 .. n -> {op} \X Nat] /\ \A i \in 1 .. n : q[i] = <<op, i>>
  <2>1. \A i \in 1 .. n : <<op, i>> \in {op} \X Nat
    OBVIOUS
  <2> QED BY <1>2, <2>1
<1>4. q \in Seq({op} \X Nat) /\ Len(q) = n
  BY <1>3
<1> QED BY <1>3, <1>4 DEF q

LEMMA RecipesPaired == \A i \in 1 .. 11 : Recipes[i] = <<Recipes[i][1], Recipes[i][2]>>
BY DEF Recipes

StageSet == (Operations \cup {"any", "part"}) \X Nat

OpensWith(q, x) == q \in Seq(StageSet) /\ q # <<>> /\ \A i \in DOMAIN q : q[i][1] = x

LEMMA AfterAnother ==
  ASSUME NEW a, NEW b, NEW x, NEW y, OpensWith(a, x), OpensWith(b, y)
  PROVE  /\ a \o b \in Seq(StageSet) /\ Len(a \o b) = Len(a) + Len(b)
         /\ Opening(a \o b) = {x, y}
<1> DEFINE q == a \o b
           m == Len(a)
           n == Len(b)
<1>0. /\ a \in Seq(StageSet) /\ b \in Seq(StageSet) /\ a # <<>> /\ b # <<>>
      /\ \A i \in DOMAIN a : a[i][1] = x
      /\ \A i \in DOMAIN b : b[i][1] = y
  BY DEF OpensWith
<1>1. /\ m \in Nat \ {0} /\ n \in Nat \ {0} /\ DOMAIN a = 1 .. m /\ DOMAIN b = 1 .. n
      /\ q \in Seq(StageSet) /\ Len(q) = m + n /\ DOMAIN q = 1 .. m + n
  BY <1>0
<1>2. \A i \in 1 .. m : q[i] = a[i]
  BY <1>0
<1>3. \A i \in 1 .. n : q[m + i] = b[i]
  BY <1>0
<1> HIDE DEF q, m, n
<1>4. \A i \in 1 .. m + n : i \in 1 .. m \/ (i - m \in 1 .. n /\ m + (i - m) = i)
  BY <1>1
<1>5. \A i \in 1 .. m + n : q[i][1] \in {x, y}
  <2> TAKE i \in 1 .. m + n
  <2>1. CASE i \in 1 .. m
    BY <1>0, <1>1, <1>2, <2>1
  <2>2. CASE i - m \in 1 .. n /\ m + (i - m) = i
    <3>1. q[m + (i - m)] = b[i - m] /\ b[i - m][1] = y
      BY <1>0, <1>1, <1>3, <2>2
    <3> QED BY <2>2, <3>1
  <2> QED BY <1>4, <2>1, <2>2
<1>6. 1 \in 1 .. m /\ 1 \in 1 .. m + n /\ 1 \in 1 .. n /\ m + 1 \in 1 .. m + n
  BY <1>1
<1>7. q[1][1] = x /\ q[m + 1][1] = y
  BY <1>0, <1>1, <1>2, <1>3, <1>6
<1>8. Opening(q) = {x, y}
  BY <1>1, <1>5, <1>6, <1>7 DEF Opening
<1> QED BY <1>1, <1>8 DEF q, m, n

(* stagesFor: three to ten stages, of the first two operations if there are *)
(* so many.                                                                 *)
LEMMA StagesForAre ==
  ASSUME NEW ops \in SUBSET Operations
  PROVE  LET q == StagesFor(ops)
         IN  /\ q \in Seq(StageSet) /\ Len(q) \in 3 .. 10
             /\ Cardinality(ops \cap Opening(q)) =
                  IF Cardinality(ops) > 2 THEN 2 ELSE Cardinality(ops)
<1> DEFINE I == {i \in DOMAIN Recipes : Recipes[i][1] \in ops}
           picked == Sorted(I)
           q == StagesFor(ops)
           name == [i \in I |-> Recipes[i][1]]
<1>1. IsFiniteSet(I) /\ I \subseteq Int /\ I \subseteq 1 .. 11
  <2>1. 1 \in Int /\ 11 \in Int /\ I \subseteq 1 .. 11
    BY RecipesAre
  <2> HIDE DEF I
  <2>2. IsFiniteSet(1 .. 11)
    BY <2>1, FS_Interval
  <2>3. IsFiniteSet(I)
    BY <2>1, <2>2, FS_Subset
  <2> QED BY <2>1, <2>3
<1>2. /\ picked \in Seq(I) /\ Len(picked) = Cardinality(I) /\ Elems(picked) = I
      /\ \A i, j \in 1 .. Len(picked) : picked[i] = picked[j] => i = j
  <2> HIDE DEF I
  <2> QED BY <1>1, SortedLists
<1>3. IsFiniteSet(ops) /\ Cardinality(ops) = Cardinality(I)
  <2>1. \A o \in ops : \E i \in I : Recipes[i][1] = o
    BY DEF Operations
  <2>2. name \in Bijection(I, ops)
    <3>1. name \in [I -> ops] /\ \A i \in I : name[i] = Recipes[i][1]
      OBVIOUS
    <3>2. \A i, j \in I : name[i] = name[j] => i = j
      BY <3>1, RecipesDiffer
    <3> HIDE DEF name
    <3> QED BY <2>1, <3>1, <3>2 DEF Bijection, Injection, Surjection, IsInjective
  <2> HIDE DEF I, name
  <2> QED BY <1>1, <2>2, FS_Bijection DEF ExistsBijection
<1>4. Cardinality(I) \in Nat
  BY <1>1, FS_CardinalityType
<1>5. \A i \in 1 .. 11 : /\ Recipes[i][2] \in Nat /\ Recipes[i][2] \in 3 .. 5
                         /\ Recipes[i] = <<Recipes[i][1], Recipes[i][2]>>
                         /\ Recipes[i][1] \in Operations
  <2>1. \A i \in 1 .. 11 : Recipes[i][1] \in Operations
    BY RecipesAre DEF Operations
  <2> QED BY <2>1, RecipesAre, RecipesPaired
<1>6. ASSUME NEW i \in I
      PROVE  LET r == Stages(Recipes[i])
             IN  /\ r \in Seq(StageSet) /\ Len(r) \in 3 .. 5 /\ r # <<>> /\ DOMAIN r = 1 .. Len(r)
                 /\ \A j \in DOMAIN r : r[j][1] = Recipes[i][1]
                 /\ Recipes[i][1] \in ops
  <2> DEFINE r == Stages(Recipes[i])
             op == Recipes[i][1]
             n == Recipes[i][2]
  <2>1. n \in Nat /\ n \in 3 .. 5 /\ Recipes[i] = <<op, n>> /\ op \in Operations
    BY <1>1, <1>5
  <2>a. op \in ops
    OBVIOUS
  <2> HIDE DEF n, op
  <2>2. /\ DOMAIN r = 1 .. n /\ r \in Seq({op} \X Nat) /\ Len(r) = n
        /\ \A j \in 1 .. n : r[j][1] = op
    <3>1. n \in Nat
      BY <2>1
    <3> HIDE DEF r
    <3>2. r = Stages(<<op, n>>)
      BY <2>1 DEF r
    <3> QED BY <3>1, <3>2, StagesAre
  <2>3. {op} \X Nat \subseteq StageSet
    BY <2>1 DEF StageSet
  <2> HIDE DEF r
  <2>4. r \in Seq(StageSet) /\ r # <<>>
    <3>1. \A j \in 1 .. n : r[j] \in StageSet
      BY <2>2, <2>3
    <3>2. r \in [1 .. n -> StageSet]
      BY <2>2, <3>1
    <3> QED BY <2>1, <2>2, <3>2
  <2> QED BY <2>1, <2>2, <2>4, <2>a DEF r, op
<1>7. picked \in [1 .. Len(picked) -> I] /\ Len(picked) \in Nat
  <2> HIDE DEF I, picked
  <2>1. picked \in Seq(I)
    BY <1>2
  <2> QED BY <2>1
<1>a. q = CASE Len(picked) = 0 -> Stages(<<"any", 3>>)
            [] Len(picked) = 1 -> Stages(Recipes[picked[1]])
            [] OTHER -> Stages(Recipes[picked[1]]) \o Stages(Recipes[picked[2]])
  BY DEF StagesFor
<1> HIDE DEF q, picked, name, I
<1>8. CASE Cardinality(I) = 0
  <2>1. ops = {}
    BY <1>3, <1>8, FS_EmptySet
  <2>2. q = Stages(<<"any", 3>>)
    BY <1>2, <1>8, <1>a
  <2>3. q \in Seq({"any"} \X Nat) /\ Len(q) = 3
    <3>1. 3 \in Nat
      OBVIOUS
    <3> QED BY <2>2, <3>1, StagesAre
  <2>4. q \in Seq(StageSet)
    <3>1. {"any"} \X Nat \subseteq StageSet
      BY DEF StageSet
    <3> QED BY <2>3, <3>1
  <2>5. ops \cap Opening(q) = {} /\ Cardinality({}) = 0 /\ Cardinality(ops) = 0
    BY <2>1, FS_EmptySet
  <2>6. Len(q) \in 3 .. 10
    BY <2>3
  <2>7. Cardinality(ops \cap Opening(q)) = IF Cardinality(ops) > 2 THEN 2 ELSE Cardinality(ops)
    BY <2>5
  <2> QED BY <2>4, <2>6, <2>7 DEF q
<1>9. CASE Cardinality(I) = 1
  <2>1. 1 \in 1 .. Len(picked) /\ picked[1] \in I
    BY <1>2, <1>7, <1>9
  <2> DEFINE op == Recipes[picked[1]][1]
  <2>2. q = Stages(Recipes[picked[1]])
    BY <1>2, <1>9, <1>a
  <2>3. /\ q \in Seq(StageSet) /\ Len(q) \in 3 .. 5 /\ q # <<>> /\ DOMAIN q = 1 .. Len(q)
        /\ \A j \in DOMAIN q : q[j][1] = op /\ op \in ops
    BY <1>6, <2>1, <2>2
  <2> HIDE DEF op
  <2>4. 1 \in DOMAIN q
    BY <2>3
  <2>5. Opening(q) = {op} /\ op \in ops
    BY <2>3, <2>4 DEF Opening
  <2>6. Cardinality(ops \cap Opening(q)) = 1
    <3>1. ops \cap Opening(q) = {op}
      BY <2>5
    <3> QED BY <3>1, FS_Singleton
  <2>7. Len(q) \in 3 .. 10
    <3>1. Len(q) \in 3 .. 5
      BY <2>3
    <3> QED BY <3>1
  <2> QED BY <1>3, <1>9, <2>3, <2>6, <2>7 DEF q
<1>10. CASE Cardinality(I) # 0 /\ Cardinality(I) # 1
  <2>1. /\ 1 \in 1 .. Len(picked) /\ 2 \in 1 .. Len(picked) /\ Len(picked) # 0 /\ Len(picked) # 1
        /\ picked[1] \in I /\ picked[2] \in I /\ picked[1] # picked[2]
    <3>1. 1 \in 1 .. Len(picked) /\ 2 \in 1 .. Len(picked) /\ Len(picked) # 0 /\ Len(picked) # 1
      BY <1>2, <1>4, <1>10
    <3> QED BY <1>2, <1>7, <3>1
  <2> DEFINE a == Stages(Recipes[picked[1]])
             b == Stages(Recipes[picked[2]])
             x == Recipes[picked[1]][1]
             y == Recipes[picked[2]][1]
  <2>2. q = a \o b
    BY <1>a, <2>1
  <2>3. /\ a \in Seq(StageSet) /\ Len(a) \in 3 .. 5 /\ a # <<>>
        /\ \A j \in DOMAIN a : a[j][1] = x /\ x \in ops
    BY <1>6, <2>1
  <2>4. /\ b \in Seq(StageSet) /\ Len(b) \in 3 .. 5 /\ b # <<>>
        /\ \A j \in DOMAIN b : b[j][1] = y /\ y \in ops
    BY <1>6, <2>1
  <2>5. x # y /\ x \in ops /\ y \in ops
    <3>1. picked[1] \in DOMAIN Recipes /\ picked[2] \in DOMAIN Recipes
      BY <1>1, <2>1, RecipesAre
    <3> QED BY <1>6, <2>1, <3>1, RecipesDiffer
  <2> HIDE DEF a, b, x, y
  <2>6. q \in Seq(StageSet) /\ Len(q) = Len(a) + Len(b) /\ Opening(q) = {x, y}
    <3>1. OpensWith(a, x) /\ OpensWith(b, y)
      BY <2>3, <2>4 DEF OpensWith
    <3>2. /\ a \o b \in Seq(StageSet) /\ Len(a \o b) = Len(a) + Len(b)
          /\ Opening(a \o b) = {x, y}
      BY <3>1, AfterAnother
    <3> QED BY <2>2, <3>2
  <2>7. Cardinality(ops \cap Opening(q)) = 2
    <3>1. ops \cap Opening(q) = {x, y}
      BY <2>5, <2>6
    <3>2. {x, y} = {x} \cup {y} /\ y \notin {x}
      BY <2>5
    <3>3. IsFiniteSet({x}) /\ Cardinality({x}) = 1
      BY FS_Singleton
    <3>4. Cardinality({x} \cup {y}) = 2
      BY <3>2, <3>3, FS_AddElement
    <3> QED BY <3>1, <3>2, <3>4
  <2>8. Len(q) \in 3 .. 10
    <3>1. Len(a) \in 3 .. 5 /\ Len(b) \in 3 .. 5 /\ Len(q) = Len(a) + Len(b)
      BY <2>3, <2>4, <2>6
    <3>2. \A m, n \in 3 .. 5 : m + n \in 3 .. 10
      OBVIOUS
    <3> QED BY <3>1, <3>2
  <2>9. Cardinality(ops) >= 2 /\ Cardinality(ops) \in Nat
    BY <1>3, <1>4, <1>10
  <2>10. 2 = IF Cardinality(ops) > 2 THEN 2 ELSE Cardinality(ops)
    BY <2>9
  <2> QED BY <2>6, <2>7, <2>8, <2>10 DEF q
<1> QED BY <1>8, <1>9, <1>10 DEF q

SubtasksOf(t) == IF t.parts >= 2 THEN Stages(<<"part", t.parts>>) ELSE StagesFor(t.operations)

InTask(t, q) ==
    IF t.parts >= 2 THEN Len(q) = t.parts
    ELSE /\ Len(q) \in 3 .. 10
         /\ Cardinality(t.operations \cap Opening(q)) =
              IF Cardinality(t.operations) > 2 THEN 2 ELSE Cardinality(t.operations)

LEMMA SubtasksAre ==
  ASSUME NEW t \in Tasks
  PROVE  SubtasksOf(t) \in Seq(StageSet) /\ InTask(t, SubtasksOf(t))
<1>1. t.parts \in Nat /\ t.operations \in SUBSET Operations
  BY WorkflowAssumption
<1>2. CASE t.parts >= 2
  <2> DEFINE q == Stages(<<"part", t.parts>>)
  <2>1. q \in Seq({"part"} \X Nat) /\ Len(q) = t.parts
    BY <1>1, StagesAre
  <2>2. {"part"} \X Nat \subseteq StageSet
    BY DEF StageSet
  <2>3. q \in Seq(StageSet)
    <3> HIDE DEF q
    <3> QED BY <2>1, <2>2
  <2> QED BY <1>2, <2>1, <2>3 DEF SubtasksOf, InTask
<1>3. CASE ~(t.parts >= 2)
  <2> DEFINE q == StagesFor(t.operations)
  <2>1. /\ q \in Seq(StageSet) /\ Len(q) \in 3 .. 10
        /\ Cardinality(t.operations \cap Opening(q)) =
             IF Cardinality(t.operations) > 2 THEN 2 ELSE Cardinality(t.operations)
    BY <1>1, StagesForAre
  <2> QED BY <1>3, <2>1 DEF SubtasksOf, InTask
<1> QED BY <1>2, <1>3

(* A capability is chosen above the threshold, and from the registry.       *)
StepSet == [subtask : StageSet, capability : Ids \cup {None}, dependencies : Seq(Ids)]

LEMMA ChosenIs ==
  ASSUME task \in Tasks, NEW i
  PROVE  /\ Chosen(i) \in Ids \cup {None}
         /\ Chosen(i) # None => /\ Chosen(i) \in task.registry /\ Chosen(i) \in Ids
                                /\ \E b \in Elems(task.best) :
                                      b.id = Chosen(i) /\ b.score >= Threshold
<1>1. /\ \A j \in DOMAIN task.best : task.best[j].id \in task.registry
      /\ task.registry \subseteq Ids
  BY WorkflowAssumption
<1>2. CASE i \in DOMAIN task.best /\ task.best[i].score >= Threshold
  BY <1>1, <1>2 DEF Chosen, Elems
<1>3. CASE ~(i \in DOMAIN task.best /\ task.best[i].score >= Threshold)
  BY <1>3 DEF Chosen
<1> QED BY <1>2, <1>3

(* The roots are the capabilities that were chosen.                         *)
LEMMA FirstUsesAre ==
  ASSUME steps \in Seq(StepSet)
  PROVE  FirstUses \in Seq(Ids) /\ Elems(FirstUses) = Routed
<1> DEFINE cap == [i \in DOMAIN steps |-> steps[i].capability]
           first == {i \in DOMAIN steps : /\ steps[i].capability # None
                                          /\ \A j \in 1 .. i - 1 :
                                               steps[j].capability # steps[i].capability}
           picked == Sorted(first)
           n == Len(steps)
           u == FirstUses
<1>1. /\ n \in Nat /\ DOMAIN steps = 1 .. n
      /\ \A i \in 1 .. n : steps[i].capability \in Ids \cup {None}
  <2>1. n \in Nat /\ DOMAIN steps = 1 .. n /\ \A i \in 1 .. n : steps[i] \in StepSet
    OBVIOUS
  <2> QED BY <2>1 DEF StepSet
<1>2. first \subseteq Int /\ IsFiniteSet(first)
  <2>1. first \subseteq 1 .. n /\ 1 \in Int /\ n \in Int
    BY <1>1
  <2> HIDE DEF first, n
  <2>2. IsFiniteSet(1 .. n)
    BY <2>1, FS_Interval
  <2>3. IsFiniteSet(first)
    BY <2>1, <2>2, FS_Subset
  <2>4. \A i \in 1 .. n : i \in Int
    OBVIOUS
  <2> QED BY <2>1, <2>3, <2>4
<1>3. u = [m \in DOMAIN picked |-> steps[picked[m]].capability]
  BY DEF FirstUses
<1>4. picked \in Seq(first) /\ Elems(picked) = first
  <2> HIDE DEF first
  <2> QED BY <1>2, SortedLists
<1>5. Routed = {steps[i].capability : i \in 1 .. n} \ {None}
  BY <1>1 DEF Routed
<1>6. ASSUME NEW c \in Routed PROVE \E i \in first : steps[i].capability = c
  <2> DEFINE P == {i \in 1 .. n : steps[i].capability = c}
  <2>1. P \subseteq Nat /\ P # {}
    BY <1>5
  <2>2. PICK i \in P : \A j \in P : i <= j
    BY <2>1, LeastNatural
  <2>3. i \in first
    <3>1. i \in 1 .. n /\ steps[i].capability = c /\ c # None
      BY <1>5
    <3>2. ASSUME NEW j \in 1 .. i - 1, steps[j].capability = c PROVE FALSE
      <4>1. j \in 1 .. n /\ j < i /\ i \in Int /\ j \in Int
        BY <1>1, <3>1
      <4>2. j \in P
        BY <3>2, <4>1
      <4>3. i <= j
        BY <2>2, <4>2
      <4> QED BY <4>1, <4>3
    <3> QED BY <1>1, <3>1, <3>2
  <2> QED BY <2>3
<1>7. \A i \in first : steps[i].capability \in Routed /\ steps[i].capability \in Ids
  BY <1>1, <1>5
<1> HIDE DEF first, picked, u
<1>8. DOMAIN picked = 1 .. Len(picked) /\ Len(picked) \in Nat
      /\ \A m \in 1 .. Len(picked) : picked[m] \in first
  BY <1>4
<1>9. u \in [1 .. Len(picked) -> Ids]
  BY <1>3, <1>7, <1>8
<1>10. u \in Seq(Ids)
  BY <1>8, <1>9
<1>11. Elems(u) = Routed
  <2>1. ASSUME NEW c \in Routed PROVE c \in Elems(u)
    <3>1. PICK i \in first : steps[i].capability = c
      BY <1>6
    <3>2. PICK m \in DOMAIN picked : picked[m] = i
      BY <1>4, <3>1 DEF Elems
    <3> QED BY <1>3, <3>1, <3>2 DEF Elems
  <2>2. \A m \in DOMAIN picked : u[m] \in Routed
    BY <1>3, <1>7, <1>8
  <2> QED BY <1>3, <2>1, <2>2 DEF Elems
<1> QED BY <1>10, <1>11 DEF u

(* What a step depends on, when the plan has all of it.                     *)
InPlanOrder(q, list) ==
    \A m, n \in DOMAIN q : m < n =>
      \E i, j \in DOMAIN list : i <= j /\ list[i] = q[m] /\ list[j] = q[n]

LEMMA ComposedOfIs ==
  ASSUME NEW c, task.children[c] \in Seq(Ids), NEW list \in Seq(Ids),
         Elems(task.children[c]) \subseteq Elems(list)
  PROVE  /\ Elems(ComposedOf(c, list)) = Elems(task.children[c])
         /\ InPlanOrder(ComposedOf(c, list), list)
<1> DEFINE kids == task.children[c]
           has == {i \in DOMAIN kids : kids[i] \in Elems(list)}
           position == [i \in has |-> CHOOSE p \in DOMAIN list : list[p] = kids[i]]
           picked == SortedBy(has, position)
           q == ComposedOf(c, list)
<1>1. /\ Len(kids) \in Nat /\ DOMAIN kids = 1 .. Len(kids)
      /\ Len(list) \in Nat /\ DOMAIN list = 1 .. Len(list)
  OBVIOUS
<1>2. q = [n \in DOMAIN picked |-> kids[picked[n]]]
  BY DEF ComposedOf
<1>3. has = DOMAIN kids
  BY DEF Elems
<1>4. has \subseteq Int /\ IsFiniteSet(has)
  <2>1. 1 \in Int /\ Len(kids) \in Int /\ has = 1 .. Len(kids)
    BY <1>1, <1>3
  <2>2. IsFiniteSet(1 .. Len(kids))
    BY <2>1, FS_Interval
  <2> HIDE DEF has
  <2> QED BY <2>1, <2>2
<1>5. ASSUME NEW i \in has PROVE position[i] \in DOMAIN list /\ list[position[i]] = kids[i]
  <2>1. \E p \in DOMAIN list : list[p] = kids[i]
    BY DEF Elems
  <2>2. position[i] = CHOOSE p \in DOMAIN list : list[p] = kids[i]
    OBVIOUS
  <2> QED BY <2>1, <2>2
<1>6. position \in [has -> Int]
  <2>1. \A i \in has : position[i] \in Int
    <3> HIDE DEF position, has
    <3>1. \A i \in DOMAIN list : i \in Int
      BY <1>1
    <3> QED BY <1>5, <3>1
  <2>2. position = [i \in has |-> position[i]]
    OBVIOUS
  <2> HIDE DEF position, has
  <2> QED BY <2>1, <2>2
<1> HIDE DEF position, has
<1>7. /\ picked \in Seq(has) /\ Elems(picked) = has
      /\ \A i, j \in 1 .. Len(picked) : i < j => position[picked[i]] <= position[picked[j]]
  BY <1>4, <1>6, SortedByLists
<1> HIDE DEF picked, q, kids
<1>8. /\ Len(picked) \in Nat /\ DOMAIN picked = 1 .. Len(picked)
      /\ \A n \in DOMAIN picked : picked[n] \in has
  BY <1>7
<1>9. Elems(q) = Elems(kids)
  <2>1. \A i \in DOMAIN kids : \E n \in DOMAIN picked : picked[n] = i
    BY <1>3, <1>7 DEF Elems
  <2> QED BY <1>2, <1>3, <1>8, <2>1 DEF Elems
<1>10. ASSUME NEW m \in DOMAIN q, NEW n \in DOMAIN q, m < n
       PROVE  \E i, j \in DOMAIN list : i <= j /\ list[i] = q[m] /\ list[j] = q[n]
  <2>1. /\ m \in DOMAIN picked /\ n \in DOMAIN picked
        /\ q[m] = kids[picked[m]] /\ q[n] = kids[picked[n]]
    BY <1>2
  <2>2. position[picked[m]] <= position[picked[n]]
    BY <1>7, <1>8, <1>10, <2>1
  <2>3. /\ position[picked[m]] \in DOMAIN list /\ list[position[picked[m]]] = q[m]
        /\ position[picked[n]] \in DOMAIN list /\ list[position[picked[n]]] = q[n]
    BY <1>5, <1>8, <2>1
  <2> QED BY <2>2, <2>3
<1>11. InPlanOrder(q, list)
  BY <1>10 DEF InPlanOrder
<1> QED BY <1>9, <1>11 DEF q, kids

-----------------------------------------------------------------------------
(* What a workflow has established on its way: the steps so far are the     *)
(* first subtasks with what was chosen for them, and the plan is composed   *)
(* from exactly what was chosen.                                            *)
Assigned ==
    /\ task \in Tasks /\ subtasks = SubtasksOf(task) /\ steps \in Seq(StepSet)
    /\ Len(steps) <= Len(subtasks)
    /\ \A i \in 1 .. Len(steps) :
         steps[i].subtask = subtasks[i] /\ steps[i].capability = Chosen(i)

FromRouted ==
    /\ Routed # {} /\ Roots = Routed /\ input.exclude = {}
    /\ input.registry = task.registry /\ input.children = task.children

WorkflowInv ==
    /\ CompositionInv
    /\ flow \in {"idle", "routing", "composing", "planned"}
    /\ flow = "idle" => work = "idle" /\ steps = <<>>
    /\ flow = "routing" => work = "idle" /\ Assigned
    /\ flow = "composing" =>
         work # "idle" /\ Assigned /\ Len(steps) = Len(subtasks) /\ FromRouted
    /\ flow = "planned" => WorkflowIsWhole

LEMMA AssignedIs ==
  ASSUME Assigned
  PROVE  /\ Len(steps) \in Nat /\ DOMAIN steps = 1 .. Len(steps)
         /\ subtasks \in Seq(StageSet) /\ Len(subtasks) \in Nat
         /\ DOMAIN subtasks = 1 .. Len(subtasks) /\ InTask(task, subtasks)
         /\ Routed \subseteq task.registry /\ task.registry \subseteq Ids
         /\ task.children \in [Ids -> Seq(Ids)] /\ task.conflicts \in Relation
<1>1. steps \in Seq(StepSet) /\ Len(steps) \in Nat /\ DOMAIN steps = 1 .. Len(steps)
  BY DEF Assigned
<1>2. subtasks \in Seq(StageSet) /\ InTask(task, subtasks)
  BY SubtasksAre DEF Assigned
<1>3. Len(subtasks) \in Nat /\ DOMAIN subtasks = 1 .. Len(subtasks)
  BY <1>2
<1>4. Routed \subseteq task.registry
  <2>1. ASSUME NEW i \in 1 .. Len(steps), steps[i].capability # None
        PROVE  steps[i].capability \in task.registry
    BY <2>1, ChosenIs DEF Assigned
  <2> QED BY <1>1, <2>1 DEF Routed
<1>5. /\ task.registry \subseteq Ids /\ task.children \in [Ids -> Seq(Ids)]
      /\ task.conflicts \in Relation
  BY WorkflowAssumption DEF Assigned
<1> QED BY <1>1, <1>2, <1>3, <1>4, <1>5

LEMMA ChosenStays == ASSUME task' = task, NEW i PROVE Chosen(i)' = Chosen(i)
BY DEF Chosen

LEMMA WorkflowInitInv == WorkflowInit => WorkflowInv
BY PlanInitInv DEF WorkflowInit, WorkflowInv, PlanInit

LEMMA IdleStays ==
  ASSUME CompositionInv, UNCHANGED planVars
  PROVE  CompositionInv' /\ work' = work
BY PlanStepInv DEF planVars

LEMMA DecomposeTaskInv == ASSUME WorkflowInv, DecomposeTask PROVE WorkflowInv'
<1>1. /\ flow = "idle" /\ flow' = "routing" /\ UNCHANGED planVars /\ steps' = steps
      /\ task' \in Tasks /\ subtasks' = SubtasksOf(task')
  BY DEF DecomposeTask, SubtasksOf
<1>2. CompositionInv' /\ work' = "idle" /\ steps' = <<>>
  BY <1>1, IdleStays DEF WorkflowInv
<1>3. Assigned'
  <2>1. Len(<<>>) = 0 /\ <<>> \in Seq(StepSet) /\ 1 .. 0 = {}
    OBVIOUS
  <2>2. subtasks' \in Seq(StageSet)
    BY <1>1, SubtasksAre
  <2>3. Len(subtasks') \in Nat
    BY <2>2
  <2>4. 0 <= Len(subtasks')
    BY <2>3
  <2> QED BY <1>1, <1>2, <2>1, <2>4 DEF Assigned
<1> QED BY <1>1, <1>2, <1>3 DEF WorkflowInv

LEMMA RouteSubtaskInv == ASSUME WorkflowInv, RouteSubtask PROVE WorkflowInv'
<1> DEFINE n == Len(steps)
           st == [subtask |-> subtasks[n + 1], capability |-> Chosen(n + 1),
                  dependencies |-> <<>>]
<1>1. /\ flow = "routing" /\ flow' = flow /\ n < Len(subtasks) /\ UNCHANGED planVars
      /\ task' = task /\ subtasks' = subtasks /\ steps' = Append(steps, st) /\ Assigned
  BY DEF RouteSubtask, WorkflowInv
<1>2. CompositionInv' /\ work' = "idle"
  BY <1>1, IdleStays DEF WorkflowInv
<1>3. /\ n \in Nat /\ Len(subtasks) \in Nat /\ n + 1 \in 1 .. Len(subtasks)
      /\ subtasks[n + 1] \in StageSet
  <2>1. n \in Nat /\ Len(subtasks) \in Nat /\ subtasks \in Seq(StageSet)
    BY <1>1, AssignedIs
  <2>2. n + 1 \in 1 .. Len(subtasks)
    BY <1>1, <2>1
  <2> HIDE DEF n
  <2> QED BY <2>1, <2>2
<1>4. st \in StepSet
  <2>1. Chosen(n + 1) \in Ids \cup {None} /\ <<>> \in Seq(Ids)
    BY <1>1, ChosenIs DEF Assigned
  <2> QED BY <1>3, <2>1 DEF StepSet
<1>5. st.subtask = subtasks[n + 1] /\ st.capability = Chosen(n + 1)
  OBVIOUS
<1> HIDE DEF st
<1>6. steps \in Seq(StepSet)
  BY <1>1 DEF Assigned
<1>7. /\ steps' \in Seq(StepSet) /\ Len(steps') = n + 1 /\ steps'[n + 1] = st
      /\ \A i \in 1 .. n : steps'[i] = steps[i]
  BY <1>1, <1>4, <1>6
<1>8. \A i \in 1 .. n + 1 : i \in 1 .. n \/ i = n + 1
  BY <1>3
<1>9. ASSUME NEW i \in 1 .. n + 1
      PROVE  steps'[i].subtask = subtasks'[i] /\ steps'[i].capability = Chosen(i)'
  <2>0. Chosen(i)' = Chosen(i) /\ subtasks'[i] = subtasks[i]
    BY <1>1, ChosenStays
  <2>1. CASE i = n + 1
    BY <1>5, <1>7, <2>0, <2>1
  <2>2. CASE i \in 1 .. n
    BY <1>1, <1>7, <2>0, <2>2 DEF Assigned
  <2> QED BY <1>8, <2>1, <2>2
<1>10. n + 1 <= Len(subtasks)
  BY <1>3
<1> HIDE DEF n
<1>11. Assigned'
  BY <1>1, <1>7, <1>9, <1>10 DEF Assigned
<1> QED BY <1>1, <1>2, <1>11 DEF WorkflowInv

(* What of the property the steps alone decide.                             *)
LEMMA StepsAreWhole ==
  ASSUME Assigned, Len(steps) = Len(subtasks)
  PROVE  /\ [i \in DOMAIN steps |-> steps[i].subtask] = subtasks
         /\ IF task.parts >= 2 THEN Len(steps) = task.parts
            ELSE /\ Len(steps) \in 3 .. 10
                 /\ Cardinality(task.operations \cap {subtasks[i][1] : i \in DOMAIN subtasks})
                      = IF Cardinality(task.operations) > 2 THEN 2
                        ELSE Cardinality(task.operations)
         /\ \A i \in DOMAIN steps : steps[i].capability # None =>
              \E b \in Elems(task.best) : b.id = steps[i].capability /\ b.score >= Threshold
<1>1. /\ DOMAIN steps = 1 .. Len(steps) /\ DOMAIN subtasks = 1 .. Len(subtasks)
      /\ subtasks \in Seq(StageSet) /\ InTask(task, subtasks)
  BY AssignedIs
<1>2. [i \in DOMAIN steps |-> steps[i].subtask] = subtasks
  <2>1. \A i \in 1 .. Len(subtasks) : steps[i].subtask = subtasks[i]
    BY DEF Assigned
  <2>2. subtasks = [i \in 1 .. Len(subtasks) |-> subtasks[i]]
    BY <1>1
  <2> QED BY <1>1, <2>1, <2>2
<1>3. IF task.parts >= 2 THEN Len(steps) = task.parts
      ELSE /\ Len(steps) \in 3 .. 10
           /\ Cardinality(task.operations \cap {subtasks[i][1] : i \in DOMAIN subtasks})
                = IF Cardinality(task.operations) > 2 THEN 2
                  ELSE Cardinality(task.operations)
  BY <1>1 DEF InTask, Opening
<1>4. ASSUME NEW i \in 1 .. Len(steps), steps[i].capability # None
      PROVE  \E b \in Elems(task.best) : b.id = steps[i].capability /\ b.score >= Threshold
  BY <1>4, ChosenIs DEF Assigned
<1> QED BY <1>1, <1>2, <1>3, <1>4

LEMMA ComposeChosenInv == ASSUME WorkflowInv, ComposeChosen PROVE WorkflowInv'
<1>1. /\ flow = "routing" /\ Len(steps) = Len(subtasks) /\ Assigned /\ work = "idle"
      /\ task' = task /\ subtasks' = subtasks /\ steps' = steps /\ CompositionInv
  BY DEF ComposeChosen, WorkflowInv
<1>2. Assigned' /\ Routed' = Routed
  <2>1. \A i : Chosen(i)' = Chosen(i)
    BY <1>1, ChosenStays
  <2> QED BY <1>1, <2>1 DEF Assigned, Routed
<1>3. CASE Routed = {} /\ flow' = "planned" /\ UNCHANGED planVars
  <2>1. CompositionInv' /\ work' = "idle"
    BY <1>1, <1>3, IdleStays
  <2>2. WorkflowIsWhole'
    <3>1. /\ [i \in DOMAIN steps |-> steps[i].subtask] = subtasks
          /\ IF task.parts >= 2 THEN Len(steps) = task.parts
             ELSE /\ Len(steps) \in 3 .. 10
                  /\ Cardinality(task.operations \cap {subtasks[i][1] : i \in DOMAIN subtasks})
                       = IF Cardinality(task.operations) > 2 THEN 2
                         ELSE Cardinality(task.operations)
          /\ \A i \in DOMAIN steps : steps[i].capability # None =>
               \E b \in Elems(task.best) : b.id = steps[i].capability /\ b.score >= Threshold
      BY <1>1, StepsAreWhole
    <3> QED BY <1>1, <1>2, <1>3, <2>1, <3>1 DEF WorkflowIsWhole
  <2> QED BY <1>3, <2>1, <2>2 DEF WorkflowInv
<1>4. CASE /\ Routed # {} /\ flow' = "composing" /\ work' = "roots" /\ toStart' = FirstUses
           /\ input' = [registry |-> task.registry, children |-> task.children,
                        conflicts |-> task.conflicts, roots |-> FirstUses, exclude |-> {}]
           /\ UNCHANGED <<stack, nodes, status, depth, links, finished, looped>>
  <2>1. FirstUses \in Seq(Ids) /\ Elems(FirstUses) = Routed
    BY <1>1, FirstUsesAre DEF Assigned
  <2>2. FirstUses # <<>>
    <3>1. Elems(<<>>) = {}
      BY DEF Elems
    <3> QED BY <1>4, <2>1, <3>1
  <2>3. /\ input'.registry = task.registry /\ input'.children = task.children
        /\ input'.conflicts = task.conflicts /\ input'.roots = FirstUses /\ input'.exclude = {}
    BY <1>4
  <2>4. Composable(input')
    BY <1>1, <2>1, <2>3, AssignedIs DEF Composable
  <2>5. Composes
    BY <1>1, <1>4, <2>2, <2>3, <2>4 DEF Composes
  <2>6. CompositionInv'
    BY <1>1, <2>5, ComposesInv
  <2>7. FromRouted'
    <3>1. Roots' = Routed
      BY <2>1, <2>2, <2>3 DEF Roots
    <3> QED BY <1>1, <1>2, <1>4, <2>3, <3>1 DEF FromRouted
  <2> QED BY <1>1, <1>2, <1>4, <2>6, <2>7 DEF WorkflowInv
<1> QED BY <1>3, <1>4 DEF ComposeChosen

LEMMA ComposeOnInv == ASSUME WorkflowInv, ComposeOn PROVE WorkflowInv'
<1>1. /\ flow = "composing" /\ PlanStep /\ flow' = flow /\ task' = task /\ subtasks' = subtasks
      /\ steps' = steps /\ CompositionInv /\ Assigned /\ Len(steps) = Len(subtasks) /\ FromRouted
  BY DEF ComposeOn, WorkflowInv
<1>2. CompositionInv'
  BY <1>1, PlanStepInv DEF PlanNext
<1>3. input' = input /\ work' # "idle"
  BY <1>1 DEF PlanStep, StartRoot, ExpandChild, Return, InspectStart, VisitNode, VisitRequired,
              Classify
<1>4. Assigned' /\ Routed' = Routed
  <2>1. \A i : Chosen(i)' = Chosen(i)
    BY <1>1, ChosenStays
  <2> QED BY <1>1, <2>1 DEF Assigned, Routed
<1>5. FromRouted'
  BY <1>1, <1>3, <1>4, InputStays DEF FromRouted
<1> QED BY <1>1, <1>2, <1>3, <1>4, <1>5 DEF WorkflowInv

LEMMA StepsInWhole ==
  ASSUME CompositionInv, work = "composed", NoneExcluded
  PROVE  Steps \in Seq(Ids) /\ Elems(Steps) \subseteq Whole
<1> DEFINE q == Linear
           st == status
<1>1. nodes \in Seq(Ids) /\ Node \subseteq Whole
  BY DEF CompositionInv, PlanTyped, Node
<1>2. /\ q \in Seq(Ids) /\ Elems(q) \subseteq Node
      /\ \A i, j \in 1 .. Len(q) : q[i] = q[j] => i = j
  BY <1>1, LinearPlaces
<1>3. Steps = StepsOf(q, st)
  BY DEF Steps, StepsOf
<1> HIDE DEF q, st
<1>4. StepsOf(q, st) \in Seq(Ids) /\ Elems(StepsOf(q, st)) = Elems(q) \cap Worth(st)
  BY <1>2, StepsOnce
<1> QED BY <1>1, <1>2, <1>3, <1>4

LEMMA DependInv == ASSUME WorkflowInv, Depend PROVE WorkflowInv'
<1> DEFINE n == Len(steps)
<1>1. /\ flow = "composing" /\ work = "composed" /\ flow' = "planned" /\ UNCHANGED planVars
      /\ task' = task /\ subtasks' = subtasks /\ CompositionInv
      /\ Assigned /\ n = Len(subtasks) /\ FromRouted
      /\ steps' = [i \in DOMAIN steps |->
                     IF steps[i].capability = None THEN steps[i]
                     ELSE [steps[i] EXCEPT !.dependencies =
                             ComposedOf(steps[i].capability, Steps)]]
  BY DEF Depend, WorkflowInv
<1>2. /\ n \in Nat /\ DOMAIN steps = 1 .. n /\ \A i \in 1 .. n : steps[i] \in StepSet
  BY <1>1, AssignedIs DEF Assigned
<1>3. ASSUME NEW i \in 1 .. n
      PROVE  /\ steps'[i].subtask = steps[i].subtask /\ steps'[i].capability = steps[i].capability
             /\ steps[i].capability # None =>
                  steps'[i].dependencies = ComposedOf(steps[i].capability, Steps)
  <2>1. steps'[i] = IF steps[i].capability = None THEN steps[i]
                    ELSE [steps[i] EXCEPT !.dependencies =
                            ComposedOf(steps[i].capability, Steps)]
    BY <1>1, <1>2
  <2>2. steps[i] \in StepSet
    BY <1>2
  <2> QED BY <2>1, <2>2 DEF StepSet
<1>4. DOMAIN steps' = 1 .. n /\ Len(steps') = n
  <2> DEFINE S == {steps'[i] : i \in 1 .. n}
  <2>1. DOMAIN steps' = 1 .. n /\ steps' = [i \in 1 .. n |-> steps'[i]]
    BY <1>1, <1>2
  <2>2. steps' \in [1 .. n -> S]
    BY <2>1
  <2> HIDE DEF S, n
  <2>3. steps' \in Seq(S) /\ Len(steps') = n
    BY <1>2, <2>2
  <2> QED BY <2>1, <2>3
<1>5. CompositionInv' /\ work' = "composed"
  BY <1>1, IdleStays
<1>6. Routed' = Routed
  BY <1>2, <1>3, <1>4 DEF Routed
<1>7. Opened' = Opened /\ Uncut' = Uncut /\ Valid' = Valid /\ Steps' = Steps
  BY <1>1, PlanStays
<1>8. NoneExcluded /\ Roots = Routed /\ Whole = Reach(Opened, Routed)
  BY <1>1 DEF FromRouted, NoneExcluded, Whole
<1>9. Steps \in Seq(Ids) /\ Elems(Steps) \subseteq Whole
  BY <1>1, <1>8, StepsInWhole
<1>10. /\ [i \in 1 .. n |-> steps'[i].subtask] = subtasks
       /\ IF task.parts >= 2 THEN n = task.parts
          ELSE /\ n \in 3 .. 10
               /\ Cardinality(task.operations \cap {subtasks[i][1] : i \in DOMAIN subtasks})
                    = IF Cardinality(task.operations) > 2 THEN 2
                      ELSE Cardinality(task.operations)
       /\ \A i \in 1 .. n : steps'[i].capability # None =>
            \E b \in Elems(task.best) : b.id = steps'[i].capability /\ b.score >= Threshold
  <2>1. /\ [i \in 1 .. n |-> steps[i].subtask] = subtasks
        /\ IF task.parts >= 2 THEN n = task.parts
           ELSE /\ n \in 3 .. 10
                /\ Cardinality(task.operations \cap {subtasks[i][1] : i \in DOMAIN subtasks})
                     = IF Cardinality(task.operations) > 2 THEN 2
                       ELSE Cardinality(task.operations)
        /\ \A i \in 1 .. n : steps[i].capability # None =>
             \E b \in Elems(task.best) : b.id = steps[i].capability /\ b.score >= Threshold
    BY <1>1, <1>2, StepsAreWhole
  <2>2. [i \in 1 .. n |-> steps'[i].subtask] = [i \in 1 .. n |-> steps[i].subtask]
    BY <1>3
  <2> HIDE DEF n
  <2> QED BY <1>3, <2>1, <2>2
<1>11. ASSUME Uncut, Valid, NEW i \in 1 .. n, steps'[i].capability # None
       PROVE  LET c == steps'[i].capability
                  q == steps'[i].dependencies
              IN  /\ c \in Elems(Steps) /\ Elems(q) = Elems(task.children[c])
                  /\ InPlanOrder(q, Steps)
  <2> DEFINE c == steps[i].capability
             q == steps'[i].dependencies
  <2>1. c # None /\ c \in Routed /\ q = ComposedOf(c, Steps) /\ steps'[i].capability = c
    BY <1>2, <1>3, <1>11 DEF Routed
  <2>2. Composed /\ Roots \subseteq input.registry
    BY <1>1, <1>8, <1>11, AssignedIs DEF Composed, NoneExcluded, FromRouted
  <2>3. Elems(Steps) = Whole
    <3>1. Elems(Steps) = Whole \ input.exclude
      BY <1>1, <1>11, <2>2 DEF CompositionInv, CompositionsAreSound
    <3> QED BY <1>1, <3>1 DEF FromRouted
  <2>4. /\ task.children[c] \in Seq(Ids) /\ c \in Ids /\ c \in input.registry
        /\ Opened[c] = Elems(task.children[c])
    <3>1. /\ task.children \in [Ids -> Seq(Ids)] /\ c \in task.registry /\ c \in Ids
      BY <1>1, <2>1, AssignedIs
    <3> HIDE DEF c
    <3> QED BY <1>1, <3>1 DEF FromRouted, Opened
  <2>5. IsClosure(Opened, Roots, Whole)
    BY <1>1, WholeIsClosed DEF CompositionInv
  <2>6. c \in Whole /\ Elems(task.children[c]) \subseteq Elems(Steps)
    BY <1>8, <2>1, <2>3, <2>4, <2>5 DEF IsClosure, ClosedUnder
  <2> HIDE DEF c
  <2>7. Elems(ComposedOf(c, Steps)) = Elems(task.children[c]) /\ InPlanOrder(ComposedOf(c, Steps), Steps)
    BY <1>9, <2>4, <2>6, ComposedOfIs
  <2> QED BY <2>1, <2>3, <2>6, <2>7 
<1>12. WorkflowIsWhole'
  <2>1. (work' = "composed") <=> (Routed' # {})
    BY <1>1, <1>5, <1>6 DEF FromRouted
  <2>2. Elems(Steps') \subseteq Reach(Opened, Routed)'
    BY <1>6, <1>7, <1>8, <1>9
  <2> HIDE DEF n
  <2>3. /\ [i \in DOMAIN steps' |-> steps'[i].subtask] = subtasks'
        /\ IF task'.parts >= 2 THEN Len(steps') = task'.parts
           ELSE /\ Len(steps') \in 3 .. 10
                /\ Cardinality(task'.operations \cap {subtasks'[i][1] : i \in DOMAIN subtasks'})
                     = IF Cardinality(task'.operations) > 2 THEN 2
                       ELSE Cardinality(task'.operations)
        /\ \A i \in DOMAIN steps' : steps'[i].capability # None =>
             \E b \in Elems(task'.best) : b.id = steps'[i].capability /\ b.score >= Threshold
    <3>1. task' = task /\ subtasks' = subtasks /\ DOMAIN steps' = 1 .. n /\ Len(steps') = n
      BY <1>1, <1>4
    <3>2. [i \in DOMAIN steps' |-> steps'[i].subtask] = subtasks'
      BY <1>10, <3>1
    <3>3. IF task'.parts >= 2 THEN Len(steps') = task'.parts
          ELSE /\ Len(steps') \in 3 .. 10
               /\ Cardinality(task'.operations \cap {subtasks'[i][1] : i \in DOMAIN subtasks'})
                    = IF Cardinality(task'.operations) > 2 THEN 2
                      ELSE Cardinality(task'.operations)
      BY <1>10, <3>1
    <3>4. \A i \in DOMAIN steps' : steps'[i].capability # None =>
            \E b \in Elems(task'.best) : b.id = steps'[i].capability /\ b.score >= Threshold
      BY <1>10, <3>1
    <3> QED BY <3>2, <3>3, <3>4
  <2>4. ASSUME Uncut', Valid', NEW i \in DOMAIN steps', steps'[i].capability # None
        PROVE  /\ steps'[i].capability \in Elems(Steps')
               /\ Elems(steps'[i].dependencies) = Elems(task'.children[steps'[i].capability])
               /\ InPlanOrder(steps'[i].dependencies, Steps')
    <3>1. i \in 1 .. n /\ Uncut /\ Valid
      BY <1>4, <1>7, <2>4
    <3> QED BY <1>1, <1>7, <1>11, <2>4, <3>1
  <2>5. ASSUME Uncut', Valid', NEW i \in DOMAIN steps', steps'[i].capability # None
        PROVE  LET c == steps'[i].capability IN
               /\ c \in Elems(Steps')
               /\ Elems(steps'[i].dependencies) = Elems(task'.children[c])
               /\ \A k, l \in DOMAIN steps'[i].dependencies : k < l =>
                    \E p, q \in DOMAIN Steps' :
                      /\ p <= q
                      /\ Steps'[p] = steps'[i].dependencies[k]
                      /\ Steps'[q] = steps'[i].dependencies[l]
    BY <2>4, <2>5 DEF InPlanOrder
  <2> QED BY <2>1, <2>2, <2>3, <2>5 DEF WorkflowIsWhole
<1> QED BY <1>1, <1>5, <1>12 DEF WorkflowInv

LEMMA WorkflowNextInv == WorkflowInv /\ [WorkflowNext]_workflowVars => WorkflowInv'
<1> SUFFICES ASSUME WorkflowInv, [WorkflowNext]_workflowVars PROVE WorkflowInv'
  OBVIOUS
<1>1. CASE WorkflowNext
  BY <1>1, DecomposeTaskInv, RouteSubtaskInv, ComposeChosenInv, ComposeOnInv, DependInv
     DEF WorkflowNext, WorkflowStep
<1>2. CASE UNCHANGED workflowVars
  <2>1. /\ UNCHANGED planVars /\ flow' = flow /\ task' = task /\ subtasks' = subtasks
        /\ steps' = steps
    BY <1>2 DEF workflowVars
  <2>2. CompositionInv' /\ work' = work /\ input' = input
    BY <2>1, IdleStays DEF WorkflowInv, planVars
  <2>3. Roots' = Roots /\ Opened' = Opened /\ Uncut' = Uncut /\ Valid' = Valid /\ Steps' = Steps
    BY <2>1, PlanStays
  <2>4. \A i : Chosen(i)' = Chosen(i)
    BY <2>1, ChosenStays
  <2>5. Assigned' = Assigned /\ Routed' = Routed
    BY <2>1, <2>4 DEF Assigned, Routed
  <2>6. FromRouted' = FromRouted
    BY <2>1, <2>2, <2>3, <2>5 DEF FromRouted
  <2>7. WorkflowIsWhole' = WorkflowIsWhole
    BY <2>1, <2>2, <2>3, <2>5 DEF WorkflowIsWhole
  <2> QED BY <2>1, <2>2, <2>5, <2>6, <2>7 DEF WorkflowInv
<1> QED BY <1>1, <1>2

(* A workflow for any task: a step for every subtask, nothing that was not  *)
(* chosen or part of what was, and of a valid plan every step names all its *)
(* capability is composed of, in the plan's order (planner.ts:48-96,        *)
(* decompose.ts:65-119).                                                    *)
THEOREM WorkflowsAreWhole == WorkflowSpec => []WorkflowIsWhole
<1>1. WorkflowInv => WorkflowIsWhole
  BY DEF WorkflowInv, WorkflowIsWhole
<1> QED BY <1>1, WorkflowInitInv, WorkflowNextInv, PTL DEF WorkflowSpec
=============================================================================
