------------------------------- MODULE DeskProofs -------------------------------
(***************************************************************************)
(* What the pages of the desk and the manage link show and send, for every *)
(* shop, every instance of limits and any number of requests in flight.    *)
(*                                                                         *)
(* The invariants of a page speak of its own requests only.  Steps of the  *)
(* other pages leave these where they are, but for their places in calls:  *)
(* Follows says so once, and each page's proof has one lemma for all of    *)
(* the others' steps (its frame) and one for each kind of its own.         *)
(***************************************************************************)
EXTENDS DeskInvariants, FiniteSetTheorems, SequenceTheorems, WellFoundedInduction, TLAPS

--------------------------------------------------------------------------------
(* Sequences of requests.                                                  *)

\* A sequence over a set is one over its own elements.
LEMMA OwnElements ==
  ASSUME NEW S, NEW s \in Seq(S)
  PROVE  /\ IsSeqOf(s) /\ Len(s) \in Nat /\ DOMAIN s = 1..Len(s)
<1>1. Len(s) \in Nat /\ DOMAIN s = 1..Len(s) /\ s \in [1..Len(s) -> S]
  BY LenProperties
<1>2. s \in [1..Len(s) -> Elems(s)]
  BY <1>1 DEF Elems
<1> QED BY <1>1, <1>2 DEF IsSeqOf

\* What Append does.
LEMMA AppendFacts ==
  ASSUME NEW s, IsSeqOf(s), NEW c
  PROVE  LET t == Append(s, c)
         IN /\ IsSeqOf(t) /\ Len(s) \in Nat /\ DOMAIN s = 1..Len(s) /\ DOMAIN t = 1..(Len(s) + 1)
            /\ t[Len(s) + 1] = c
            /\ \A i \in 1..Len(s) : t[i] = s[i]
<1> DEFINE t == Append(s, c)
           S == Elems(s) \cup {c}
<1>1. s \in Seq(S)
  BY SeqMonotonic, Zenon DEF IsSeqOf
<1>2. t \in Seq(S) /\ Len(t) = Len(s) + 1 /\ t[Len(s) + 1] = c /\ \A i \in 1..Len(s) : t[i] = s[i]
  BY <1>1
<1>3. IsSeqOf(t) /\ DOMAIN t = 1..Len(t) /\ Len(s) \in Nat /\ DOMAIN s = 1..Len(s)
  BY <1>1, <1>2, OwnElements
<1> QED BY <1>2, <1>3

\* What RemoveAt does.
LEMMA RemoveFacts ==
  ASSUME NEW s, IsSeqOf(s), NEW i \in DOMAIN s
  PROVE  LET t == RemoveAt(s, i)
         IN /\ IsSeqOf(t) /\ Len(s) \in Nat \ {0} /\ DOMAIN s = 1..Len(s)
            /\ i \in 1..Len(s) /\ DOMAIN t = 1..(Len(s) - 1)
            /\ \A j \in 1..(Len(s) - 1) : t[j] = IF j < i THEN s[j] ELSE s[j + 1]
<1> DEFINE S == Elems(s)
           a == SubSeq(s, 1, i - 1)
           b == SubSeq(s, i + 1, Len(s))
           t == a \o b
<1>1. s \in Seq(S) /\ Len(s) \in Nat /\ DOMAIN s = 1..Len(s) /\ i \in 1..Len(s)
  BY OwnElements DEF IsSeqOf
<1>2. /\ a \in Seq(S) /\ Len(a) = i - 1
      /\ \A j \in 1..(i - 1) : a[j] = s[j]
  <2>1. \A j \in 1..(i - 1) : s[j] \in S
    BY <1>1 DEF Elems
  <2>2. i - 1 \in Int /\ 1 \in Int /\ (IF 1 <= i - 1 THEN i - 1 - 1 + 1 ELSE 0) = i - 1
    BY <1>1
  <2>3. /\ a \in Seq(S) /\ Len(a) = IF 1 <= i - 1 THEN i - 1 - 1 + 1 ELSE 0
        /\ \A j \in 1..(i - 1 - 1 + 1) : a[j] = s[1 + j - 1]
    <3> HIDE DEF S
    <3> QED BY <2>1, <2>2, SubSeqProperties
  <2> HIDE DEF a
  <2>4. \A j \in 1..(i - 1) : j \in 1..(i - 1 - 1 + 1) /\ 1 + j - 1 = j
    BY <1>1
  <2> QED BY <2>3, <2>2, <2>4
<1>3. /\ b \in Seq(S) /\ Len(b) = Len(s) - i
      /\ \A j \in 1..(Len(s) - i) : b[j] = s[i + j]
  <2>1. \A j \in (i + 1)..Len(s) : s[j] \in S
    BY <1>1 DEF Elems
  <2>2. i + 1 \in Int /\ Len(s) \in Int
        /\ (IF i + 1 <= Len(s) THEN Len(s) - (i + 1) + 1 ELSE 0) = Len(s) - i
    BY <1>1
  <2>3. /\ b \in Seq(S) /\ Len(b) = IF i + 1 <= Len(s) THEN Len(s) - (i + 1) + 1 ELSE 0
        /\ \A j \in 1..(Len(s) - (i + 1) + 1) : b[j] = s[i + 1 + j - 1]
    <3> HIDE DEF S
    <3> QED BY <2>1, <2>2, SubSeqProperties
  <2> HIDE DEF b
  <2>4. \A j \in 1..(Len(s) - i) : j \in 1..(Len(s) - (i + 1) + 1) /\ i + 1 + j - 1 = i + j
    BY <1>1
  <2> QED BY <2>3, <2>2, <2>4
<1> HIDE DEF a, b, S
<1>4. /\ t \in Seq(S) /\ Len(t) = Len(s) - 1
      /\ \A j \in 1..(Len(s) - 1) : t[j] = IF j <= i - 1 THEN a[j] ELSE b[j - (i - 1)]
  <2>1. Len(a \o b) = Len(a) + Len(b) /\ a \o b \in Seq(S)
        /\ \A j \in 1..(Len(a) + Len(b)) : (a \o b)[j] = IF j <= Len(a) THEN a[j] ELSE b[j - Len(a)]
    BY <1>2, <1>3, ConcatProperties, Zenon
  <2>2. Len(a) = i - 1 /\ Len(a) + Len(b) = Len(s) - 1
    BY <1>1, <1>2, <1>3
  <2> QED BY <2>1, <2>2, Zenon
<1>5. \A j \in 1..(Len(s) - 1) : t[j] = IF j < i THEN s[j] ELSE s[j + 1]
  <2> TAKE j \in 1..(Len(s) - 1)
  <2> HIDE DEF t
  <2>1. CASE j < i
    BY <1>1, <1>2, <1>4, <2>1
  <2>2. CASE ~(j < i)
    <3>1. j - (i - 1) \in 1..(Len(s) - i) /\ i + (j - (i - 1)) = j + 1 /\ ~(j <= i - 1)
      BY <1>1, <2>2
    <3> QED BY <1>3, <1>4, <2>2, <3>1
  <2> QED BY <2>1, <2>2
<1>6. IsSeqOf(t) /\ DOMAIN t = 1..Len(t)
  BY <1>4, OwnElements
<1>7. RemoveAt(s, i) = t
  BY DEF RemoveAt, a, b
<1> HIDE DEF t
<1> QED BY <1>1, <1>4, <1>5, <1>6, <1>7

\* What changing one place does.
LEMMA ExceptFacts ==
  ASSUME NEW s, IsSeqOf(s), NEW i \in DOMAIN s, NEW c
  PROVE  LET t == [s EXCEPT ![i] = c]
         IN /\ IsSeqOf(t) /\ DOMAIN t = DOMAIN s
            /\ \A j \in DOMAIN s : t[j] = IF j = i THEN c ELSE s[j]
<1> DEFINE t == [s EXCEPT ![i] = c]
           S == Elems(s) \cup {c}
<1>1. s \in Seq(S) /\ Len(s) \in Nat /\ DOMAIN s = 1..Len(s) /\ i \in 1..Len(s) /\ c \in S
  BY SeqMonotonic, OwnElements DEF IsSeqOf
<1>2. t \in Seq(S) /\ Len(t) = Len(s) /\ \A j \in 1..Len(s) : t[j] = IF j = i THEN c ELSE s[j]
  <2> HIDE DEF S
  <2> QED BY <1>1, ExceptSeq
<1>3. IsSeqOf(t) /\ DOMAIN t = 1..Len(t)
  BY <1>2, OwnElements
<1> QED BY <1>1, <1>2, <1>3

--------------------------------------------------------------------------------
(* How the requests of a page change.                                      *)

\* The requests of a page in t are those in s, in the order of s, but for the ones
\* gone and one added at the end.
Follows(page, s, t, gone, new) ==
  /\ new \subseteq At(page, t) /\ \A j \in At(page, t) \ new, k \in new : j < k
  /\ \E f \in [At(page, t) \ new -> At(page, s) \ gone] :
       /\ \A j \in At(page, t) \ new : t[j] = s[f[j]]
       /\ \A j, k \in At(page, t) \ new : j < k => f[j] < f[k]
       /\ \A i \in At(page, s) \ gone : \E j \in At(page, t) \ new : f[j] = i

Added(page, c, place) == IF c.from = page THEN {place} ELSE {}
Keeps(page) == Follows(page, calls, calls', {}, {})

\* A request added at the end.
LEMMA FollowsAppend ==
  ASSUME NEW s, IsSeqOf(s), NEW c, NEW page
  PROVE  Follows(page, s, Append(s, c), {}, Added(page, c, Len(s) + 1))
<1> DEFINE t == Append(s, c)
           new == Added(page, c, Len(s) + 1)
           f == [j \in At(page, t) \ new |-> j]
<1>1. /\ Len(s) \in Nat /\ DOMAIN s = 1..Len(s) /\ DOMAIN t = 1..(Len(s) + 1) /\ t[Len(s) + 1] = c
      /\ \A i \in 1..Len(s) : t[i] = s[i]
  BY AppendFacts
<1> HIDE DEF t
<1>2. new \subseteq At(page, t) /\ \A j \in At(page, t) \ new, k \in new : j < k
  BY <1>1 DEF At, Added
<1>3. At(page, t) \ new = At(page, s) \ {}
  BY <1>1 DEF At, Added
<1>4. \A j \in At(page, s) : t[j] = s[j]
  BY <1>1 DEF At
<1> HIDE DEF new
<1>5. f \in [At(page, t) \ new -> At(page, s) \ {}]
  BY <1>3
<1>6. /\ \A j \in At(page, t) \ new : t[j] = s[f[j]]
      /\ \A j, k \in At(page, t) \ new : j < k => f[j] < f[k]
      /\ \A i \in At(page, s) \ {} : \E j \in At(page, t) \ new : f[j] = i
  BY <1>3, <1>4
<1>7. Follows(page, s, t, {}, new)
  <2> HIDE DEF f
  <2> QED BY <1>2, <1>5, <1>6 DEF Follows
<1> QED BY <1>7 DEF t, new

\* A request taken out.
LEMMA FollowsRemove ==
  ASSUME NEW s, IsSeqOf(s), NEW i \in DOMAIN s, NEW page
  PROVE  Follows(page, s, RemoveAt(s, i), {i}, {})
<1> DEFINE t == RemoveAt(s, i)
           f == [j \in At(page, t) |-> IF j < i THEN j ELSE j + 1]
<1>1. /\ Len(s) \in Nat \ {0} /\ DOMAIN s = 1..Len(s) /\ i \in 1..Len(s) /\ DOMAIN t = 1..(Len(s) - 1)
      /\ \A j \in 1..(Len(s) - 1) : t[j] = IF j < i THEN s[j] ELSE s[j + 1]
  BY RemoveFacts
<1> HIDE DEF t
<1>2. f \in [At(page, t) -> At(page, s) \ {i}]
  <2> SUFFICES ASSUME NEW j \in At(page, t)
               PROVE  (IF j < i THEN j ELSE j + 1) \in At(page, s) \ {i}
    OBVIOUS
  <2>1. CASE j < i
    BY <1>1, <2>1 DEF At
  <2>2. CASE ~(j < i)
    BY <1>1, <2>2 DEF At
  <2> QED BY <2>1, <2>2
<1>3. \A j \in At(page, t) : t[j] = s[f[j]]
  BY <1>1 DEF At
<1>4. \A j, k \in At(page, t) : j < k => f[j] < f[k]
  BY <1>1 DEF At
<1>5. ASSUME NEW k \in At(page, s) \ {i} PROVE \E j \in At(page, t) : f[j] = k
  <2>1. CASE k < i
    <3>1. k \in At(page, t) /\ f[k] = k
      BY <1>1, <2>1 DEF At
    <3> QED BY <3>1
  <2>2. CASE ~(k < i)
    <3>1. k - 1 \in At(page, t) /\ f[k - 1] = k
      BY <1>1, <2>2 DEF At
    <3> QED BY <3>1
  <2> QED BY <2>1, <2>2
<1>6. Follows(page, s, t, {i}, {})
  <2>1. At(page, t) \ {} = At(page, t)
    OBVIOUS
  <2> HIDE DEF f
  <2> QED BY <1>2, <1>3, <1>4, <1>5, <2>1 DEF Follows
<1> QED BY <1>6 DEF t

\* One after the other.
LEMMA FollowsTwice ==
  ASSUME NEW s, NEW t, NEW u, NEW page, NEW gone, NEW new,
         IsSeqOf(s), IsSeqOf(t), IsSeqOf(u),
         Follows(page, s, t, gone, {}), Follows(page, t, u, {}, new)
  PROVE  Follows(page, s, u, gone, new)
<1>1. PICK f \in [At(page, t) -> At(page, s) \ gone] :
         /\ \A j \in At(page, t) : t[j] = s[f[j]]
         /\ \A j, k \in At(page, t) : j < k => f[j] < f[k]
         /\ \A i \in At(page, s) \ gone : \E j \in At(page, t) : f[j] = i
  <2>1. At(page, t) \ {} = At(page, t)
    OBVIOUS
  <2> QED BY <2>1 DEF Follows
<1>2. PICK g \in [At(page, u) \ new -> At(page, t)] :
         /\ \A j \in At(page, u) \ new : u[j] = t[g[j]]
         /\ \A j, k \in At(page, u) \ new : j < k => g[j] < g[k]
         /\ \A i \in At(page, t) : \E j \in At(page, u) \ new : g[j] = i
  <2>1. At(page, t) \ {} = At(page, t)
    OBVIOUS
  <2> QED BY <2>1 DEF Follows
<1> DEFINE h == [j \in At(page, u) \ new |-> f[g[j]]]
<1>3. h \in [At(page, u) \ new -> At(page, s) \ gone]
  BY <1>1, <1>2
<1>4. /\ \A j \in At(page, u) \ new : u[j] = s[h[j]]
      /\ \A j, k \in At(page, u) \ new : j < k => h[j] < h[k]
  BY <1>1, <1>2
<1>5. \A i \in At(page, s) \ gone : \E j \in At(page, u) \ new : h[j] = i
  BY <1>1, <1>2
<1>6. new \subseteq At(page, u) /\ \A j \in At(page, u) \ new, k \in new : j < k
  BY DEF Follows
<1> HIDE DEF h
<1> QED BY <1>3, <1>4, <1>5, <1>6 DEF Follows

\* A request of another page that changes in its place, or nothing at all.
LEMMA FollowsExcept ==
  ASSUME NEW s, IsSeqOf(s), NEW i \in DOMAIN s, NEW c, NEW page, s[i].from # page, c.from # page
  PROVE  Follows(page, s, [s EXCEPT ![i] = c], {}, {})
<1> DEFINE t == [s EXCEPT ![i] = c]
           f == [j \in At(page, t) |-> j]
<1>1. DOMAIN t = DOMAIN s /\ \A j \in DOMAIN s : t[j] = IF j = i THEN c ELSE s[j]
  BY ExceptFacts
<1> HIDE DEF t
<1>2. At(page, t) \ {} = At(page, t) /\ At(page, s) \ {} = At(page, t)
      /\ \A j \in At(page, t) : t[j] = s[j]
  BY <1>1 DEF At
<1>3. f \in [At(page, t) -> At(page, t)] /\ \A j \in At(page, t) : f[j] = j
  OBVIOUS
<1> HIDE DEF f
<1>4. Follows(page, s, t, {}, {})
  BY <1>2, <1>3 DEF Follows
<1> QED BY <1>4 DEF t

\* Nothing at all.
LEMMA FollowsSame ==
  ASSUME NEW s, NEW page
  PROVE  Follows(page, s, s, {}, {})
<1> DEFINE f == [j \in At(page, s) |-> j]
<1>1. f \in [At(page, s) -> At(page, s)] /\ (\A j \in At(page, s) : f[j] = j) /\ At(page, s) \ {} = At(page, s)
  OBVIOUS
<1> HIDE DEF f
<1> QED BY <1>1 DEF Follows

\* A request that was no request of the page is missed by nobody.
LEMMA FollowsElsewhere ==
  ASSUME NEW s, NEW t, NEW i, NEW page, NEW new, i \notin At(page, s), Follows(page, s, t, {i}, new)
  PROVE  Follows(page, s, t, {}, new)
<1>1. At(page, s) \ {i} = At(page, s) \ {}
  OBVIOUS
<1> QED BY <1>1 DEF Follows

--------------------------------------------------------------------------------
(* Types.                                                                  *)

Marks(i, p, r) == calls' = [calls EXCEPT ![i].pc = p, ![i].res = r]

\* An answer changes the request it answers, and only in pc and res.
LEMMA ReplyFacts ==
  ASSUME CallsType, NEW i \in DOMAIN calls, NEW p, NEW r, Marks(i, p, r)
  PROVE  /\ IsSeqOf(calls') /\ DOMAIN calls' = DOMAIN calls
         /\ \A j \in DOMAIN calls : j # i => calls'[j] = calls[j]
         /\ calls'[i] = [from |-> calls[i].from, kind |-> calls[i].kind, arg |-> calls[i].arg,
                         then |-> calls[i].then, pc |-> p, res |-> r]
         /\ calls' = [calls EXCEPT ![i] = calls'[i]]
<1> DEFINE c == calls[i]
           d == [from |-> c.from, kind |-> c.kind, arg |-> c.arg, then |-> c.then, pc |-> p, res |-> r]
<1>1. c = [from |-> c.from, kind |-> c.kind, arg |-> c.arg, then |-> c.then, pc |-> c.pc, res |-> c.res]
  BY Zenon DEF CallsType, CallType
<1>2. [[c EXCEPT !.pc = p] EXCEPT !.res = r] = d
  <2>1. ASSUME NEW f, NEW k, NEW a, NEW t, NEW q, NEW x,
               c = [from |-> f, kind |-> k, arg |-> a, then |-> t, pc |-> q, res |-> x]
        PROVE  [[c EXCEPT !.pc = p] EXCEPT !.res = r]
                 = [from |-> f, kind |-> k, arg |-> a, then |-> t, pc |-> p, res |-> r]
    <3> HIDE DEF c
    <3>1. [c EXCEPT !.pc = p] = [from |-> f, kind |-> k, arg |-> a, then |-> t, pc |-> p, res |-> x]
      BY <2>1
    <3>2. ASSUME NEW e, e = [from |-> f, kind |-> k, arg |-> a, then |-> t, pc |-> p, res |-> x]
          PROVE  [e EXCEPT !.res = r] = [from |-> f, kind |-> k, arg |-> a, then |-> t, pc |-> p, res |-> r]
      BY <3>2
    <3> QED BY <3>1, <3>2, Zenon
  <2> HIDE DEF c
  <2> QED BY <1>1, <2>1
<1>3. calls' = [calls EXCEPT ![i] = d]
  <2>1. calls' = [calls EXCEPT ![i] = [[c EXCEPT !.pc = p] EXCEPT !.res = r]]
    BY DEF Marks
  <2> HIDE DEF c, d
  <2> QED BY <1>2, <2>1
<1>4. IsSeqOf(calls)
  BY DEF CallsType
<1> HIDE DEF d
<1>5. /\ IsSeqOf(calls') /\ DOMAIN calls' = DOMAIN calls
      /\ \A j \in DOMAIN calls : calls'[j] = IF j = i THEN d ELSE calls[j]
  <2>1. /\ IsSeqOf([calls EXCEPT ![i] = d]) /\ DOMAIN [calls EXCEPT ![i] = d] = DOMAIN calls
        /\ \A j \in DOMAIN calls : [calls EXCEPT ![i] = d][j] = IF j = i THEN d ELSE calls[j]
    BY <1>4, ExceptFacts
  <2> QED BY <1>3, <2>1
<1>6. calls'[i] = d
  BY <1>5
<1> QED BY <1>3, <1>5, <1>6 DEF d

\* An answer of its kind keeps the requests typed.
LEMMA TypedReply ==
  ASSUME CallsType, NEW i \in DOMAIN calls, NEW r, Reply(i, r),
         \A d : d.kind = calls[i].kind /\ d.arg = calls[i].arg /\ d.res = r /\ r.ok => BringsOf(d)
  PROVE  CallsType'
<1>1. Marks(i, "done", r)
  BY DEF Reply, Marks
<1>2. /\ IsSeqOf(calls') /\ DOMAIN calls' = DOMAIN calls
      /\ \A j \in DOMAIN calls : j # i => calls'[j] = calls[j]
      /\ calls'[i] = [from |-> calls[i].from, kind |-> calls[i].kind, arg |-> calls[i].arg,
                      then |-> calls[i].then, pc |-> "done", res |-> r]
  BY <1>1, ReplyFacts
<1> DEFINE d == calls'[i]
<1>3. d.from = calls[i].from /\ d.kind = calls[i].kind /\ d.arg = calls[i].arg
      /\ d.then = calls[i].then /\ d.pc = "done" /\ d.res = r
      /\ d = [from |-> d.from, kind |-> d.kind, arg |-> d.arg, then |-> d.then, pc |-> d.pc, res |-> d.res]
  BY <1>2
<1>4. CallType(calls[i])
  BY DEF CallsType
<1> HIDE DEF d
<1>5. CarriesOf(d)
  BY <1>3, <1>4 DEF CallType, CarriesOf
<1>6. d.res.ok => BringsOf(d)
  BY <1>3, Zenon
<1>7. CallType(d)
  BY <1>3, <1>4, <1>5, <1>6 DEF CallType
<1>8. \A j \in DOMAIN calls : CallType(calls[j])
  BY DEF CallsType
<1> QED BY <1>2, <1>7, <1>8 DEF CallsType, d

\* So does an error.
LEMMA TypedError ==
  ASSUME CallsType, NEW i \in DOMAIN calls, NEW n, Reply(i, Error(n))
  PROVE  CallsType'
<1>1. ~Error(n).ok
  BY DEF Error
<1> QED BY <1>1, TypedReply

\* So does a request sent,
LEMMA TypedSend ==
  ASSUME CallsType, NEW c, CallType(c), calls' = Append(calls, c)
  PROVE  CallsType'
<1>1. /\ IsSeqOf(calls') /\ Len(calls) \in Nat /\ DOMAIN calls = 1..Len(calls)
      /\ DOMAIN calls' = 1..(Len(calls) + 1) /\ calls'[Len(calls) + 1] = c
      /\ \A j \in 1..Len(calls) : calls'[j] = calls[j]
  BY AppendFacts DEF CallsType
<1>2. \A j \in DOMAIN calls : CallType(calls[j])
  BY DEF CallsType
<1>3. \A j \in DOMAIN calls' : j \in DOMAIN calls \/ j = Len(calls) + 1
  BY <1>1
<1> QED BY <1>1, <1>2, <1>3 DEF CallsType

\* and one taken out,
LEMMA TypedTake ==
  ASSUME CallsType, NEW i \in DOMAIN calls
  PROVE  IsSeqOf(Others(i)) /\ \A j \in DOMAIN Others(i) : CallType(Others(i)[j])
<1>1. /\ IsSeqOf(Others(i)) /\ Len(calls) \in Nat \ {0} /\ DOMAIN calls = 1..Len(calls)
      /\ i \in 1..Len(calls) /\ DOMAIN Others(i) = 1..(Len(calls) - 1)
      /\ \A j \in 1..(Len(calls) - 1) : Others(i)[j] = IF j < i THEN calls[j] ELSE calls[j + 1]
  BY RemoveFacts DEF CallsType, Others
<1>2. \A j \in DOMAIN calls : CallType(calls[j])
  BY DEF CallsType
<1>3. \A j \in 1..(Len(calls) - 1) : j \in DOMAIN calls /\ j + 1 \in DOMAIN calls
  BY <1>1
<1> QED BY <1>1, <1>2, <1>3

\* or is taken out.
LEMMA TypedTaken ==
  ASSUME CallsType, NEW i \in DOMAIN calls, calls' = Others(i)
  PROVE  CallsType'
BY TypedTake DEF CallsType

\* Another request takes its place at the end.
LEMMA TypedChange ==
  ASSUME CallsType, NEW i \in DOMAIN calls, NEW c, CallType(c), calls' = Append(Others(i), c)
  PROVE  CallsType'
<1> DEFINE s == Others(i)
<1>1. IsSeqOf(s) /\ \A j \in DOMAIN s : CallType(s[j])
  BY TypedTake
<1> HIDE DEF s
<1>2. /\ IsSeqOf(calls') /\ Len(s) \in Nat /\ DOMAIN s = 1..Len(s)
      /\ DOMAIN calls' = 1..(Len(s) + 1) /\ calls'[Len(s) + 1] = c
      /\ \A j \in 1..Len(s) : calls'[j] = s[j]
  BY <1>1, AppendFacts DEF s
<1>3. \A j \in DOMAIN calls' : j \in DOMAIN s \/ j = Len(s) + 1
  BY <1>2
<1> QED BY <1>1, <1>2, <1>3 DEF CallsType

\* The smaller of two integers.
LEMMA MinOfTwo ==
  ASSUME NEW a \in Int, NEW b \in Int
  PROVE  Min({a, b}) \in {a, b} /\ Min({a, b}) <= a /\ Min({a, b}) <= b
<1>1. \E x \in {a, b} : \A y \in {a, b} : x <= y
  BY DEF Min
<1> QED BY <1>1 DEF Min

\* The larger of two integers.
LEMMA MaxOfTwo ==
  ASSUME NEW a \in Int, NEW b \in Int
  PROVE  Max({a, b}) \in {a, b} /\ Max({a, b}) >= a /\ Max({a, b}) >= b
<1>1. \E x \in {a, b} : \A y \in {a, b} : x >= y
  BY DEF Max
<1> QED BY <1>1 DEF Max

\* A page of a list of the members of V has members of V.
LEMMA PageOf ==
  ASSUME NEW V, IsFiniteSet(V), NEW all \in SetToSeqs(V), NEW p \in Nat \ {0}
  PROVE  /\ \A n \in DOMAIN Page(all, p) : Page(all, p)[n] \in V
         /\ Len(all) \in Nat
<1>1. Cardinality(V) \in Nat
  BY FS_CardinalityType
<1>2. all \in [1..Cardinality(V) -> V]
  BY DEF SetToSeqs
<1>3. all \in Seq(V) /\ Len(all) \in Nat /\ DOMAIN all = 1..Len(all) /\ Len(all) = Cardinality(V)
  BY <1>1, <1>2
<1> DEFINE m == (p - 1) * PAGE_SIZE + 1
           n == Min({p * PAGE_SIZE, Len(all)})
<1>4. p * PAGE_SIZE \in Int /\ (p - 1) * PAGE_SIZE \in Nat
  <2>1. PAGE_SIZE \in Nat /\ p - 1 \in Nat
    BY DeskAssumption
  <2> QED BY <2>1
<1>5. m \in Int /\ m >= 1 /\ n \in Int /\ n <= Len(all)
  <2>1. n \in {p * PAGE_SIZE, Len(all)} /\ n <= Len(all)
    <3>1. Len(all) \in Int
      BY <1>3
    <3> QED BY <3>1, <1>4, MinOfTwo, Zenon
  <2>2. m \in Int /\ m >= 1
    <3>1. ASSUME NEW k \in Nat PROVE k + 1 \in Int /\ k + 1 >= 1
      OBVIOUS
    <3> QED BY <3>1, <1>4, Zenon
  <2>3. n \in Int
    <3> HIDE DEF n
    <3> QED BY <1>3, <1>4, <2>1
  <2> QED BY <2>1, <2>2, <2>3, Zenon
<1> HIDE DEF m, n
<1>6. \A k \in m..n : all[k] \in V
  <2> TAKE k \in m..n
  <2>1. k \in 1..Len(all)
    BY <1>3, <1>5
  <2> QED BY <1>2, <1>3, <2>1, Zenon
<1>7. SubSeq(all, m, n) \in Seq(V)
  BY <1>5, <1>6, SubSeqProperties
<1>8. Page(all, p) \in Seq(V)
  BY <1>7 DEF Page, m, n
<1> HIDE DEF Page
<1>9. \A k \in DOMAIN Page(all, p) : Page(all, p)[k] \in V
  BY <1>8, LenProperties, ElementOfSeq
<1> QED BY <1>3, <1>9

\* A read changes no table.
LEMMA ReadTypes ==
  ASSUME TablesType, CallsType, NEW i \in DOMAIN calls, NEW kind, NEW val, Read(i, kind, val),
         \A d : d.kind = kind /\ d.arg = calls[i].arg /\ d.res = Ok(val) => BringsOf(d)
  PROVE  TablesType' /\ CallsType'
<1>1. Reply(i, Ok(val)) /\ UNCHANGED <<limits, tables, counters>> /\ calls[i].kind = kind
  BY DEF Read, Is
<1>2. CallsType'
  BY <1>1, TypedReply
<1> QED BY <1>1, <1>2 DEF TablesType, tables, counters

\* What a write of one row of the agenda leaves.
LEMMA WrittenRows ==
  ASSUME visit \in [Visit -> VisitRow], NEW v \in Visit, NEW row \in VisitRow, Write(v, row)
  PROVE  /\ visit' \in [Visit -> VisitRow] /\ \A u \in Visit : u # v => visit'[u] = visit[u]
         /\ visit'[v].client = row.client /\ visit'[v].pro = row.pro /\ visit'[v].at = row.at
         /\ visit'[v].status = row.status /\ visit'[v].price = row.price /\ visit'[v].review = row.review
         /\ visit'[v].ver = visit[v].ver + 1
         /\ visit'[v].undone = (visit[v].undone \/ (visit[v].status \in Ended /\ Moved(v, row)))
         /\ \A u \in Visit : visit[u].ver <= visit'[u].ver
<1> DEFINE k == visit[v].undone \/ (visit[v].status \in Ended /\ Moved(v, row))
           n == visit[v].ver + 1
           e == [row EXCEPT !.ver = n, !.undone = k]
<1>1. visit[v] \in VisitRow /\ n \in Nat /\ k \in BOOLEAN
  BY DEF VisitRow
<1>2. visit' = [visit EXCEPT ![v] = e]
  BY DEF Write
<1> HIDE DEF k, n
<1>3. /\ e \in VisitRow /\ e.client = row.client /\ e.pro = row.pro /\ e.at = row.at
      /\ e.status = row.status /\ e.price = row.price /\ e.review = row.review /\ e.ver = n /\ e.undone = k
  BY <1>1 DEF VisitRow
<1> HIDE DEF e
<1>4. visit' \in [Visit -> VisitRow] /\ visit'[v] = e /\ \A u \in Visit : u # v => visit'[u] = visit[u]
  BY <1>2, <1>3
<1>5. \A u \in Visit : visit[u].ver \in Nat
  BY DEF VisitRow
<1>6. visit[v].ver <= visit'[v].ver /\ \A u \in Visit : visit[u].ver <= visit[u].ver
  BY <1>3, <1>4, <1>5 DEF n
<1>7. \A u \in Visit : visit[u].ver <= visit'[u].ver
  BY <1>4, <1>6
<1> QED BY <1>3, <1>4, <1>7, Zenon DEF n, k

\* A write of one row of the agenda.
LEMMA WriteTypes ==
  ASSUME TablesType, NEW v \in Visit, NEW row \in VisitRow, Write(v, row), quietTables
  PROVE  TablesType'
<1>1. visit' \in [Visit -> VisitRow]
  BY WrittenRows DEF TablesType
<1> QED BY <1>1 DEF TablesType, quietTables, counters

\* What is written elsewhere keeps all but the status and, not of Mine, the time.
LEMMA WrittenElsewhere ==
  ASSUME TablesType, NEW x \in decided, WriteElsewhere(x)
  PROVE  \E row \in VisitRow :
           /\ UNCHANGED visit \/ Write(x.id, row)
           /\ row.review = visit[x.id].review /\ row.price = visit[x.id].price /\ row.pro = visit[x.id].pro
           /\ x.id = Mine => row.at = visit[x.id].at
<1> DEFINE old == visit[x.id]
           t == IF x.at = NoTime THEN old.at ELSE x.at
           row == [old EXCEPT !.status = x.status, !.at = t]
<1>1. x \in Decision /\ (x.id = Mine => x.at = NoTime) /\ visit \in [Visit -> VisitRow]
  BY DEF TablesType
<1>2. x.id \in Visit /\ x.status \in Status /\ x.at \in Nat \cup {NoTime}
  BY <1>1 DEF Decision
<1>3. old \in VisitRow /\ old.at \in Nat /\ t \in Nat /\ (x.id = Mine => t = old.at)
  BY <1>1, <1>2 DEF VisitRow
<1>4. UNCHANGED visit \/ Write(x.id, row)
  BY DEF WriteElsewhere
<1> HIDE DEF old, t
<1>5. row \in VisitRow /\ row.review = old.review /\ row.price = old.price /\ row.pro = old.pro /\ row.at = t
  BY <1>2, <1>3 DEF VisitRow
<1> HIDE DEF row
<1> QED BY <1>3, <1>4, <1>5 DEF old

\* A handler that refuses, or goes on, has changed no table.
LEMMA QuietTypes ==
  ASSUME TablesType, quietTables, UNCHANGED visit
  PROVE  TablesType'
BY DEF TablesType, quietTables, counters

\* A request whose handler goes on has the status it read.
LEMMA DecideTypes ==
  ASSUME TablesType, CallsType, NEW i \in DOMAIN calls, NEW v \in Visit, calls[i].kind \in StepKinds,
         Decide(i, v), quietTables
  PROVE  TablesType' /\ CallsType'
<1> DEFINE r == visit[v].status
<1>1. Marks(i, "read", r) /\ UNCHANGED visit
  BY DEF Decide, Marks
<1>2. r \in Status /\ TablesType'
  BY <1>1, QuietTypes DEF TablesType, VisitRow
<1> HIDE DEF r
<1>3. /\ IsSeqOf(calls') /\ DOMAIN calls' = DOMAIN calls
      /\ \A j \in DOMAIN calls : j # i => calls'[j] = calls[j]
      /\ calls'[i] = [from |-> calls[i].from, kind |-> calls[i].kind, arg |-> calls[i].arg,
                      then |-> calls[i].then, pc |-> "read", res |-> r]
  BY <1>1, ReplyFacts
<1> DEFINE d == calls'[i]
<1>4. d.from = calls[i].from /\ d.kind = calls[i].kind /\ d.arg = calls[i].arg
      /\ d.then = calls[i].then /\ d.pc = "read" /\ d.res = r
      /\ d = [from |-> d.from, kind |-> d.kind, arg |-> d.arg, then |-> d.then, pc |-> d.pc, res |-> d.res]
  BY <1>3
<1>5. CallType(calls[i]) /\ \A j \in DOMAIN calls : CallType(calls[j])
  BY DEF CallsType
<1> HIDE DEF d
<1>6. CallType(d)
  <2>1. CarriesOf(d)
    BY <1>4, <1>5 DEF CallType, CarriesOf
  <2> QED BY <1>2, <1>4, <1>5, <2>1 DEF CallType
<1> QED BY <1>2, <1>3, <1>5, <1>6 DEF CallsType, d

\* A handler's check refuses the request or goes on.
LEMMA ChecksTypes ==
  ASSUME TablesType, CallsType, NEW i \in DOMAIN calls, NEW v \in Visit, calls[i].kind \in StepKinds,
         quietTables, Decide(i, v) \/ (\E n : Refuse(i, n))
  PROVE  TablesType' /\ CallsType'
<1>1. CASE Decide(i, v)
  BY <1>1, DecideTypes
<1>2. CASE \E n : Refuse(i, n)
  <2>1. PICK n : Reply(i, Error(n)) /\ UNCHANGED visit
    BY <1>2 DEF Refuse
  <2> QED BY <2>1, TypedError, QuietTypes
<1> QED BY <1>1, <1>2

\* Its write is made, or refused by the database.
LEMMA ByIdTypes ==
  ASSUME TablesType, CallsType, NEW i \in DOMAIN calls, NEW kind, NEW v \in Visit, NEW row \in VisitRow,
         NEW n, NEW val, ById(i, kind, v, row, n, val), \A d : d.kind = kind /\ d.res = Ok(val) => BringsOf(d)
  PROVE  TablesType' /\ CallsType'
<1>1. calls[i].kind = kind /\ quietTables
  BY DEF ById
<1>2. CASE Write(v, row) /\ Reply(i, Ok(val))
  <2>1. \A d : d.kind = calls[i].kind /\ d.arg = calls[i].arg /\ d.res = Ok(val) /\ Ok(val).ok => BringsOf(d)
    BY <1>1
  <2> QED BY <1>1, <1>2, <2>1, WriteTypes, TypedReply
<1>3. CASE Refuse(i, n)
  <2>1. Reply(i, Error(n)) /\ UNCHANGED visit
    BY <1>3 DEF Refuse
  <2> QED BY <1>1, <2>1, TypedError, QuietTypes
<1> QED BY <1>2, <1>3 DEF ById

\* What the manage link's handlers check, and what they write.
ManageChecks(i) == confirmByToken(i) \/ cancelByToken(i) \/ rescheduleByToken(i) \/ reviewByToken(i)
ManageWrites(i) == confirmWrite(i) \/ cancelWrite(i) \/ rescheduleWrite(i) \/ reviewWrite(i)

\* The checks refuse or go on, and are those of their kinds.
LEMMA ManageChecksAre ==
  ASSUME NEW i, ManageChecks(i)
  PROVE  /\ calls[i].kind \in {"confirm", "cancel", "reschedule", "review"} /\ calls[i].pc = "sent" /\ Served(i)
         /\ quietTables
         /\ \/ Decide(i, Mine) \/ (\E n : Refuse(i, n))
            \/ /\ calls[i].kind = "confirm" /\ UNCHANGED visit
               /\ Reply(i, Ok([at |-> visit[Mine].at]))
<1>1. CASE confirmByToken(i)
  BY <1>1 DEF confirmByToken, Is
<1>2. CASE cancelByToken(i)
  BY <1>2 DEF cancelByToken, Is
<1>3. CASE rescheduleByToken(i)
  BY <1>3 DEF rescheduleByToken, Is
<1>4. CASE reviewByToken(i)
  BY <1>4 DEF reviewByToken, Is
<1> QED BY <1>1, <1>2, <1>3, <1>4 DEF ManageChecks

\* The times of the day and the answers of the manage link.
LEMMA ManageServed ==
  ASSUME Types, NEW i \in DOMAIN calls,
         getByManageToken(i) \/ getPublicSlots(i) \/ ManageChecks(i) \/ ManageWrites(i)
  PROVE  TablesType' /\ CallsType'
<1>0. TablesType /\ CallsType /\ CallType(calls[i]) /\ Mine \in Visit /\ visit[Mine] \in VisitRow
  BY DeskAssumption DEF Types, CallsType, TablesType
<1>1. CASE getByManageToken(i)
  <2>1. \A d : d.kind = "get" => BringsOf(d)
    BY DEF BringsOf, SettingsKinds
  <2> QED BY <1>0, <1>1, <2>1, ReadTypes DEF getByManageToken
<1>2. CASE getPublicSlots(i)
  <2>1. CASE calls[i].arg # NoTime
    <3> DEFINE val == IF isFree(Mine, calls[i].arg) THEN {calls[i].arg} ELSE {}
    <3>1. Read(i, "slots", val) /\ calls[i].kind = "slots" /\ val \subseteq {calls[i].arg}
      BY <1>2, <2>1 DEF getPublicSlots, Read, Is
    <3>2. calls[i].arg \in Nat
      BY <1>0, <2>1, <3>1 DEF CallType, CarriesOf, Day
    <3> HIDE DEF val
    <3>3. \A d : d.kind = "slots" /\ d.arg = calls[i].arg /\ d.res = Ok(val) => BringsOf(d)
      BY <3>1, <3>2 DEF BringsOf, SettingsKinds, Ok
    <3> QED BY <1>0, <3>1, <3>3, ReadTypes
  <2>2. CASE calls[i].arg = NoTime
    <3>1. Reply(i, Error(500)) /\ UNCHANGED <<limits, tables, counters>>
      BY <1>2, <2>2 DEF getPublicSlots
    <3> QED BY <1>0, <3>1, TypedError DEF TablesType, tables, counters
  <2> QED BY <2>1, <2>2
<1>3. \A d : d.kind \in {"confirm", "cancel", "reschedule", "review"} => BringsOf(d)
  BY DEF BringsOf, SettingsKinds
<1>4. CASE ManageChecks(i)
  <2>1. /\ calls[i].kind \in {"confirm", "cancel", "reschedule", "review"} /\ quietTables
        /\ \/ Decide(i, Mine) \/ (\E n : Refuse(i, n))
           \/ UNCHANGED visit /\ Reply(i, Ok([at |-> visit[Mine].at]))
    BY <1>4, ManageChecksAre
  <2>2. calls[i].kind \in StepKinds
    BY <2>1 DEF StepKinds
  <2>3. CASE UNCHANGED visit /\ Reply(i, Ok([at |-> visit[Mine].at]))
    <3>1. \A d : d.kind = calls[i].kind => BringsOf(d)
      BY <1>3, <2>1
    <3> QED BY <1>0, <2>1, <2>3, <3>1, TypedReply, QuietTypes
  <2> QED BY <1>0, <2>1, <2>2, <2>3, ChecksTypes
<1>5. CASE confirmWrite(i)
  <2>1. [visit[Mine] EXCEPT !.status = "CONFIRMED"] \in VisitRow
    BY <1>0 DEF VisitRow, Status
  <2> QED BY <1>0, <1>3, <1>5, <2>1, ByIdTypes DEF confirmWrite
<1>6. CASE cancelWrite(i)
  <2>1. [visit[Mine] EXCEPT !.status = "CANCELLED"] \in VisitRow
    BY <1>0 DEF VisitRow, Status
  <2> QED BY <1>0, <1>3, <1>6, <2>1, ByIdTypes DEF cancelWrite
<1>7. CASE rescheduleWrite(i)
  <2>1. calls[i].kind = "reschedule" /\ calls[i].pc = "read"
    BY <1>7 DEF rescheduleWrite, ById
  <2>2. calls[i].arg.to \in Nat /\ calls[i].res \in Status
    BY <1>0, <2>1 DEF CallType, CarriesOf
  <2>3. afterMove(calls[i].res) \in Status
    BY <2>2 DEF afterMove, Status
  <2>4. ASSUME NEW t \in Nat, NEW st \in Status PROVE [visit[Mine] EXCEPT !.at = t, !.status = st] \in VisitRow
    BY <1>0 DEF VisitRow
  <2>5. [visit[Mine] EXCEPT !.at = calls[i].arg.to, !.status = afterMove(calls[i].res)] \in VisitRow
    BY <2>2, <2>3, <2>4
  <2> QED BY <1>0, <1>3, <1>7, <2>5, ByIdTypes DEF rescheduleWrite
<1>8. CASE reviewWrite(i)
  <2>1. [visit[Mine] EXCEPT !.review = "shown"] \in VisitRow
    BY <1>0 DEF VisitRow
  <2>2. calls[i].kind = "review" /\ quietTables
    BY <1>8 DEF reviewWrite
  <2>3. CASE Refuse(i, 500)
    <3>1. Reply(i, Error(500)) /\ UNCHANGED visit
      BY <2>3 DEF Refuse
    <3> QED BY <1>0, <2>2, <3>1, TypedError, QuietTypes
  <2>4. CASE Write(Mine, [visit[Mine] EXCEPT !.review = "shown"]) /\ Reply(i, Ok(Nothing))
    <3>1. \A d : d.kind = calls[i].kind => BringsOf(d)
      BY <1>3, <2>2
    <3> QED BY <1>0, <2>1, <2>2, <2>4, <3>1, TypedReply, WriteTypes
  <2> QED BY <1>8, <2>3, <2>4 DEF reviewWrite
<1> QED BY <1>1, <1>2, <1>4, <1>5, <1>6, <1>7, <1>8 DEF ManageWrites

\* The agenda's and the reviews' requests at the server.
LEMMA AgendaServed ==
  ASSUME Types, NEW i \in DOMAIN calls,
         listAppointments(i) \/ updateStatus(i) \/ statusWrite(i) \/ listReviews(i) \/ updateReview(i)
  PROVE  TablesType' /\ CallsType'
<1>0. TablesType /\ CallsType /\ CallType(calls[i]) /\ visit \in [Visit -> VisitRow]
  BY DEF Types, CallsType, TablesType
<1>1. CASE listAppointments(i)
  <2> DEFINE c == calls[i].arg
             V == agendaWhere(c.q)
             row(v) == [id |-> v, status |-> visit[v].status, at |-> visit[v].at,
                        pro |-> visit[v].pro, ver |-> visit[v].ver]
             val(all) == [items |-> [n \in DOMAIN Page(all, c.page) |-> row(Page(all, c.page)[n])],
                          total |-> Len(all)]
  <2>1. PICK all \in byStart(V) : Read(i, "agenda", val(all))
    BY <1>1 DEF listAppointments
  <2>2. calls[i].kind = "agenda" /\ c.page \in Nat \ {0}
    BY <1>0, <1>1 DEF listAppointments, Is, CallType, CarriesOf
  <2>3. V \subseteq Visit /\ IsFiniteSet(V) /\ all \in SetToSeqs(V)
    <3>1. V \subseteq Visit
      BY DEF agendaWhere
    <3>2. IsFiniteSet(V)
      BY <3>1, DeskAssumption, FS_Subset, Zenon
    <3> QED BY <3>1, <3>2 DEF byStart
  <2> HIDE DEF V, c
  <2>4. Len(all) \in Nat /\ \A n \in DOMAIN Page(all, c.page) : Page(all, c.page)[n] \in Visit
    BY <2>2, <2>3, PageOf
  <2>5. \A n \in DOMAIN val(all).items : val(all).items[n].id \in Visit /\ val(all).items[n].ver \in Nat
    BY <1>0, <2>4 DEF VisitRow
  <2>6. val(all).total \in Nat
    BY <2>4
  <2> HIDE DEF val
  <2>7. \A d : d.kind = "agenda" /\ d.res = Ok(val(all)) => BringsOf(d)
    BY <2>5, <2>6 DEF BringsOf, SettingsKinds, Ok
  <2> QED BY <1>0, <2>1, <2>7, ReadTypes
<1>2. CASE updateStatus(i)
  <2>1. calls[i].kind = "status" /\ calls[i].arg.id \in Visit /\ quietTables
    BY <1>0, <1>2 DEF updateStatus, Is, CallType, CarriesOf
  <2>2. Decide(i, calls[i].arg.id) \/ (\E n : Refuse(i, n))
    BY <1>2 DEF updateStatus
  <2>3. calls[i].kind \in StepKinds
    BY <2>1 DEF StepKinds
  <2> QED BY <1>0, <2>1, <2>2, <2>3, ChecksTypes
<1>3. CASE statusWrite(i)
  <2> DEFINE v == calls[i].arg.id
             a == visit[v]
             to == calls[i].arg.to
             b == /\ to = "COMPLETED" /\ calls[i].res # "COMPLETED"
                  /\ ~hasUpcoming(a.client, v)
  <2>1. ById(i, "status", v, [a EXCEPT !.status = to], 500, [ver |-> a.ver + 1, rebookingSuggested |-> b])
    BY <1>3 DEF statusWrite
  <2>2. v \in Visit /\ to \in Status /\ a \in VisitRow
    BY <1>0, <2>1 DEF ById, CallType, CarriesOf
  <2>3. a.ver + 1 \in Nat /\ [a EXCEPT !.status = to] \in VisitRow
    BY <2>2 DEF VisitRow
  <2> HIDE DEF b
  <2>4. \A d : d.kind = "status" /\ d.res = Ok([ver |-> a.ver + 1, rebookingSuggested |-> b]) => BringsOf(d)
    BY <2>3 DEF BringsOf, SettingsKinds, Ok
  <2> HIDE DEF v, a, to
  <2> QED BY <1>0, <2>1, <2>2, <2>3, <2>4, ByIdTypes
<1>4. CASE listReviews(i)
  <2> DEFINE V == {u \in Visit : visit[u].review # "none"}
             val == [v \in V |-> visit[v].review]
  <2>1. V \in SUBSET Visit /\ val \in [V -> Hidden]
    BY <1>0 DEF VisitRow, Hidden
  <2>2. Read(i, "reviews", val)
    BY <1>4 DEF listReviews
  <2> HIDE DEF V, val
  <2>3. \A d : d.kind = "reviews" /\ d.res = Ok(val) => BringsOf(d)
    BY <2>1 DEF BringsOf, SettingsKinds, Ok
  <2> QED BY <1>0, <2>2, <2>3, ReadTypes
<1>5. CASE updateReview(i)
  <2> DEFINE c == calls[i].arg
  <2>1. calls[i].kind = "publish" /\ c.id \in Visit /\ c.to \in Hidden /\ visit[c.id] \in VisitRow
    BY <1>0, <1>5 DEF updateReview, Is, CallType, CarriesOf
  <2>2. \A d : d.kind = "publish" => BringsOf(d)
    BY DEF BringsOf, SettingsKinds
  <2>3. CallsType'
    BY <1>0, <1>5, <2>1, <2>2, TypedReply DEF updateReview
  <2>4. [visit[c.id] EXCEPT !.review = c.to] \in VisitRow
    BY <2>1 DEF VisitRow, Hidden
  <2>5. TablesType'
    BY <1>0, <1>5, <2>1, <2>4, WriteTypes DEF updateReview
  <2> QED BY <2>3, <2>5
<1> QED BY <1>1, <1>2, <1>3, <1>4, <1>5

\* The clients a list is of.
LEMMA ListedClients ==
  ASSUME TablesType, NEW q
  PROVE  clientsWhere(q) \subseteq Client /\ IsFiniteSet(clientsWhere(q))
<1>1. scope \subseteq Client
  BY DEF scope, TablesType, VisitRow
<1>2. clientsWhere(q) \subseteq Client
  BY <1>1 DEF clientsWhere, findClientIdsBySegment, resolveInactiveClientIds
<1> QED BY <1>2, DeskAssumption, FS_Subset

\* The requests of the clients' page at the server.
LEMMA ClientsServed ==
  ASSUME Types, NEW i \in DOMAIN calls,
         listClients(i) \/ clientDetail(i) \/ updateNotes(i) \/ updateMarketingConsent(i) \/ updateProfile(i)
  PROVE  TablesType' /\ CallsType'
<1>0. TablesType /\ CallsType /\ CallType(calls[i]) /\ card \in [Client -> Card]
  BY DEF Types, CallsType, TablesType
<1>1. CASE listClients(i)
  <2> DEFINE c == calls[i].arg
             C == clientsWhere(c.q)
             row(x) == [id |-> x, bucket |-> inactiveBucket(loadClientMetrics(x).lastVisit),
                        segment |-> IF c.q.segment = "" THEN resolveClientSegment(x) ELSE c.q.segment]
             val(all) == [items |-> [n \in DOMAIN Page(all, c.page) |-> row(Page(all, c.page)[n])],
                          total |-> Len(all)]
  <2>1. PICK all \in byNewest(C) : Read(i, "list", val(all))
    BY <1>1 DEF listClients
  <2>2. calls[i].kind = "list" /\ c.page \in Nat \ {0}
    BY <1>0, <1>1 DEF listClients, Is, CallType, CarriesOf
  <2>3. C \subseteq Client /\ IsFiniteSet(C) /\ all \in SetToSeqs(C)
    BY <1>0, ListedClients DEF byNewest
  <2> HIDE DEF C, c
  <2>4. Len(all) \in Nat /\ \A n \in DOMAIN Page(all, c.page) : Page(all, c.page)[n] \in Client
    BY <2>2, <2>3, PageOf
  <2>5. \A n \in DOMAIN val(all).items : val(all).items[n].id \in Client
    BY <2>4
  <2>6. val(all).total \in Nat
    BY <2>4
  <2> HIDE DEF val
  <2>7. \A d : d.kind = "list" /\ d.res = Ok(val(all)) => BringsOf(d)
    BY <2>5, <2>6 DEF BringsOf, SettingsKinds, Ok
  <2> QED BY <1>0, <2>1, <2>7, ReadTypes
<1>2. CASE clientDetail(i)
  <2> DEFINE c == calls[i].arg
             m == loadClientMetrics(c)
             val == [of |-> c, notes |-> card[c].notes, tags |-> card[c].tags,
                     consent |-> card[c].consent, segment |-> resolveClientSegment(c),
                     suggestRebooking |-> m.completedCount > 0 /\ m.nextAppointmentAt = NoTime]
  <2>1. calls[i].kind = "card" /\ c \in Client
    BY <1>0, <1>2 DEF clientDetail, Read, Is, CallType, CarriesOf
  <2>2. val.of = c /\ val.consent \in BOOLEAN /\ val.notes \in Text /\ val.tags \in Text
    BY <1>0, <2>1 DEF Card, Text
  <2>3. CASE c \notin scope
    <3>1. Reply(i, Error(404)) /\ UNCHANGED <<limits, tables, counters>>
      BY <1>2, <2>3 DEF clientDetail
    <3> QED BY <1>0, <3>1, TypedError DEF TablesType, tables, counters
  <2>4. CASE c \in scope
    <3>1. Read(i, "card", val)
      BY <1>2, <2>4 DEF clientDetail
    <3> HIDE DEF val
    <3>2. \A d : d.kind = "card" /\ d.arg = calls[i].arg /\ d.res = Ok(val) => BringsOf(d)
      BY <2>2 DEF BringsOf, SettingsKinds, Ok
    <3> QED BY <1>0, <3>1, <3>2, ReadTypes
  <2> QED BY <2>3, <2>4
<1>3. ASSUME NEW kind \in {"notes", "consent", "profile"}, NEW c \in Client, NEW row \in Card,
             WriteCard(i, kind, c, row)
      PROVE  TablesType' /\ CallsType'
  <2>1. \A d : d.kind = kind => BringsOf(d)
    BY DEF BringsOf, SettingsKinds
  <2>2. CallsType'
    BY <1>0, <1>3, <2>1, TypedReply DEF WriteCard, Is
  <2>3. card' \in [Client -> Card]
    BY <1>0, <1>3 DEF WriteCard
  <2>4. TablesType'
    BY <1>0, <1>3, <2>3 DEF WriteCard, TablesType, counters
  <2> QED BY <2>2, <2>4
<1>4. CASE updateNotes(i)
  <2> DEFINE c == calls[i].arg.id
  <2>1. WriteCard(i, "notes", c, [card[c] EXCEPT !.notes = calls[i].arg.text])
    BY <1>4 DEF updateNotes
  <2>2. c \in Client /\ calls[i].arg.text \in Text
    BY <1>0, <2>1 DEF WriteCard, Is, CallType, CarriesOf
  <2>3. [card[c] EXCEPT !.notes = calls[i].arg.text] \in Card
    BY <1>0, <2>2 DEF Card, Text
  <2> HIDE DEF c
  <2> QED BY <1>3, <2>1, <2>2, <2>3
<1>5. CASE updateMarketingConsent(i)
  <2> DEFINE c == calls[i].arg.id
  <2>1. WriteCard(i, "consent", c, [card[c] EXCEPT !.consent = calls[i].arg.to])
    BY <1>5 DEF updateMarketingConsent
  <2>2. c \in Client /\ calls[i].arg.to \in BOOLEAN
    BY <1>0, <2>1 DEF WriteCard, Is, CallType, CarriesOf
  <2>3. [card[c] EXCEPT !.consent = calls[i].arg.to] \in Card
    BY <1>0, <2>2 DEF Card
  <2> HIDE DEF c
  <2> QED BY <1>3, <2>1, <2>2, <2>3
<1>6. CASE updateProfile(i)
  <2> DEFINE c == calls[i].arg.id
  <2>1. WriteCard(i, "profile", c, [card[c] EXCEPT !.tags = calls[i].arg.tags])
    BY <1>6 DEF updateProfile
  <2>2. c \in Client /\ calls[i].arg.tags \in Text
    BY <1>0, <2>1 DEF WriteCard, Is, CallType, CarriesOf
  <2>3. [card[c] EXCEPT !.tags = calls[i].arg.tags] \in Card
    BY <1>0, <2>2 DEF Card, Text
  <2> HIDE DEF c
  <2> QED BY <1>3, <2>1, <2>2, <2>3
<1> QED BY <1>1, <1>2, <1>4, <1>5, <1>6

\* The settings: read, and written before they are read.
LEMMA SettingsServed ==
  ASSUME Types, NEW i \in DOMAIN calls, getSettings(i) \/ updateSettings(i)
  PROVE  TablesType' /\ CallsType'
<1>0. TablesType /\ CallsType /\ CallType(calls[i]) /\ tenant \in [Forms -> Nat]
  BY DEF Types, CallsType, TablesType
<1>1. CASE getSettings(i)
  <2>1. \A d : d.kind \in SettingsKinds /\ d.res = Ok(tenant) => BringsOf(d)
    BY <1>0 DEF BringsOf, SettingsKinds, Ok
  <2>2. calls[i].kind \in SettingsKinds /\ Reply(i, Ok(tenant)) /\ UNCHANGED <<limits, tables, counters>>
    BY <1>1 DEF getSettings, SettingsKinds
  <2>3. CallsType'
    BY <1>0, <2>1, <2>2, TypedReply
  <2> QED BY <1>0, <2>2, <2>3 DEF TablesType, tables, counters
<1>2. CASE updateSettings(i)
  <2> DEFINE c == calls[i].arg
  <2>1. calls[i].kind = "save" /\ c.form \in Forms /\ c.value \in Nat
    BY <1>0, <1>2 DEF updateSettings, Is, CallType, CarriesOf
  <2>2. TablesType'
    BY <1>0, <1>2, <2>1 DEF updateSettings, TablesType, counters
  <2>3. CASE c.refused
    BY <1>0, <1>2, <2>3, <2>2, TypedError DEF updateSettings
  <2>4. CASE ~c.refused
    <3>1. calls' = [calls EXCEPT ![i].pc = "written"]
      BY <1>2, <2>4 DEF updateSettings
    <3>2. calls' = [calls EXCEPT ![i] = [calls[i] EXCEPT !.pc = "written"]]
      BY <3>1
    <3> DEFINE d == [calls[i] EXCEPT !.pc = "written"]
    <3>3. /\ d.from = calls[i].from /\ d.kind = calls[i].kind /\ d.arg = calls[i].arg
          /\ d.then = calls[i].then /\ d.pc = "written"
          /\ d = [from |-> d.from, kind |-> d.kind, arg |-> d.arg, then |-> d.then, pc |-> d.pc, res |-> d.res]
      <4>1. calls[i] = [from |-> calls[i].from, kind |-> calls[i].kind, arg |-> calls[i].arg,
                        then |-> calls[i].then, pc |-> calls[i].pc, res |-> calls[i].res]
        BY <1>0, Zenon DEF CallType
      <4> QED BY <4>1
    <3> HIDE DEF d
    <3>4. CallType(d)
      BY <1>0, <2>1, <3>3 DEF CallType, CarriesOf
    <3>5. /\ IsSeqOf(calls') /\ DOMAIN calls' = DOMAIN calls
          /\ \A j \in DOMAIN calls : calls'[j] = IF j = i THEN d ELSE calls[j]
      BY <1>0, <3>2, ExceptFacts DEF d, CallsType
    <3>6. \A j \in DOMAIN calls : CallType(calls[j])
      BY <1>0 DEF CallsType
    <3>7. CallsType'
      BY <3>4, <3>5, <3>6 DEF CallsType
    <3> QED BY <2>2, <3>7
  <2> QED BY <2>3, <2>4
<1> QED BY <1>1, <1>2

\* The server keeps the tables and the requests typed.
LEMMA ServeTypes ==
  ASSUME Types, NEW i \in DOMAIN calls, Serve(i)
  PROVE  TablesType' /\ CallsType'
BY ManageServed, AgendaServed, ClientsServed, SettingsServed DEF Serve, ManageChecks, ManageWrites

\* A request is sent with what its kind carries.
LEMMA SentType ==
  ASSUME NEW page \in PageNames, NEW kind \in KindsOf[page], NEW arg, NEW then,
         CarriesOf(Call(page, kind, arg, then))
  PROVE  CallType(Call(page, kind, arg, then))
<1> DEFINE c == Call(page, kind, arg, then)
<1>1. c = [from |-> c.from, kind |-> c.kind, arg |-> c.arg, then |-> c.then, pc |-> c.pc, res |-> c.res]
      /\ c.from = page /\ c.kind = kind /\ c.pc = "sent"
  BY DEF Call
<1> HIDE DEF c
<1>2. CallType(c)
  BY <1>1 DEF CallType, c
<1> QED BY <1>2 DEF c

\* The steps of a page change no table.
LEMMA ClickTypes ==
  ASSUME TablesType, Click
  PROVE  TablesType'
BY DEF TablesType, Click, tables

\* Neither does taking an answer.
LEMMA AnswersTypes ==
  ASSUME TablesType, NEW i, NEW page, NEW kind, Answers(i, page, kind)
  PROVE  TablesType'
BY DEF TablesType, Answers, tables, counters

ManageCarries ==
  /\ \A then : CallType(Send("get", Nothing, then))
  /\ \A d \in Day : \A then : CallType(Send("slots", d, then))
  /\ \A arg : CallType(Send("confirm", arg, ""))
  /\ CallType(Send("cancel", Nothing, "")) /\ CallType(Send("review", Nothing, ""))
  /\ \A t \in Nat, d \in Day, h \in BOOLEAN :
       CallType(Send("reschedule", [to |-> t, shown |-> d, hurried |-> h], ""))

\* What the manage page sends.
LEMMA ManageSends == ManageCarries
<1>1. "manage" \in PageNames /\ KindsOf["manage"] = ManageKinds
  BY DEF PageNames, KindsOf
<1>2. \A kind, arg, then : kind \in {"get", "confirm", "cancel", "review"} => CarriesOf(Call("manage", kind, arg, then))
  BY DEF CarriesOf, Call
<1>3. \A d \in Day : \A then : CarriesOf(Call("manage", "slots", d, then))
  BY DEF CarriesOf, Call
<1>4. \A t \in Nat, d \in Day, h \in BOOLEAN :
        CarriesOf(Call("manage", "reschedule", [to |-> t, shown |-> d, hurried |-> h], ""))
  BY DEF CarriesOf, Call
<1>5. ASSUME NEW kind \in ManageKinds, NEW arg, NEW then, CarriesOf(Call("manage", kind, arg, then))
      PROVE  CallType(Send(kind, arg, then))
  BY <1>1, <1>5, SentType DEF Send
<1>6. \A kind \in {"get", "confirm", "cancel", "review"} : \A arg, then : CallType(Send(kind, arg, then))
  BY <1>2, <1>5 DEF ManageKinds
<1>7. \A d \in Day : \A then : CallType(Send("slots", d, then))
  BY <1>3, <1>5 DEF ManageKinds
<1>8. \A t \in Nat, d \in Day, h \in BOOLEAN :
        CallType(Send("reschedule", [to |-> t, shown |-> d, hurried |-> h], ""))
  BY <1>4, <1>5 DEF ManageKinds
<1> QED BY <1>6, <1>7, <1>8 DEF ManageCarries

\* The list of slots is loaded, or nothing is sent.
LEMMA LoadSlotsTypes ==
  ASSUME CallsType, ManageType, NEW d \in Day, NEW then,
         loadSlots(mp, calls, d, then) \/ (\E i \in DOMAIN calls : loadSlots(mp, Others(i), d, then))
  PROVE  CallsType' /\ ManageType'
<1>1. CallType(Send("slots", d, then))
  BY ManageSends DEF ManageCarries
<1>2. CallsType'
  BY <1>1, TypedSend, TypedChange DEF loadSlots
<1>3. ManageType'
  BY DEF loadSlots, ManageType, Day
<1> QED BY <1>2, <1>3

\* The manage page, its data whatever they are.
ManagePages ==
  [phase : {"loading", "ready", "lost"}, data : {mp.data}, busy : {"", "confirm", "cancel", "reschedule", "review"},
   open : {"", "cancel", "reschedule"}, date : Day, slots : SUBSET Nat,
   slotsLoading : BOOLEAN, pick : Day, hurried : BOOLEAN]

\* So does the effect of a click.
LEMMA EffectTypes ==
  ASSUME CallsType, NEW p \in ManagePages, Effect(p, calls)
  PROVE  CallsType' /\ ManageType'
<1>1. CallType(Send("slots", p.date, ""))
  BY ManageSends DEF ManageCarries, ManagePages
<1>2. CASE loadSlots(p, calls, p.date, "")
  <2>1. CallsType'
    BY <1>1, <1>2, TypedSend DEF loadSlots
  <2>2. ManageType'
    BY <1>2 DEF loadSlots, ManageType, ManagePages, Day
  <2> QED BY <2>1, <2>2
<1>3. CASE mp' = p /\ calls' = calls
  BY <1>3 DEF ManageType, ManagePages, CallsType
<1> QED BY <1>2, <1>3 DEF Effect

\* The clicks on the manage page keep the types.
LEMMA ManageClickTypes ==
  ASSUME Types, ManageClicks
  PROVE  TablesType' /\ CallsType' /\ ManageType'
<1>0. TablesType /\ CallsType /\ ManageType
  BY DEF Types
<1>1. TablesType'
  BY <1>0, ClickTypes DEF ManageClicks, confirmPresence, cancelAppointment, reschedule, submitReview, CloseModal,
       Toggle, ChangeDate, PickSlot
<1>2. ASSUME NEW kind \in {"confirm", "cancel", "reschedule", "review"}, NEW arg, Submit(kind, arg),
             CallType(Send(kind, arg, ""))
      PROVE  CallsType' /\ ManageType'
  <2>1. CallsType'
    BY <1>0, <1>2, TypedSend DEF Submit
  <2>2. ManageType'
    BY <1>0, <1>2 DEF Submit, ManageType
  <2> QED BY <2>1, <2>2
<1>3. CASE confirmPresence
  <2>1. CallType(Send("confirm", [at |-> mp.data.at], ""))
    BY ManageSends DEF ManageCarries
  <2>2. Submit("confirm", [at |-> mp.data.at])
    BY <1>3 DEF confirmPresence
  <2> QED BY <1>1, <1>2, <2>1, <2>2
<1>4. CASE cancelAppointment
  <2>1. CallType(Send("cancel", Nothing, "")) /\ Submit("cancel", Nothing)
    BY <1>4, ManageSends DEF ManageCarries, cancelAppointment
  <2> QED BY <1>1, <1>2, <2>1
<1>5. CASE submitReview
  <2>1. CallType(Send("review", Nothing, "")) /\ Submit("review", Nothing)
    BY <1>5, ManageSends DEF ManageCarries, submitReview
  <2> QED BY <1>1, <1>2, <2>1
<1>6. CASE reschedule
  <2>1. mp.pick \in Nat /\ mp.date \in Day /\ mp.hurried \in BOOLEAN
    BY <1>0, <1>6 DEF reschedule, ManageType, Day
  <2>2. CallType(Send("reschedule", [to |-> mp.pick, shown |-> mp.date, hurried |-> mp.hurried], ""))
    BY <2>1, ManageSends DEF ManageCarries
  <2>3. Submit("reschedule", [to |-> mp.pick, shown |-> mp.date, hurried |-> mp.hurried])
    BY <1>6 DEF reschedule
  <2> QED BY <1>1, <1>2, <2>2, <2>3
<1>7. CASE CloseModal
  <2> DEFINE p == [mp EXCEPT !.open = ""]
  <2>1. p \in ManagePages
    BY <1>0 DEF ManageType, ManagePages
  <2>2. Effect(p, calls)
    BY <1>7 DEF CloseModal
  <2> HIDE DEF p
  <2> QED BY <1>0, <1>1, <2>1, <2>2, EffectTypes
<1>8. CASE \E m \in {"cancel", "reschedule"} : Toggle(m)
  <2>1. PICK m \in {"cancel", "reschedule"} : Toggle(m)
    BY <1>8
  <2> DEFINE p == [mp EXCEPT !.open = m]
  <2>2. p \in ManagePages
    BY <1>0 DEF ManageType, ManagePages
  <2>3. Effect(p, calls)
    BY <2>1 DEF Toggle
  <2> HIDE DEF p
  <2> QED BY <1>0, <1>1, <2>2, <2>3, EffectTypes
<1>9. CASE \E d \in limits.days \cup {NoTime} : ChangeDate(d)
  <2>1. PICK d \in limits.days \cup {NoTime} : ChangeDate(d)
    BY <1>9
  <2>2. d \in Day
    BY <1>0, <2>1, LimitsAssumption DEF TablesType, Day
  <2> DEFINE h == IF d = NoTime THEN mp.hurried ELSE inFlight("slots") \/ inFlight("reschedule")
  <2>3. h \in BOOLEAN
    BY <1>0 DEF ManageType
  <2>4. Effect([mp EXCEPT !.date = d, !.hurried = h], calls)
    BY <2>1 DEF ChangeDate
  <2> HIDE DEF h
  <2> DEFINE p == [mp EXCEPT !.date = d, !.hurried = h]
  <2>5. p \in ManagePages
    BY <1>0, <2>2, <2>3 DEF ManageType, ManagePages
  <2> HIDE DEF p
  <2> QED BY <1>0, <1>1, <2>4, <2>5, EffectTypes DEF p
<1>10. CASE \E d \in limits.days : PickSlot(d)
  <2>1. PICK d \in limits.days : PickSlot(d)
    BY <1>10
  <2>2. d \in Day
    BY <1>0, <2>1, LimitsAssumption DEF TablesType, Day
  <2>3. mp' = [mp EXCEPT !.pick = d] /\ calls' = calls
    BY <2>1 DEF PickSlot
  <2>4. ManageType'
    BY <1>0, <2>2, <2>3 DEF ManageType
  <2> QED BY <1>0, <1>1, <2>3, <2>4 DEF CallsType
<1> QED BY <1>1, <1>3, <1>4, <1>5, <1>6, <1>7, <1>8, <1>9, <1>10 DEF ManageClicks

\* So do its answers.
LEMMA ManageReplyTypes ==
  ASSUME Types, NEW i \in DOMAIN calls, ManageReply(i)
  PROVE  TablesType' /\ CallsType' /\ ManageType'
<1>0. TablesType /\ CallsType /\ ManageType /\ CallType(calls[i])
  BY DEF Types, CallsType
<1>1. TablesType'
  BY <1>0, AnswersTypes DEF ManageReply, LoadReply, SlotsReply, MutationReply
<1>2. CASE LoadReply(i)
  <2>1. CallsType'
    BY <1>0, <1>2, TypedTaken DEF LoadReply
  <2>2. ManageType'
    BY <1>0, <1>2 DEF LoadReply, ManageType
  <2> QED BY <1>1, <2>1, <2>2
<1>3. CASE SlotsReply(i)
  <2>1. CallsType'
    BY <1>0, <1>3, TypedTaken DEF SlotsReply
  <2>2. calls[i].res.ok => calls[i].res.val \subseteq Nat
    BY <1>0, <1>3 DEF SlotsReply, Answers, CallType, CarriesOf, BringsOf
  <2>3. ManageType'
    BY <1>0, <1>3, <2>2 DEF SlotsReply, ManageType
  <2> QED BY <1>1, <2>1, <2>3
<1>4. ASSUME NEW kind \in {"confirm", "cancel", "reschedule", "review"}, MutationReply(i, kind)
      PROVE  CallsType' /\ ManageType'
  <2>1. calls[i].kind = kind
    BY <1>4 DEF MutationReply, Answers
  <2>2. CASE calls[i].res.ok
    <3>1. CallType(Send("get", Nothing, calls[i].kind))
      BY ManageSends DEF ManageCarries
    <3>2. CallsType'
      BY <1>0, <1>4, <2>2, <3>1, TypedChange DEF MutationReply, Changed, load
    <3>3. ManageType'
      BY <1>0, <1>4, <2>2 DEF MutationReply, Changed, ManageType
    <3> QED BY <3>2, <3>3
  <2>3. CASE ~calls[i].res.ok /\ kind = "reschedule" /\ calls[i].res.code = 409
    <3>1. calls[i].arg.shown \in Day
      BY <1>0, <2>1, <2>3 DEF CallType, CarriesOf
    <3>2. loadSlots(mp, Others(i), calls[i].arg.shown, kind)
      BY <1>4, <2>3 DEF MutationReply
    <3> QED BY <1>0, <3>1, <3>2, LoadSlotsTypes
  <2>4. CASE ~calls[i].res.ok /\ ~(kind = "reschedule" /\ calls[i].res.code = 409)
    <3>1. mp' = [mp EXCEPT !.busy = ""] /\ calls' = Others(i)
      BY <1>4, <2>4 DEF MutationReply
    <3>2. ManageType'
      BY <1>0, <3>1 DEF ManageType
    <3> QED BY <1>0, <3>1, <3>2, TypedTaken
  <2> QED BY <2>2, <2>3, <2>4
<1> QED BY <1>1, <1>2, <1>3, <1>4 DEF ManageReply

AgendaCarries ==
  /\ \A q, then : q.page \in Nat \ {0} => CallType(AgendaCall(q, then))
  /\ \A v \in Visit, to \in Status, h \in Visit \cup {Nothing} : \A q :
       q.page \in Nat \ {0} =>
         CallType(Call("agenda", "status", [id |-> v, to |-> to], [query |-> q, hint |-> h]))
  /\ \A v \in Visit, to \in Hidden : CallType(Call("reviews", "publish", [id |-> v, to |-> to], ""))
  /\ CallType(Call("reviews", "reviews", Nothing, ""))

\* What the agenda and the reviews send.
LEMMA AgendaSends == AgendaCarries
<1>1. /\ "agenda" \in PageNames /\ KindsOf["agenda"] = AgendaKinds
      /\ "reviews" \in PageNames /\ KindsOf["reviews"] = ReviewKinds
  BY DEF PageNames, KindsOf
<1>2. ASSUME NEW q, NEW then, q.page \in Nat \ {0} PROVE CallType(AgendaCall(q, then))
  <2>1. CarriesOf(Call("agenda", "agenda", q, then))
    BY <1>2 DEF CarriesOf, Call
  <2>2. CallType(Call("agenda", "agenda", q, then))
    BY <1>1, <2>1, SentType DEF AgendaKinds
  <2> QED BY <2>2 DEF AgendaCall
<1>3. ASSUME NEW v \in Visit, NEW to \in Status, NEW h \in Visit \cup {Nothing}, NEW q, q.page \in Nat \ {0}
      PROVE  CallType(Call("agenda", "status", [id |-> v, to |-> to], [query |-> q, hint |-> h]))
  <2>1. CarriesOf(Call("agenda", "status", [id |-> v, to |-> to], [query |-> q, hint |-> h]))
    BY <1>3 DEF CarriesOf, Call
  <2> QED BY <1>1, <2>1, SentType DEF AgendaKinds
<1>4. ASSUME NEW v \in Visit, NEW to \in Hidden
      PROVE  CallType(Call("reviews", "publish", [id |-> v, to |-> to], ""))
  <2>1. CarriesOf(Call("reviews", "publish", [id |-> v, to |-> to], ""))
    BY DEF CarriesOf, Call
  <2> QED BY <1>1, <2>1, SentType DEF ReviewKinds
<1>5. CallType(Call("reviews", "reviews", Nothing, ""))
  <2>1. CarriesOf(Call("reviews", "reviews", Nothing, ""))
    BY DEF CarriesOf, Call
  <2> QED BY <1>1, <2>1, SentType DEF ReviewKinds
<1> QED BY <1>2, <1>3, <1>4, <1>5 DEF AgendaCarries

\* Page a of the agenda has the same rows.
SameRows(a) ==
  a \in [form : {a.form}, applied : {a.applied}, page : Nat \ {0}, items : {ag.items},
         of : {ag.of}, total : Nat, loading : BOOLEAN, error : BOOLEAN,
         updating : Visit \cup {Nothing}, hint : Visit \cup {Nothing},
         acked : [Visit -> Nat], crossed : BOOLEAN]

\* The effect of a click there.
LEMMA AgendaEffectTypes ==
  ASSUME CallsType, AgendaType, NEW a, SameRows(a), AgendaEffect(a)
  PROVE  CallsType' /\ AgendaType'
<1>1. a.page \in Nat \ {0} /\ Query(a).page = a.page
  BY DEF SameRows, Query
<1>2. CASE ag' = a /\ UNCHANGED calls
  BY <1>2 DEF SameRows, AgendaType, CallsType
<1>3. CASE /\ ag' = [a EXCEPT !.loading = TRUE, !.error = FALSE, !.crossed = @ \/ ~Quiet("agenda")]
           /\ calls' = Append(calls, AgendaCall(Query(a), "effect"))
  <2>1. CallsType'
    BY <1>1, <1>3, AgendaSends, TypedSend DEF AgendaCarries
  <2>2. AgendaType'
    <3> DEFINE k == a.crossed \/ ~Quiet("agenda")
    <3>1. k \in BOOLEAN /\ ag' = [a EXCEPT !.loading = TRUE, !.error = FALSE, !.crossed = k]
      BY <1>3
    <3> HIDE DEF k
    <3> QED BY <3>1 DEF SameRows, AgendaType
  <2> QED BY <2>1, <2>2
<1> QED BY <1>2, <1>3 DEF AgendaEffect

\* What the clicks on the agenda and on the reviews keep.
LEMMA AgendaClickTypes ==
  ASSUME Types, AgendaClicks
  PROVE  TablesType' /\ CallsType' /\ AgendaType' /\ ReviewType'
<1>0. TablesType /\ CallsType /\ AgendaType /\ ReviewType
  BY DEF Types
<1>1. TablesType'
  BY <1>0, ClickTypes DEF AgendaClicks, ChooseFilter, applyFilter, dismissHint, TurnPage, updateStatus_Click,
       togglePublished
<1>2. ASSUME UNCHANGED calls PROVE CallsType'
  BY <1>0, <1>2 DEF CallsType
<1>3. ASSUME UNCHANGED rv PROVE ReviewType'
  BY <1>0, <1>3 DEF ReviewType
<1>4. ASSUME UNCHANGED ag PROVE AgendaType'
  BY <1>0, <1>4 DEF AgendaType
<1>5. CASE \E f \in DOMAIN limits.filters : ChooseFilter(f)
  <2>1. PICK f : ag' = [ag EXCEPT !.form = f] /\ UNCHANGED <<calls, rv>>
    BY <1>5 DEF ChooseFilter
  <2>2. AgendaType'
    BY <1>0, <2>1 DEF AgendaType
  <2> QED BY <1>1, <1>2, <1>3, <2>1, <2>2
<1>6. CASE applyFilter
  <2> DEFINE a == [ag EXCEPT !.applied = ag.form, !.page = 1]
  <2>1. AgendaEffect(a) /\ UNCHANGED rv
    BY <1>6 DEF applyFilter
  <2>2. SameRows(a)
    <3>1. a.form = ag.form /\ a.applied = ag.form
      BY <1>0 DEF AgendaType
    <3> DEFINE R == [form : {ag.form}, applied : {ag.form}, page : Nat \ {0}, items : {ag.items},
                     of : {ag.of}, total : Nat, loading : BOOLEAN, error : BOOLEAN,
                     updating : Visit \cup {Nothing}, hint : Visit \cup {Nothing},
                     acked : [Visit -> Nat], crossed : BOOLEAN]
    <3>2. a \in R
      <4>1. ASSUME NEW n \in Nat \ {0} PROVE [ag EXCEPT !.applied = ag.form, !.page = n] \in R
        BY <1>0 DEF AgendaType
      <4>2. 1 \in Nat \ {0}
        OBVIOUS
      <4> HIDE DEF R
      <4> QED BY <4>1, <4>2, Zenon
    <3> HIDE DEF a
    <3> QED BY <3>1, <3>2 DEF SameRows
  <2> HIDE DEF a
  <2> QED BY <1>0, <1>1, <1>3, <2>1, <2>2, AgendaEffectTypes
<1>7. CASE dismissHint
  <2>1. AgendaType'
    BY <1>0, <1>7 DEF AgendaType, dismissHint
  <2> QED BY <1>1, <1>2, <1>3, <1>7, <2>1 DEF dismissHint
<1>8. CASE \E by \in {-1, 1} : TurnPage(by)
  <2>1. PICK by \in {-1, 1} : TurnPage(by)
    BY <1>8
  <2> DEFINE a == [ag EXCEPT !.page = @ + by]
  <2>2. AgendaEffect(a) /\ UNCHANGED rv /\ ag.page + by \in 1..totalPages
    BY <2>1 DEF TurnPage
  <2>3. ag.page + by \in Nat \ {0}
    BY <1>0, <2>1, <2>2 DEF AgendaType
  <2>4. SameRows(a)
    BY <1>0, <2>3 DEF AgendaType, SameRows
  <2> HIDE DEF a
  <2> QED BY <1>0, <1>1, <1>3, <2>2, <2>4, AgendaEffectTypes
<1>9. CASE \E n \in DOMAIN ag.items, to \in limits.statuses : updateStatus_Click(ag.items[n], to)
  <2>1. PICK n \in DOMAIN ag.items, to \in limits.statuses : updateStatus_Click(ag.items[n], to)
    BY <1>9
  <2> DEFINE v == ag.items[n].id
  <2>2. v \in Visit /\ to \in Status /\ ag.hint \in Visit \cup {Nothing}
    BY <1>0, <2>1, LimitsAssumption DEF AgendaType, TablesType
  <2>7. Query(ag).page \in Nat \ {0}
    BY <1>0 DEF AgendaType, Query
  <2>3. /\ ag' = [ag EXCEPT !.updating = v, !.error = FALSE] /\ UNCHANGED rv
        /\ calls' = Append(calls, Call("agenda", "status", [id |-> v, to |-> to],
                                       [query |-> Query(ag), hint |-> ag.hint]))
    BY <2>1 DEF updateStatus_Click
  <2> HIDE DEF v
  <2>4. CallType(Call("agenda", "status", [id |-> v, to |-> to], [query |-> Query(ag), hint |-> ag.hint]))
    BY <2>2, <2>7, AgendaSends, Zenon DEF AgendaCarries
  <2>5. CallsType'
    BY <1>0, <2>3, <2>4, TypedSend
  <2>6. AgendaType'
    BY <1>0, <2>2, <2>3 DEF AgendaType
  <2> QED BY <1>1, <1>3, <2>3, <2>5, <2>6
<1>10. CASE \E v \in DOMAIN rv.list : togglePublished(v)
  <2>1. PICK v \in DOMAIN rv.list : togglePublished(v)
    BY <1>10
  <2>2. v \in Visit /\ flipped(rv.list[v]) \in Hidden
    BY <1>0, <2>1 DEF ReviewType, flipped, Hidden
  <2>3. PICK k \in BOOLEAN :
          /\ rv' = [rv EXCEPT !.toggling = v, !.doubled = k] /\ UNCHANGED ag
          /\ calls' = Append(calls, Call("reviews", "publish", [id |-> v, to |-> flipped(rv.list[v])], ""))
    <3> DEFINE k == rv.doubled \/ \E i \in DOMAIN calls : calls[i].kind = "publish" /\ calls[i].arg.id = v
    <3>1. k \in BOOLEAN /\ rv' = [rv EXCEPT !.toggling = v, !.doubled = k]
      BY <2>1 DEF togglePublished
    <3> QED BY <2>1, <3>1 DEF togglePublished
  <2>4. CallType(Call("reviews", "publish", [id |-> v, to |-> flipped(rv.list[v])], ""))
    BY <2>2, AgendaSends, Zenon DEF AgendaCarries
  <2>5. CallsType'
    BY <1>0, <2>3, <2>4, TypedSend
  <2>6. ReviewType'
    BY <1>0, <2>2, <2>3 DEF ReviewType
  <2> QED BY <1>1, <1>4, <2>3, <2>5, <2>6
<1> QED BY <1>5, <1>6, <1>7, <1>8, <1>9, <1>10 DEF AgendaClicks

\* What their answers keep.
LEMMA AgendaReplyTypes ==
  ASSUME Types, NEW i \in DOMAIN calls, AgendaPageReply(i)
  PROVE  TablesType' /\ CallsType' /\ AgendaType' /\ ReviewType'
<1>0. TablesType /\ CallsType /\ AgendaType /\ ReviewType /\ CallType(calls[i])
  BY DEF Types, CallsType
<1>1. TablesType' /\ calls[i].pc = "done"
  BY <1>0, AnswersTypes DEF AgendaPageReply, StatusReply, AgendaReply, ReviewsReply, PublishReply, Answers
<1>2. ASSUME UNCHANGED rv PROVE ReviewType'
  BY <1>0, <1>2 DEF ReviewType
<1>3. ASSUME UNCHANGED ag PROVE AgendaType'
  BY <1>0, <1>3 DEF AgendaType
<1>4. CASE StatusReply(i)
  <2> DEFINE c == calls[i]
  <2>1. c.kind = "status" /\ UNCHANGED rv
    BY <1>4 DEF StatusReply, Answers
  <2>2. c.arg.id \in Visit /\ c.then.hint \in Visit \cup {Nothing}
    BY <1>0, <2>1 DEF CallType, CarriesOf
  <2>3. CASE c.res.ok
    <3> DEFINE h == hintAfter(c)
               k == Acked(c.arg.id, c.res.val.ver)
    <3>1. /\ ag' = [ag EXCEPT !.hint = h, !.error = FALSE, !.acked = k]
          /\ calls' = Append(Others(i), AgendaCall(c.then.query, "update"))
      BY <1>4, <2>3 DEF StatusReply
    <3>2. h \in Visit \cup {Nothing}
      BY <1>0, <2>2 DEF hintAfter, AgendaType
    <3>3. k \in [Visit -> Nat]
      <4>1. ag.acked \in [Visit -> Nat] /\ c.res.val.ver \in Nat
        BY <1>0, <1>1, <2>1, <2>3 DEF AgendaType, CallType, BringsOf
      <4>2. Max({ag.acked[c.arg.id], c.res.val.ver}) \in Nat
        <5>1. ag.acked[c.arg.id] \in Nat
          BY <4>1, <2>2
        <5>2. ag.acked[c.arg.id] \in Int /\ c.res.val.ver \in Int
          BY <4>1, <5>1
        <5>3. Max({ag.acked[c.arg.id], c.res.val.ver}) \in {ag.acked[c.arg.id], c.res.val.ver}
          BY <5>2, MaxOfTwo, Zenon
        <5> QED BY <4>1, <5>1, <5>3
      <4> QED BY <4>1, <4>2 DEF Acked
    <3> HIDE DEF h, k
    <3>4. AgendaType'
      BY <1>0, <3>1, <3>2, <3>3 DEF AgendaType
    <3>5. CallType(AgendaCall(c.then.query, "update"))
      BY <1>0, <2>1, AgendaSends DEF AgendaCarries, CallType, CarriesOf
    <3>6. CallsType'
      BY <1>0, <3>1, <3>5, TypedChange
    <3> QED BY <1>1, <1>2, <2>1, <3>4, <3>6
  <2>4. CASE ~c.res.ok
    <3>1. ag' = [ag EXCEPT !.error = TRUE, !.updating = Nothing] /\ calls' = Others(i)
      BY <1>4, <2>4 DEF StatusReply
    <3>2. AgendaType'
      BY <1>0, <3>1 DEF AgendaType
    <3> QED BY <1>0, <1>1, <1>2, <2>1, <3>1, <3>2, TypedTaken
  <2> QED BY <2>3, <2>4
<1>5. CASE AgendaReply(i)
  <2> DEFINE c == calls[i]
  <2>1. c.kind = "agenda" /\ UNCHANGED rv /\ calls' = Others(i)
    BY <1>5 DEF AgendaReply, Answers
  <2>2. c.res.ok => /\ \A n \in DOMAIN c.res.val.items : c.res.val.items[n].id \in Visit /\ c.res.val.items[n].ver \in Nat
                    /\ c.res.val.total \in Nat
    BY <1>0, <1>1, <2>1 DEF CallType, BringsOf
  <2>3. AgendaType'
    <3> DEFINE d == IF c.then = "effect" THEN [ag EXCEPT !.loading = FALSE] ELSE [ag EXCEPT !.updating = Nothing]
    <3>1. SameRows(d)
      BY <1>0 DEF AgendaType, SameRows
    <3>2. ag' = IF c.res.ok
                THEN [d EXCEPT !.items = c.res.val.items, !.total = c.res.val.total, !.of = c.arg]
                ELSE [d EXCEPT !.error = TRUE]
      BY <1>5 DEF AgendaReply
    <3>3. d.items = ag.items
      BY <3>1 DEF SameRows
    <3> HIDE DEF d
    <3>4. CASE c.res.ok
      BY <2>2, <3>1, <3>2, <3>4 DEF AgendaType, SameRows
    <3>5. CASE ~c.res.ok
      BY <1>0, <3>1, <3>2, <3>3, <3>5 DEF AgendaType, SameRows
    <3> QED BY <3>4, <3>5
  <2> QED BY <1>0, <1>1, <1>2, <2>1, <2>3, TypedTaken
<1>6. CASE ReviewsReply(i)
  <2>1. /\ calls[i].kind = "reviews" /\ UNCHANGED ag /\ calls' = Others(i)
        /\ rv' = [rv EXCEPT !.loading = FALSE, !.list = IF calls[i].res.ok THEN calls[i].res.val ELSE @]
    BY <1>6 DEF ReviewsReply, Answers
  <2>2. calls[i].res.ok => \E V \in SUBSET Visit : calls[i].res.val \in [V -> Hidden]
    BY <1>0, <1>1, <2>1 DEF CallType, BringsOf
  <2>3. ReviewType'
    BY <1>0, <2>1, <2>2 DEF ReviewType
  <2> QED BY <1>0, <1>1, <1>3, <2>1, <2>3, TypedTaken
<1>7. CASE PublishReply(i)
  <2> DEFINE v == calls[i].arg.id
             l == IF calls[i].res.ok THEN [rv.list EXCEPT ![v] = flipped(@)] ELSE rv.list
  <2>1. /\ calls[i].kind = "publish" /\ UNCHANGED ag /\ calls' = Others(i)
        /\ rv' = [rv EXCEPT !.toggling = Nothing, !.list = l]
    <3>1. rv' = [rv EXCEPT !.toggling = Nothing, !.list = l]
      BY <1>7, Zenon DEF PublishReply
    <3> QED BY <1>7, <3>1 DEF PublishReply, Answers
  <2>2. \E V \in SUBSET Visit : l \in [V -> Hidden]
    <3>1. PICK V \in SUBSET Visit : rv.list \in [V -> Hidden]
      BY <1>0 DEF ReviewType
    <3>2. \A r : flipped(r) \in Hidden
      BY DEF flipped, Hidden
    <3>3. l \in [V -> Hidden]
      BY <3>1, <3>2
    <3> QED BY <3>3
  <2> HIDE DEF l
  <2>3. ReviewType'
    BY <1>0, <2>1, <2>2 DEF ReviewType
  <2> QED BY <1>0, <1>1, <1>3, <2>1, <2>3, TypedTaken
<1> QED BY <1>4, <1>5, <1>6, <1>7 DEF AgendaPageReply

ClientsCarries ==
  /\ \A q : q.page \in Nat \ {0} => CallType(Call("clients", "list", q, ""))
  /\ \A c \in Client : CallType(Call("clients", "card", c, ""))
  /\ \A c \in Client, x \in Text, d \in Details :
       /\ CallType(Call("clients", "notes", [id |-> c, text |-> x], d))
       /\ CallType(Call("clients", "profile", [id |-> c, tags |-> x], d))
  /\ \A c \in Client, b \in BOOLEAN, d \in Details :
       CallType(Call("clients", "consent", [id |-> c, to |-> b], d))

\* What the clients' page sends.
LEMMA ClientsSends == ClientsCarries
<1>1. "clients" \in PageNames /\ KindsOf["clients"] = ClientKinds
  BY DEF PageNames, KindsOf
<1>2. ASSUME NEW kind \in ClientKinds, NEW arg, NEW then, CarriesOf(Call("clients", kind, arg, then))
      PROVE  CallType(Call("clients", kind, arg, then))
  BY <1>1, <1>2, SentType
<1>3. ASSUME NEW q, q.page \in Nat \ {0} PROVE CallType(Call("clients", "list", q, ""))
  <2>1. CarriesOf(Call("clients", "list", q, ""))
    BY <1>3 DEF CarriesOf, Call
  <2> QED BY <1>2, <2>1 DEF ClientKinds
<1>4. ASSUME NEW c \in Client PROVE CallType(Call("clients", "card", c, ""))
  <2>1. CarriesOf(Call("clients", "card", c, ""))
    BY <1>4 DEF CarriesOf, Call
  <2> QED BY <1>2, <2>1 DEF ClientKinds
<1>5. ASSUME NEW c \in Client, NEW x \in Text, NEW d \in Details
      PROVE  /\ CallType(Call("clients", "notes", [id |-> c, text |-> x], d))
             /\ CallType(Call("clients", "profile", [id |-> c, tags |-> x], d))
  <2>1. CarriesOf(Call("clients", "notes", [id |-> c, text |-> x], d))
    BY <1>5 DEF CarriesOf, Call
  <2>2. CarriesOf(Call("clients", "profile", [id |-> c, tags |-> x], d))
    BY <1>5 DEF CarriesOf, Call
  <2> QED BY <1>2, <2>1, <2>2 DEF ClientKinds
<1>6. ASSUME NEW c \in Client, NEW b \in BOOLEAN, NEW d \in Details
      PROVE  CallType(Call("clients", "consent", [id |-> c, to |-> b], d))
  <2>1. CarriesOf(Call("clients", "consent", [id |-> c, to |-> b], d))
    BY <1>6 DEF CarriesOf, Call
  <2> QED BY <1>2, <2>1 DEF ClientKinds
<1> QED BY <1>3, <1>4, <1>5, <1>6 DEF ClientsCarries

\* Page p of the clients has the same rows.
SameList(p) ==
  p \in [q : {p.q}, typed : {p.typed}, timer : BOOLEAN, page : Nat \ {0},
         items : {cp.items}, total : Nat, of : {cp.of}, loading : BOOLEAN,
         error : BOOLEAN, failed : BOOLEAN, selected : Text, detail : Details \cup {Nothing},
         detailLoading : BOOLEAN, notes : Text, tags : Text,
         saving : SUBSET {"notes", "consent", "profile"}, mixed : BOOLEAN, overlapped : BOOLEAN]

\* The effect of a change of the filters.
LEMMA LoadListTypes ==
  ASSUME CallsType, ClientsType, NEW p, SameList(p), loadList(p)
  PROVE  CallsType' /\ ClientsType'
<1>1. CASE cp' = p /\ UNCHANGED calls
  BY <1>1 DEF SameList, ClientsType, CallsType
<1>2. CASE cp' = [p EXCEPT !.loading = TRUE, !.error = FALSE] /\ calls' = Append(calls, ListCall(p))
  <2>1. CallType(ListCall(p))
    <3>1. ListQuery(p).page \in Nat \ {0}
      BY DEF SameList, ListQuery
    <3> QED BY <3>1, ClientsSends DEF ClientsCarries, ListCall
  <2>2. CallsType'
    BY <1>2, <2>1, TypedSend
  <2>3. ClientsType'
    BY <1>2 DEF SameList, ClientsType
  <2> QED BY <2>2, <2>3
<1> QED BY <1>1, <1>2 DEF loadList

\* The filters set, on the first page.
LEMMA FirstPages ==
  ASSUME ClientsType, NEW x, NEW t \in BOOLEAN
  PROVE  /\ SameList([cp EXCEPT !.timer = FALSE, !.q.search = cp.typed, !.page = 1])
         /\ SameList([cp EXCEPT !.q.segment = x, !.page = 1])
         /\ SameList([cp EXCEPT !.q.inactive = x, !.page = 1])
         /\ SameList([cp EXCEPT !.q = NoFilter, !.typed = Client, !.page = 1, !.timer = t])
<1>1. ASSUME NEW n \in Nat \ {0}
      PROVE  /\ SameList([cp EXCEPT !.timer = FALSE, !.q.search = cp.typed, !.page = n])
             /\ SameList([cp EXCEPT !.q.segment = x, !.page = n])
             /\ SameList([cp EXCEPT !.q.inactive = x, !.page = n])
             /\ SameList([cp EXCEPT !.q = NoFilter, !.typed = Client, !.page = n, !.timer = t])
  BY DEF ClientsType, SameList
<1>2. 1 \in Nat \ {0}
  OBVIOUS
<1> QED BY <1>1, <1>2, Zenon

\* What the clicks on the clients' page keep, and the timer of its search.
LEMMA ClientsClickTypes ==
  ASSUME Types, ClientsClicks \/ Debounce
  PROVE  TablesType' /\ CallsType' /\ ClientsType'
<1>0. TablesType /\ CallsType /\ ClientsType
  BY DEF Types
<1>1. CASE Debounce
  <2>1. TablesType'
    BY <1>0, <1>1 DEF Debounce, TablesType, tables, counters
  <2> DEFINE p == [cp EXCEPT !.timer = FALSE, !.q.search = cp.typed, !.page = 1]
  <2>2. SameList(p)
    BY <1>0, FirstPages
  <2>3. loadList(p)
    BY <1>1 DEF Debounce
  <2> HIDE DEF p
  <2> QED BY <1>0, <2>1, <2>2, <2>3, LoadListTypes
<1> SUFFICES ASSUME ClientsClicks PROVE TablesType' /\ CallsType' /\ ClientsType'
  BY <1>1
<1>2. TablesType'
  BY <1>0, ClickTypes DEF ClientsClicks, TypeSearch, ChooseSegment, ChooseInactive, ClearFilters, Back, saveNotes,
       toggleMarketingConsent, saveProfile, Save, TurnList, openDetail, EditNotes, EditTags
<1>3. ASSUME UNCHANGED calls PROVE CallsType'
  BY <1>0, <1>3 DEF CallsType
<1>4. ASSUME NEW p, SameList(p), loadList(p) PROVE CallsType' /\ ClientsType'
  BY <1>0, <1>4, LoadListTypes
<1>5. CASE \E s \in limits.searches : TypeSearch(s)
  <2>1. PICK s : cp' = [cp EXCEPT !.typed = s, !.timer = TRUE] /\ UNCHANGED calls
    BY <1>5 DEF TypeSearch
  <2>2. ClientsType'
    BY <1>0, <2>1 DEF ClientsType
  <2> QED BY <1>2, <1>3, <2>1, <2>2
<1>6. CASE \E s \in limits.segments : ChooseSegment(s)
  <2>1. PICK s : loadList([cp EXCEPT !.q.segment = s, !.page = 1])
    BY <1>6 DEF ChooseSegment
  <2>2. SameList([cp EXCEPT !.q.segment = s, !.page = 1])
    BY <1>0, FirstPages
  <2> QED BY <1>2, <1>4, <2>1, <2>2, Zenon
<1>7. CASE \E n \in limits.inactive : ChooseInactive(n)
  <2>1. PICK n : loadList([cp EXCEPT !.q.inactive = n, !.page = 1])
    BY <1>7 DEF ChooseInactive
  <2>2. SameList([cp EXCEPT !.q.inactive = n, !.page = 1])
    BY <1>0, FirstPages
  <2> QED BY <1>2, <1>4, <2>1, <2>2, Zenon
<1>8. CASE ClearFilters
  <2> DEFINE t == cp.timer \/ cp.typed # Client
  <2>1. loadList([cp EXCEPT !.q = NoFilter, !.typed = Client, !.page = 1, !.timer = t]) /\ t \in BOOLEAN
    BY <1>8 DEF ClearFilters
  <2> HIDE DEF t
  <2>2. SameList([cp EXCEPT !.q = NoFilter, !.typed = Client, !.page = 1, !.timer = t])
    BY <1>0, <2>1, FirstPages
  <2> QED BY <1>2, <1>4, <2>1, <2>2, Zenon
<1>9. CASE Back
  <2>1. ClientsType'
    BY <1>0, <1>9 DEF ClientsType, Back, Text
  <2> QED BY <1>2, <1>3, <1>9, <2>1 DEF Back
<1>10. ASSUME NEW kind \in {"notes", "consent", "profile"}, NEW arg, Save(kind, arg),
              cp.detail \in Details => CallType(Call("clients", kind, arg, cp.detail))
       PROVE  CallsType' /\ ClientsType'
  <2>1. cp.detail \in Details /\ calls' = Append(calls, Call("clients", kind, arg, cp.detail))
    BY <1>0, <1>10 DEF Save, cardShown, ClientsType
  <2>2. CallsType'
    BY <1>0, <1>10, <2>1, TypedSend
  <2> DEFINE o == cp.overlapped \/ (kind = "consent" /\ inFlight("profile"))
                                \/ (kind = "profile" /\ inFlight("consent"))
  <2>3. o \in BOOLEAN
    OBVIOUS
  <2>4. cp' = [cp EXCEPT !.saving = @ \cup {kind}, !.error = FALSE, !.overlapped = o]
    BY <1>10 DEF Save
  <2> HIDE DEF o
  <2>5. ClientsType'
    BY <1>0, <2>3, <2>4 DEF ClientsType
  <2> QED BY <2>2, <2>5
<1>11. ASSUME cardShown PROVE cp.selected \in Client /\ cp.detail \in Details /\ cp.notes \in Text /\ cp.tags \in Text
  BY <1>0, <1>11 DEF cardShown, ClientsType, Text
<1>12. CASE saveNotes
  <2>1. cardShown /\ Save("notes", [id |-> cp.selected, text |-> cp.notes])
    BY <1>12 DEF saveNotes, Save
  <2>2. CallType(Call("clients", "notes", [id |-> cp.selected, text |-> cp.notes], cp.detail))
    BY <1>11, <2>1, ClientsSends DEF ClientsCarries
  <2> QED BY <1>2, <1>10, <2>1, <2>2
<1>13. CASE toggleMarketingConsent
  <2>1. cardShown /\ Save("consent", [id |-> cp.selected, to |-> ~cp.detail.consent])
    BY <1>13 DEF toggleMarketingConsent, Save
  <2>2. (~cp.detail.consent) \in BOOLEAN
    BY <1>11, <2>1 DEF Details
  <2>3. CallType(Call("clients", "consent", [id |-> cp.selected, to |-> ~cp.detail.consent], cp.detail))
    BY <1>11, <2>1, <2>2, ClientsSends DEF ClientsCarries
  <2> QED BY <1>2, <1>10, <2>1, <2>3
<1>14. CASE saveProfile
  <2>1. cardShown /\ Save("profile", [id |-> cp.selected, tags |-> cp.tags])
    BY <1>14 DEF saveProfile, Save
  <2>2. CallType(Call("clients", "profile", [id |-> cp.selected, tags |-> cp.tags], cp.detail))
    BY <1>11, <2>1, ClientsSends DEF ClientsCarries
  <2> QED BY <1>2, <1>10, <2>1, <2>2
<1>15. CASE \E by \in {-1, 1} : TurnList(by)
  <2>1. PICK by \in {-1, 1} : TurnList(by)
    BY <1>15
  <2> DEFINE p == [cp EXCEPT !.page = @ + by]
  <2>2. loadList(p) /\ cp.page + by \in 1..Max({1, (cp.total + PAGE_SIZE - 1) \div PAGE_SIZE})
    BY <2>1 DEF TurnList
  <2>3. cp.page + by \in Nat \ {0}
    BY <1>0, <2>1, <2>2 DEF ClientsType
  <2>4. SameList(p)
    BY <1>0, <2>3 DEF ClientsType, SameList
  <2> HIDE DEF p
  <2> QED BY <1>2, <1>4, <2>2, <2>4
<1>16. CASE \E n \in DOMAIN cp.items : openDetail(cp.items[n].id)
  <2>1. PICK n \in DOMAIN cp.items : openDetail(cp.items[n].id)
    BY <1>16
  <2> DEFINE c == cp.items[n].id
  <2>2. c \in Client
    BY <1>0, <2>1 DEF ClientsType
  <2>3. cp' = [cp EXCEPT !.selected = c, !.detailLoading = TRUE, !.error = FALSE]
        /\ calls' = Append(calls, Call("clients", "card", c, ""))
    BY <2>1 DEF openDetail
  <2> HIDE DEF c
  <2>4. CallType(Call("clients", "card", c, ""))
    BY <2>2, ClientsSends DEF ClientsCarries
  <2>5. CallsType'
    BY <1>0, <2>3, <2>4, TypedSend
  <2>6. ClientsType'
    BY <1>0, <2>2, <2>3 DEF ClientsType, Text
  <2> QED BY <1>2, <2>5, <2>6
<1>17. CASE \E text \in Client \cup {Nothing} : EditNotes(text) \/ EditTags(text)
  <2>1. PICK text \in Text : EditNotes(text) \/ EditTags(text)
    BY <1>17 DEF Text
  <2>2. ClientsType' /\ UNCHANGED calls
    BY <1>0, <2>1 DEF ClientsType, EditNotes, EditTags
  <2> QED BY <1>2, <1>3, <2>2
<1> QED BY <1>5, <1>6, <1>7, <1>8, <1>9, <1>12, <1>13, <1>14, <1>15, <1>16, <1>17 DEF ClientsClicks

\* What its answers keep.
LEMMA ClientsReplyTypes ==
  ASSUME Types, NEW i \in DOMAIN calls, ClientsReply(i)
  PROVE  TablesType' /\ CallsType' /\ ClientsType'
<1>0. TablesType /\ CallsType /\ ClientsType /\ CallType(calls[i])
  BY DEF Types, CallsType
<1>1. TablesType' /\ calls[i].pc = "done" /\ calls' = Others(i)
  BY <1>0, AnswersTypes DEF ClientsReply, ListReply, CardReply, NotesReply, ConsentReply, ProfileReply, SaveReply, Answers
<1>2. CallsType'
  BY <1>0, <1>1, TypedTaken
<1>3. CASE ListReply(i)
  <2> DEFINE r == calls[i].res
  <2>1. r.ok => /\ \A n \in DOMAIN r.val.items : r.val.items[n].id \in Client
                /\ r.val.total \in Nat
    BY <1>0, <1>1, <1>3 DEF CallType, BringsOf, ListReply, Answers
  <2>2. ClientsType'
    BY <1>0, <1>3, <2>1 DEF ClientsType, ListReply
  <2> QED BY <1>1, <1>2, <2>2
<1>4. CASE CardReply(i)
  <2> DEFINE r == calls[i].res
             shown == [cp EXCEPT !.detail = [of |-> r.val.of, consent |-> r.val.consent, tags |-> r.val.tags],
                                 !.notes = r.val.notes, !.tags = r.val.tags]
             p == IF r.ok THEN shown ELSE [cp EXCEPT !.error = TRUE, !.selected = Nothing]
             m == cp.mixed \/ Mixes(calls[i].arg)
  <2>1. r.ok => /\ r.val.of \in Client /\ r.val.consent \in BOOLEAN
                /\ r.val.notes \in Text /\ r.val.tags \in Text
    BY <1>0, <1>1, <1>4 DEF CallType, CarriesOf, BringsOf, CardReply, Answers
  <2>2. SameList(p) /\ p.mixed = cp.mixed
    <3>1. CASE r.ok
      <4>1. [of |-> r.val.of, consent |-> r.val.consent, tags |-> r.val.tags] \in Details
        BY <2>1, <3>1 DEF Details
      <4>2. SameList(shown) /\ shown.mixed = cp.mixed
        BY <1>0, <2>1, <3>1, <4>1 DEF ClientsType, SameList
      <4> QED BY <3>1, <4>2
    <3>2. CASE ~r.ok
      BY <1>0, <3>2 DEF ClientsType, SameList, Text
    <3> QED BY <3>1, <3>2
  <2>3. cp' = [p EXCEPT !.detailLoading = FALSE, !.mixed = @ \/ Mixes(calls[i].arg)]
    BY <1>4 DEF CardReply
  <2> HIDE DEF p
  <2>4. cp' = [p EXCEPT !.detailLoading = FALSE, !.mixed = m] /\ m \in BOOLEAN
    BY <2>2, <2>3
  <2> HIDE DEF m
  <2>5. ClientsType'
    <3>1. \A n \in DOMAIN cp.items : cp.items[n].id \in Client
      BY <1>0 DEF ClientsType
    <3> QED BY <2>2, <2>4, <3>1 DEF ClientsType, SameList
  <2> QED BY <1>1, <1>2, <2>5
<1>5. ASSUME NEW kind, NEW p, SameList(p), p.mixed = cp.mixed, SaveReply(i, kind, p) PROVE ClientsType'
  <2> DEFINE q == IF calls[i].res.ok THEN p ELSE [cp EXCEPT !.error = TRUE]
             m == cp.mixed \/ Mixes(calls[i].arg.id)
  <2>1. SameList(q) /\ q.mixed = cp.mixed
    BY <1>0, <1>5 DEF ClientsType, SameList
  <2>2. cp' = [q EXCEPT !.saving = @ \ {kind}, !.mixed = @ \/ Mixes(calls[i].arg.id)]
    BY <1>5 DEF SaveReply
  <2> HIDE DEF q
  <2>3. cp' = [q EXCEPT !.saving = @ \ {kind}, !.mixed = m] /\ m \in BOOLEAN
    BY <2>1, <2>2
  <2> HIDE DEF m
  <2>4. \A n \in DOMAIN cp.items : cp.items[n].id \in Client
    BY <1>0 DEF ClientsType
  <2> QED BY <2>1, <2>3, <2>4 DEF ClientsType, SameList
<1>6. CASE NotesReply(i)
  <2>1. SameList(cp)
    BY <1>0 DEF ClientsType, SameList
  <2> QED BY <1>1, <1>2, <1>5, <1>6, <2>1 DEF NotesReply
<1>7. CASE ConsentReply(i)
  <2> DEFINE d == [calls[i].then EXCEPT !.consent = calls[i].arg.to]
             p == [cp EXCEPT !.detail = d]
  <2>1. calls[i].then \in Details /\ calls[i].arg.to \in BOOLEAN
    BY <1>0, <1>7 DEF CallType, CarriesOf, ConsentReply, SaveReply, Answers
  <2>2. d \in Details
    BY <2>1 DEF Details
  <2>3. SaveReply(i, "consent", p)
    BY <1>7 DEF ConsentReply
  <2> HIDE DEF d
  <2>4. SameList(p) /\ p.mixed = cp.mixed
    BY <1>0, <2>2 DEF ClientsType, SameList
  <2> HIDE DEF p
  <2> QED BY <1>1, <1>2, <1>5, <2>3, <2>4
<1>8. CASE ProfileReply(i)
  <2> DEFINE d == [calls[i].then EXCEPT !.tags = calls[i].arg.tags]
             p == [cp EXCEPT !.detail = d, !.tags = calls[i].arg.tags]
  <2>1. calls[i].then \in Details /\ calls[i].arg.tags \in Text
    BY <1>0, <1>8 DEF CallType, CarriesOf, ProfileReply, SaveReply, Answers
  <2>2. d \in Details
    BY <2>1 DEF Details
  <2>3. SaveReply(i, "profile", p)
    BY <1>8 DEF ProfileReply
  <2> HIDE DEF d
  <2>4. SameList(p) /\ p.mixed = cp.mixed
    BY <1>0, <2>1, <2>2 DEF ClientsType, SameList
  <2> HIDE DEF p
  <2> QED BY <1>1, <1>2, <1>5, <2>3, <2>4
<1> QED BY <1>3, <1>4, <1>6, <1>7, <1>8 DEF ClientsReply

\* What the settings' page sends.
LEMMA SettingsSends ==
  ASSUME NEW f \in Forms, NEW x \in Nat, NEW s, NEW r
  PROVE  CallType(Call("settings", "save", [form |-> f, value |-> x, skipped |-> s, refused |-> r], ""))
<1>1. "settings" \in PageNames /\ KindsOf["settings"] = SettingsKinds
  BY DEF PageNames, KindsOf
<1>2. CarriesOf(Call("settings", "save", [form |-> f, value |-> x, skipped |-> s, refused |-> r], ""))
  BY DEF CarriesOf, Call
<1> QED BY <1>1, <1>2, SentType DEF SettingsKinds

\* What the clicks on the settings keep.
LEMMA SettingsClickTypes ==
  ASSUME Types, SettingsClicks
  PROVE  TablesType' /\ CallsType' /\ SettingsType'
<1>0. TablesType /\ CallsType /\ SettingsType
  BY DEF Types
<1>1. PICK f \in Forms : SaveForm(f) \/ \E x \in limits.values : Type(f, x)
  BY DEF SettingsClicks
<1>2. TablesType'
  BY <1>0, <1>1, ClickTypes DEF SaveForm, Type
<1>3. formShown => sp.form \in [Forms -> Nat]
  BY <1>0 DEF SettingsType, formShown
<1>4. CASE SaveForm(f)
  <2> DEFINE x == sentAs(f, sp.form[f])
             s == tooShort(f, sp.form[f])
             r == outOfRange(f, sp.form[f])
  <2>1. x \in Nat
    <3>1. sp.form[f] \in Nat
      BY <1>3, <1>4 DEF SaveForm
    <3> QED BY <3>1 DEF sentAs
  <2>2. /\ sp' = [sp EXCEPT !.saving = @ \cup {f}, !.errors = @ \ {f}]
        /\ calls' = Append(calls, Call("settings", "save", [form |-> f, value |-> x, skipped |-> s, refused |-> r], ""))
    BY <1>4 DEF SaveForm
  <2> HIDE DEF x, s, r
  <2>3. CallsType'
    BY <1>0, <2>1, <2>2, SettingsSends, TypedSend
  <2>4. SettingsType'
    BY <1>0, <2>2 DEF SettingsType
  <2> QED BY <1>2, <2>3, <2>4
<1>5. CASE \E x \in limits.values : Type(f, x)
  <2>1. PICK x \in limits.values : Type(f, x)
    BY <1>5
  <2>2. x \in Nat
    BY <1>0, <2>1, LimitsAssumption DEF TablesType
  <2> DEFINE g == [sp.form EXCEPT ![f] = x]
  <2>3. sp' = [sp EXCEPT !.form = g, !.typed = @ \cup {f}] /\ UNCHANGED calls
    BY <2>1 DEF Type
  <2>4. g \in [Forms -> Nat]
    BY <1>3, <2>1, <2>2 DEF Type
  <2> HIDE DEF g
  <2>5. SettingsType'
    BY <1>0, <2>3, <2>4 DEF SettingsType
  <2>6. CallsType'
    BY <1>0, <2>3 DEF CallsType
  <2> QED BY <1>2, <2>5, <2>6
<1> QED BY <1>1, <1>4, <1>5

\* What its answers keep.
LEMMA SettingsReplyTypes ==
  ASSUME Types, NEW i \in DOMAIN calls, SettingsPageReply(i)
  PROVE  TablesType' /\ CallsType' /\ SettingsType'
<1>0. TablesType /\ CallsType /\ SettingsType /\ CallType(calls[i])
  BY DEF Types, CallsType
<1>1. TablesType' /\ calls[i].pc = "done" /\ calls' = Others(i) /\ calls[i].kind \in SettingsKinds
  BY <1>0, AnswersTypes DEF SettingsPageReply, SettingsReply, SaveFormReply, Answers, SettingsKinds
<1>2. CallsType'
  BY <1>0, <1>1, TypedTaken
<1>3. calls[i].res.ok => calls[i].res.val \in [Forms -> Nat]
  BY <1>0, <1>1 DEF CallType, BringsOf
<1>4. CASE SettingsReply(i)
  <2>1. SettingsType'
    BY <1>0, <1>3, <1>4 DEF SettingsReply, SettingsType, applySettings
  <2> QED BY <1>1, <1>2, <2>1
<1>5. CASE SaveFormReply(i)
  <2> DEFINE f == calls[i].arg.form
  <2>1. f \in Forms
    BY <1>0, <1>5 DEF SaveFormReply, Answers, CallType, CarriesOf
  <2>2. SettingsType'
    BY <1>0, <1>3, <1>5, <2>1 DEF SaveFormReply, SettingsType, applySettings
  <2> QED BY <1>1, <1>2, <2>2
<1> QED BY <1>4, <1>5 DEF SettingsPageReply

\* What is lost on the way, and what happens elsewhere.
LEMMA WorldTypes ==
  ASSUME Types, World
  PROVE  TablesType' /\ CallsType'
<1>0. TablesType /\ CallsType
  BY DEF Types
<1>1. CASE \E i \in DOMAIN calls : Lose(i) \/ LoseAnswer(i)
  <2>1. PICK i \in DOMAIN calls : Lose(i) \/ LoseAnswer(i)
    BY <1>1
  <2>2. Reply(i, Error(0)) /\ Fault
    BY <2>1 DEF Lose, LoseAnswer
  <2>3. TablesType'
    BY <1>0, <2>2 DEF Fault, TablesType, tables
  <2> QED BY <1>0, <2>2, <2>3, TypedError
<1>2. ASSUME NEW v \in Visit, NEW st \in Status, NEW t \in Day, Elsewhere, WillWrite(v, st, t), v = Mine => t = NoTime
      PROVE  TablesType' /\ CallsType'
  <2> DEFINE y == [id |-> v, status |-> st, at |-> t]
  <2>1. decided' = decided \cup {y}
    BY <1>2 DEF WillWrite
  <2>2. y \in Decision /\ (y.id = Mine => y.at = NoTime)
    BY <1>2 DEF Decision, Day
  <2> HIDE DEF y
  <2>3. outside' \in Nat
    BY <1>0, <1>2 DEF Elsewhere, TablesType
  <2> QED BY <1>0, <1>2, <2>1, <2>2, <2>3 DEF Elsewhere, TablesType, CallsType
<1>3. CASE \E v \in Visit, to \in limits.statuses : StaffElsewhere(v, to)
  <2>1. PICK v \in Visit, to \in limits.statuses : StaffElsewhere(v, to)
    BY <1>3
  <2>2. to \in Status
    BY <1>0, <2>1, LimitsAssumption DEF TablesType
  <2>3. Elsewhere /\ WillWrite(v, to, NoTime) /\ NoTime \in Day
    BY <2>1 DEF StaffElsewhere, Day
  <2> QED BY <1>2, <2>2, <2>3
<1>4. CASE \E v \in Visit, d \in limits.days : CustomerElsewhere(v, d)
  <2>1. PICK v \in Visit, d \in limits.days : CustomerElsewhere(v, d)
    BY <1>4
  <2>2. d \in Day /\ visit[v] \in VisitRow
    BY <1>0, <2>1, LimitsAssumption DEF TablesType, Day
  <2>3. afterMove(visit[v].status) \in Status
    BY <2>2 DEF VisitRow, afterMove, Status
  <2>4. Elsewhere /\ WillWrite(v, afterMove(visit[v].status), d) /\ v # Mine
    BY <2>1 DEF CustomerElsewhere
  <2> QED BY <1>2, <2>2, <2>3, <2>4
<1>6. CASE \E x \in decided : WriteElsewhere(x)
  <2>1. PICK x \in decided : WriteElsewhere(x)
    BY <1>6
  <2>2. PICK row \in VisitRow : UNCHANGED visit \/ Write(x.id, row)
    BY <1>0, <2>1, WrittenElsewhere
  <2>3. x.id \in Visit
    BY <1>0 DEF TablesType, Decision
  <2>4. UNCHANGED <<limits, now, card, tenant, calls, counters>> /\ decided' = decided \ {x}
    BY <2>1 DEF WriteElsewhere
  <2>5. visit' \in [Visit -> VisitRow]
    <3>1. visit \in [Visit -> VisitRow]
      BY <1>0 DEF TablesType
    <3>2. CASE Write(x.id, row)
      BY <2>3, <3>1, <3>2, WrittenRows
    <3> QED BY <2>2, <3>1, <3>2
  <2> QED BY <1>0, <2>4, <2>5 DEF TablesType, CallsType, counters
<1>5. CASE TimePasses
  BY <1>0, <1>5 DEF TimePasses, TablesType, CallsType, counters
<1> QED BY <1>1, <1>3, <1>4, <1>5, <1>6 DEF World

\* Every step of the pages, the server and the world keeps the types.
LEMMA TypesStay ==
  ASSUME Types, [Next]_vars
  PROVE  Types'
<1>0. /\ UNCHANGED mp => ManageType'
      /\ UNCHANGED ag => AgendaType'
      /\ UNCHANGED rv => ReviewType'
      /\ UNCHANGED cp => ClientsType'
      /\ UNCHANGED sp => SettingsType'
  BY DEF Types, ManageType, AgendaType, ReviewType, ClientsType, SettingsType
<1>1. CASE UNCHANGED vars
  <2>1. TablesType' /\ CallsType'
    BY <1>1 DEF Types, TablesType, CallsType, vars, serverVars, tables, counters
  <2> QED BY <1>0, <1>1, <2>1 DEF Types, vars, pages
<1>2. CASE User
  <2>1. CASE Manage /\ ManageClicks
    BY <1>0, <2>1, ManageClickTypes DEF Manage, Types
  <2>2. CASE Agenda /\ AgendaClicks
    BY <1>0, <2>2, AgendaClickTypes DEF Agenda, Types
  <2>3. CASE Clients /\ ClientsClicks
    BY <1>0, <2>3, ClientsClickTypes DEF Clients, Types
  <2>4. CASE Settings /\ SettingsClicks
    BY <1>0, <2>4, SettingsClickTypes DEF Settings, Types
  <2>5. CASE Report /\ loadReport
    <3>1. TablesType' /\ CallsType'
      BY <2>5, ClickTypes DEF loadReport, Types, CallsType
    <3> QED BY <1>0, <2>5, <3>1 DEF Report, Types
  <2> QED BY <1>2, <2>1, <2>2, <2>3, <2>4, <2>5 DEF User
<1>3. CASE Answer
  <2>1. PICK i \in DOMAIN calls : \/ Manage /\ ManageReply(i)
                                  \/ Agenda /\ AgendaPageReply(i)
                                  \/ Clients /\ ClientsReply(i)
                                  \/ Settings /\ SettingsPageReply(i)
    BY <1>3 DEF Answer
  <2>2. CASE Manage /\ ManageReply(i)
    BY <1>0, <2>2, ManageReplyTypes DEF Manage, Types
  <2>3. CASE Agenda /\ AgendaPageReply(i)
    BY <1>0, <2>3, AgendaReplyTypes DEF Agenda, Types
  <2>4. CASE Clients /\ ClientsReply(i)
    BY <1>0, <2>4, ClientsReplyTypes DEF Clients, Types
  <2>5. CASE Settings /\ SettingsPageReply(i)
    BY <1>0, <2>5, SettingsReplyTypes DEF Settings, Types
  <2> QED BY <2>1, <2>2, <2>3, <2>4, <2>5
<1>4. CASE Server
  <2>1. TablesType' /\ CallsType'
    BY <1>4, ServeTypes DEF Server
  <2> QED BY <1>0, <1>4, <2>1 DEF Server, pages, Types
<1>5. CASE Timer
  BY <1>0, <1>5, ClientsClickTypes DEF Timer, Clients, Types
<1>6. CASE Queries
  <2>1. TablesType' /\ CallsType'
    BY <1>6 DEF Queries, RunQuery, Types, TablesType, CallsType, tables, counters
  <2> QED BY <1>0, <1>6, <2>1 DEF Queries, Report, Types
<1>7. CASE World
  <2>1. TablesType' /\ CallsType'
    BY <1>7, WorldTypes
  <2> QED BY <1>0, <1>7, <2>1 DEF World, pages, Types
<1> QED BY <1>1, <1>2, <1>3, <1>4, <1>5, <1>6, <1>7 DEF Next, System

\* A request a page is opened with.
StartCall(c) ==
  /\ CallType(c) /\ c.pc = "sent" /\ isOpen(c.from)
  /\ c.kind \in {"get", "agenda", "reviews", "list", "settings"}
  /\ c.kind = "agenda" => c.arg = [q |-> limits.filters[1], page |-> 1] /\ c.then = "effect"
  /\ c.kind = "list" => c.arg = [q |-> NoFilter, page |-> 1]

\* Such requests, at most one of each of the pages P, and one of each that is open.
Starts(s, P) ==
  /\ IsSeqOf(s)
  /\ \A i \in DOMAIN s : StartCall(s[i]) /\ s[i].from \in P
  /\ \A i, j \in DOMAIN s : s[i].from = s[j].from => i = j
  /\ \A page \in P : isOpen(page) => \E i \in DOMAIN s : s[i].from = page

\* One page,
LEMMA StartsOne ==
  ASSUME NEW page, NEW c, c.from = page, isOpen(page) => StartCall(c)
  PROVE  Starts(IF isOpen(page) THEN <<c>> ELSE <<>>, {page})
<1> DEFINE s == <<c>>
<1>1. CASE isOpen(page)
  <2>1. s \in Seq({c}) /\ DOMAIN s = {1} /\ s[1] = c
    BY DEF s
  <2>2. IsSeqOf(s)
    BY <2>1, OwnElements
  <2> HIDE DEF s
  <2>3. Starts(s, {page})
    BY <1>1, <2>1, <2>2 DEF Starts
  <2> QED BY <1>1, <2>3 DEF s
<1>2. CASE ~isOpen(page)
  <2> DEFINE e == << >>
  <2>1. e \in Seq({c}) /\ DOMAIN e = {}
    BY DEF e
  <2>2. IsSeqOf(e)
    BY <2>1, OwnElements
  <2> HIDE DEF e
  <2>3. Starts(e, {page})
    BY <1>2, <2>1, <2>2 DEF Starts
  <2> QED BY <1>2, <2>3 DEF e
<1> QED BY <1>1, <1>2

\* and then others.
LEMMA StartsMore ==
  ASSUME NEW s, NEW t, NEW P, NEW Q, Starts(s, P), Starts(t, Q), P \cap Q = {}
  PROVE  Starts(s \o t, P \cup Q)
<1> DEFINE S == Elems(s) \cup Elems(t)
           u == s \o t
<1>1. s \in Seq(S) /\ t \in Seq(S)
  BY SeqMonotonic DEF Starts, IsSeqOf
<1>2. /\ Len(s) \in Nat /\ DOMAIN s = 1..Len(s) /\ Len(t) \in Nat /\ DOMAIN t = 1..Len(t)
  BY <1>1, LenProperties
<1> HIDE DEF S
<1>3. /\ u \in Seq(S) /\ Len(u) = Len(s) + Len(t)
      /\ \A i \in 1..(Len(s) + Len(t)) : u[i] = IF i <= Len(s) THEN s[i] ELSE t[i - Len(s)]
  BY <1>1, ConcatProperties
<1> HIDE DEF u
<1>4. IsSeqOf(u) /\ DOMAIN u = 1..(Len(s) + Len(t))
  BY <1>3, OwnElements
<1>5. \A i \in DOMAIN u : \/ i \in DOMAIN s /\ u[i] = s[i]
                          \/ i > Len(s) /\ i - Len(s) \in DOMAIN t /\ u[i] = t[i - Len(s)]
  BY <1>2, <1>3, <1>4
<1>6. \A i \in DOMAIN u : StartCall(u[i]) /\ u[i].from \in P \cup Q
  BY <1>5 DEF Starts
<1>7. ASSUME NEW i \in DOMAIN u, NEW j \in DOMAIN u, u[i].from = u[j].from PROVE i = j
  <2>1. CASE i \in DOMAIN s /\ u[i] = s[i] /\ j \in DOMAIN s /\ u[j] = s[j]
    BY <1>7, <2>1 DEF Starts
  <2>2. CASE i - Len(s) \in DOMAIN t /\ u[i] = t[i - Len(s)] /\ j - Len(s) \in DOMAIN t /\ u[j] = t[j - Len(s)]
    <3>1. i - Len(s) = j - Len(s)
      BY <1>7, <2>2 DEF Starts
    <3> QED BY <1>2, <1>4, <3>1
  <2>3. CASE i \in DOMAIN s /\ u[i] = s[i] /\ j - Len(s) \in DOMAIN t /\ u[j] = t[j - Len(s)]
    BY <1>7, <2>3 DEF Starts
  <2>4. CASE i - Len(s) \in DOMAIN t /\ u[i] = t[i - Len(s)] /\ j \in DOMAIN s /\ u[j] = s[j]
    BY <1>7, <2>4 DEF Starts
  <2> QED BY <1>5, <2>1, <2>2, <2>3, <2>4
<1>8. ASSUME NEW page \in P \cup Q, isOpen(page) PROVE \E i \in DOMAIN u : u[i].from = page
  <2>1. CASE page \in P
    <3>1. PICK i \in DOMAIN s : s[i].from = page
      BY <1>8, <2>1 DEF Starts
    <3>2. i \in DOMAIN u /\ u[i] = s[i]
      BY <1>2, <1>3, <1>4
    <3> QED BY <3>1, <3>2
  <2>2. CASE page \in Q
    <3>1. PICK i \in DOMAIN t : t[i].from = page
      BY <1>8, <2>2 DEF Starts
    <3>2. Len(s) + i \in DOMAIN u /\ u[Len(s) + i] = t[i]
      BY <1>2, <1>3, <1>4
    <3> QED BY <3>1, <3>2
  <2> QED BY <2>1, <2>2
<1>9. Starts(u, P \cup Q)
  BY <1>4, <1>6, <1>7, <1>8 DEF Starts
<1> QED BY <1>9 DEF u

\* The requests at the start.
LEMMA StartCalls ==
  ASSUME Init
  PROVE  Starts(calls, PageNames)
<1>0. Nothing \notin Client
  BY DeskAssumption
<1>1. Starts(ManageStart, {"manage"})
  <2> DEFINE c == Send("get", Nothing, "")
  <2>1. c.from = "manage" /\ c.pc = "sent" /\ c.kind = "get" /\ CallType(c)
    BY ManageSends DEF ManageCarries, Send, Call
  <2> HIDE DEF c
  <2>2. isOpen("manage") => StartCall(c)
    BY <2>1 DEF StartCall
  <2>3. Starts(IF isOpen("manage") THEN <<c>> ELSE <<>>, {"manage"})
    BY <2>1, <2>2, StartsOne
  <2> QED BY <2>3 DEF ManageStart, c
<1>2. Starts(IF isOpen("agenda") THEN <<AgendaCall([q |-> limits.filters[1], page |-> 1], "effect")>> ELSE <<>>,
             {"agenda"})
  <2> DEFINE q == [q |-> limits.filters[1], page |-> 1]
             c == AgendaCall(q, "effect")
  <2>1. q.page \in Nat \ {0}
    OBVIOUS
  <2>2. CallType(c)
    <3> HIDE DEF q
    <3> QED BY <2>1, AgendaSends DEF AgendaCarries
  <2>3. c.from = "agenda" /\ c.pc = "sent" /\ c.kind = "agenda" /\ c.arg = q /\ c.then = "effect"
    BY DEF AgendaCall, Call
  <2>4. isOpen("agenda") => StartCall(c)
    <3> HIDE DEF c
    <3> QED BY <2>2, <2>3 DEF StartCall
  <2> HIDE DEF c
  <2>5. Starts(IF isOpen("agenda") THEN <<c>> ELSE <<>>, {"agenda"})
    BY <2>3, <2>4, StartsOne
  <2> QED BY <2>5 DEF c
<1>3. Starts(IF isOpen("reviews") THEN <<Call("reviews", "reviews", Nothing, "")>> ELSE <<>>, {"reviews"})
  <2> DEFINE c == Call("reviews", "reviews", Nothing, "")
  <2>1. c.from = "reviews" /\ c.pc = "sent" /\ c.kind = "reviews" /\ CallType(c)
    BY AgendaSends DEF AgendaCarries, Call
  <2> HIDE DEF c
  <2>2. isOpen("reviews") => StartCall(c)
    BY <2>1 DEF StartCall
  <2>3. Starts(IF isOpen("reviews") THEN <<c>> ELSE <<>>, {"reviews"})
    BY <2>1, <2>2, StartsOne
  <2> QED BY <2>3 DEF c
<1>4. Starts(AgendaStart, {"agenda", "reviews"})
  <2> DEFINE s == IF isOpen("agenda") THEN <<AgendaCall([q |-> limits.filters[1], page |-> 1], "effect")>> ELSE <<>>
             t == IF isOpen("reviews") THEN <<Call("reviews", "reviews", Nothing, "")>> ELSE <<>>
  <2>1. {"agenda"} \cap {"reviews"} = {} /\ {"agenda"} \cup {"reviews"} = {"agenda", "reviews"}
    OBVIOUS
  <2>2. AgendaStart = s \o t
    BY DEF AgendaStart
  <2>3. Starts(s, {"agenda"}) /\ Starts(t, {"reviews"})
    BY <1>2, <1>3
  <2> HIDE DEF s, t
  <2>4. Starts(s \o t, {"agenda", "reviews"})
    BY <2>1, <2>3, StartsMore
  <2> QED BY <2>2, <2>4
<1>5. Starts(ClientsStart, {"clients"})
  <2> DEFINE q == [q |-> NoFilter, page |-> 1]
             c == Call("clients", "list", q, "")
  <2>1. q.page \in Nat \ {0}
    OBVIOUS
  <2>2. CallType(c)
    <3> HIDE DEF q
    <3> QED BY <2>1, ClientsSends DEF ClientsCarries
  <2>3. c.from = "clients" /\ c.pc = "sent" /\ c.kind = "list" /\ c.arg = q
    BY DEF Call
  <2>4. isOpen("clients") => StartCall(c)
    <3> HIDE DEF c
    <3> QED BY <2>2, <2>3 DEF StartCall
  <2> HIDE DEF c
  <2>5. Starts(IF isOpen("clients") THEN <<c>> ELSE <<>>, {"clients"})
    BY <2>3, <2>4, StartsOne
  <2> QED BY <2>5 DEF ClientsStart, c
<1>6. Starts(SettingsStart, {"settings"})
  <2> DEFINE c == Call("settings", "settings", Nothing, "")
  <2>1. CallType(c)
    <3>1. "settings" \in PageNames /\ "settings" \in KindsOf["settings"]
      BY DEF PageNames, KindsOf, SettingsKinds
    <3>2. CarriesOf(c)
      BY DEF CarriesOf, Call
    <3> QED BY <3>1, <3>2, SentType
  <2>2. c.from = "settings" /\ c.pc = "sent" /\ c.kind = "settings"
    BY DEF Call
  <2> HIDE DEF c
  <2>3. isOpen("settings") => StartCall(c)
    BY <2>1, <2>2 DEF StartCall
  <2>4. Starts(IF isOpen("settings") THEN <<c>> ELSE <<>>, {"settings"})
    BY <2>2, <2>3, StartsOne
  <2> QED BY <2>4 DEF SettingsStart, c
<1>7. Starts(ManageStart \o AgendaStart, {"manage", "agenda", "reviews"})
  <2>1. {"manage"} \cap {"agenda", "reviews"} = {}
        /\ {"manage"} \cup {"agenda", "reviews"} = {"manage", "agenda", "reviews"}
    OBVIOUS
  <2> QED BY <1>1, <1>4, <2>1, StartsMore
<1>8. Starts((ManageStart \o AgendaStart) \o ClientsStart, {"manage", "agenda", "reviews", "clients"})
  <2>1. {"manage", "agenda", "reviews"} \cap {"clients"} = {}
        /\ {"manage", "agenda", "reviews"} \cup {"clients"} = {"manage", "agenda", "reviews", "clients"}
    OBVIOUS
  <2> QED BY <1>5, <1>7, <2>1, StartsMore
<1>9. Starts(((ManageStart \o AgendaStart) \o ClientsStart) \o SettingsStart, PageNames)
  <2>1. {"manage", "agenda", "reviews", "clients"} \cap {"settings"} = {}
        /\ {"manage", "agenda", "reviews", "clients"} \cup {"settings"} = PageNames
    BY DEF PageNames
  <2> QED BY <1>6, <1>8, <2>1, StartsMore
<1> QED BY <1>9 DEF Init

\* The types hold at the start,
LEMMA TypesInit ==
  ASSUME Init
  PROVE  Types
<1>1. TablesType
  BY LimitsAssumption DEF Init, TablesType
<1>2. CallsType
  BY StartCalls DEF Starts, StartCall, CallsType
<1>3. limits \in Limits /\ limits.today \in Nat
  BY LimitsAssumption DEF Init
<1>4. ManageType
  BY <1>3 DEF Init, ManageInit, ManageType, Day
<1>5. AgendaType /\ ReviewType
  <2>1. ASSUME NEW b \in BOOLEAN, NEW n \in Nat \ {0},
          ag = [form |-> 1, applied |-> 1, page |-> n, items |-> <<>>, of |-> Nothing, total |-> 0,
                loading |-> b, error |-> FALSE, updating |-> Nothing, hint |-> Nothing,
                acked |-> [v \in Visit |-> 0], crossed |-> FALSE]
        PROVE AgendaType
    BY <2>1 DEF AgendaType
  <2>2. AgendaType
    <3> DEFINE b == isOpen("agenda")
    <3>1. b \in BOOLEAN
      BY DEF isOpen
    <3>2. 1 \in Nat \ {0}
      OBVIOUS
    <3>3. ag = [form |-> 1, applied |-> 1, page |-> 1, items |-> <<>>, of |-> Nothing, total |-> 0,
                loading |-> b, error |-> FALSE, updating |-> Nothing, hint |-> Nothing,
                acked |-> [v \in Visit |-> 0], crossed |-> FALSE]
      BY Zenon DEF Init, AgendaInit
    <3> HIDE DEF b
    <3> QED BY <2>1, <3>1, <3>2, <3>3, Zenon
  <2>3. <<>> \in [{} -> Hidden] /\ {} \in SUBSET Visit
    OBVIOUS
  <2>4. ASSUME NEW b \in BOOLEAN, NEW s \in [{} -> Hidden],
          rv = [list |-> s, loading |-> b, toggling |-> Nothing, doubled |-> FALSE]
        PROVE ReviewType
    BY <2>4 DEF ReviewType
  <2>5. ReviewType
    <3> DEFINE b == isOpen("reviews")
    <3>1. b \in BOOLEAN
      BY DEF isOpen
    <3>2. rv = [list |-> <<>>, loading |-> b, toggling |-> Nothing, doubled |-> FALSE]
      BY Zenon DEF Init, AgendaInit
    <3> HIDE DEF b
    <3> QED BY <2>3, <2>4, <3>1, <3>2, Zenon
  <2> QED BY <2>2, <2>5
<1>6. ClientsType
  <2>1. ASSUME NEW b \in BOOLEAN, NEW n \in Nat \ {0},
          cp = [q |-> NoFilter, typed |-> Client, timer |-> b, page |-> n,
                items |-> <<>>, total |-> 0, of |-> Nothing, loading |-> b,
                error |-> FALSE, failed |-> FALSE,
                selected |-> Nothing, detail |-> Nothing, detailLoading |-> FALSE,
                notes |-> Nothing, tags |-> Nothing, saving |-> {}, mixed |-> FALSE, overlapped |-> FALSE]
        PROVE ClientsType
    BY <2>1 DEF ClientsType, Text
  <2> DEFINE b == isOpen("clients")
  <2>2. b \in BOOLEAN
    BY DEF isOpen
  <2>3. 1 \in Nat \ {0}
    OBVIOUS
  <2>4. cp = [q |-> NoFilter, typed |-> Client, timer |-> b, page |-> 1,
              items |-> <<>>, total |-> 0, of |-> Nothing, loading |-> b,
              error |-> FALSE, failed |-> FALSE,
              selected |-> Nothing, detail |-> Nothing, detailLoading |-> FALSE,
              notes |-> Nothing, tags |-> Nothing, saving |-> {}, mixed |-> FALSE, overlapped |-> FALSE]
    BY Zenon DEF Init, ClientsInit
  <2> HIDE DEF b
  <2> QED BY <2>1, <2>2, <2>3, <2>4, Zenon
<1>7. SettingsType
  BY DEF Init, SettingsInit, SettingsType, isOpen
<1> QED BY <1>1, <1>2, <1>4, <1>5, <1>6, <1>7 DEF Types

\* and in every state that can be reached; TypeOK is a part of them.
THEOREM DeskTypes == Spec => []TypeOK
<1>1. Types => TypeOK
  <2> SUFFICES ASSUME Types PROVE TypeOK
    OBVIOUS
  <2>1. \A i \in DOMAIN calls : calls[i].pc \in {"sent", "read", "written", "done"}
    BY DEF Types, CallsType, CallType
  <2>2. mp.phase \in {"loading", "ready", "lost"} /\ mp.open \in {"", "cancel", "reschedule"}
        /\ mp.busy \in {"", "confirm", "cancel", "reschedule", "review"}
    BY DEF Types, ManageType
  <2>3. ag.updating \in Visit \cup {Nothing} /\ ag.hint \in Visit \cup {Nothing} /\ ag.page \in Nat \ {0}
    BY DEF Types, AgendaType
  <2>4. cp.selected \in Client \cup {Nothing} /\ cp.saving \subseteq {"notes", "consent", "profile"}
    BY DEF Types, ClientsType, Text
  <2>5. sp.saving \subseteq Forms /\ sp.typed \subseteq Forms
    BY DEF Types, SettingsType
  <2> QED BY <2>1, <2>2, <2>3, <2>4, <2>5 DEF Types, TablesType, TypeOK
<1> QED BY <1>1, TypesInit, TypesStay, PTL DEF Spec

--------------------------------------------------------------------------------
(* Segments.                                                               *)

\* Whole days against an instant.
LEMMA DaysAgainstCutoff ==
  ASSUME TablesType, NEW t \in Nat, NEW days \in Nat
  PROVE  daysSince(t) >= days <=> t <= cutoff(days)
<1>1. ASSUME NEW x \in Int, NEW d \in Nat, d > 0 PROVE x \div d >= days <=> x >= days * d
  BY <1>1
<1>2. DAY \in Nat /\ DAY > 0 /\ now - t \in Int /\ days * DAY \in Int /\ now \in Nat
  BY DeskAssumption DEF TablesType
<1>3. now - t >= days * DAY <=> t <= now - days * DAY
  BY <1>2
<1> QED BY <1>1, <1>2, <1>3 DEF daysSince, cutoff

\* The last of some visits has a time.
LEMMA LastOfVisits ==
  ASSUME TablesType, NEW V, V \subseteq Visit, V # {}
  PROVE  Max(Times(V)) \in Times(V) /\ Times(V) \subseteq Nat
<1>0. Times(V) \subseteq Nat /\ \A v \in V : visit[v].at \in Nat
  BY DEF Times, TablesType, VisitRow
<1> DEFINE After(v) == {u \in V : visit[u].at > visit[v].at}
           T == {After(v) : v \in V}
<1>1. IsFiniteSet(V)
  BY DeskAssumption, FS_Subset
<1>2. IsWellFoundedOn(StrictSubsetOrdering(V), SUBSET V)
  BY <1>1, FS_StrictSubsetOrderingWellFounded, FS_FiniteSubsetsOfFinite, Zenon
<1>3. T \subseteq SUBSET V /\ T # {}
  OBVIOUS
<1>4. PICK X \in T : \A Y \in T : <<Y, X>> \notin StrictSubsetOrdering(V)
  <2> HIDE DEF T
  <2> QED BY <1>2, <1>3, WFMin
<1>5. PICK v \in V : X = After(v)
  BY <1>4
<1>6. ASSUME NEW u \in V PROVE visit[u].at <= visit[v].at
  <2> SUFFICES ASSUME visit[u].at > visit[v].at PROVE FALSE
    BY <1>0
  <2>1. After(u) \subseteq After(v) /\ u \in After(v) /\ u \notin After(u)
    BY <1>0
  <2>2. <<After(u), After(v)>> \in StrictSubsetOrdering(V)
    BY <2>1 DEF StrictSubsetOrdering
  <2> QED BY <1>4, <1>5, <2>2
<1>7. visit[v].at \in Times(V) /\ \A y \in Times(V) : visit[v].at >= y
  BY <1>0, <1>6 DEF Times
<1> QED BY <1>0, <1>7 DEF Max

\* The label computed for the list and the CASE that filters it give every client
\* the same segment, whatever the thresholds and at whatever moment of the day
\* (client-segment.ts:49-71, clients.service.ts:400-420).
THEOREM SegmentsAlwaysAgree == Spec => []SegmentsAgree
<1>1. ASSUME Types PROVE SegmentsAgree
  <2> SUFFICES ASSUME NEW c \in Client PROVE resolveClientSegment(c) = rankedSegment(c)
    BY DEF SegmentsAgree
  <2>0. TablesType
    BY <1>1 DEF Types
  <2> DEFINE done == ofClient(c, {"COMPLETED"})
             n == Cardinality(done)
             last == IF done = {} THEN NoTime ELSE Max(Times(done))
             spent == Spent(done)
             made == createdAt(c)
  <2>1. /\ loadClientMetrics(c).completedCount = n /\ loadClientMetrics(c).totalSpentCents = spent
        /\ loadClientMetrics(c).lastVisit = last
    BY DEF loadClientMetrics
  <2>2. done \subseteq Visit /\ IsFiniteSet(done)
    <3>1. done \subseteq Visit
      BY DEF ofClient
    <3> QED BY <3>1, DeskAssumption, FS_Subset
  <2>3. n \in Nat /\ (n = 0 <=> done = {})
    BY <2>2, FS_CardinalityType, FS_EmptySet
  <2>4. n # 0 => last \in Nat
    BY <2>0, <2>2, <2>3, LastOfVisits
  <2>5. made \in Nat
    BY <2>0, LimitsAssumption DEF createdAt, TablesType
  <2>6. AT_RISK_DAYS \in Nat /\ INACTIVE_DAYS \in Nat
    BY DeskAssumption
  <2>7. daysSince(made) >= INACTIVE_DAYS <=> made <= cutoff(INACTIVE_DAYS)
    BY <2>0, <2>5, <2>6, DaysAgainstCutoff
  <2>8. n # 0 => /\ daysSince(last) >= INACTIVE_DAYS <=> last <= cutoff(INACTIVE_DAYS)
                 /\ daysSince(last) >= AT_RISK_DAYS <=> last <= cutoff(AT_RISK_DAYS)
    BY <2>0, <2>4, <2>6, DaysAgainstCutoff
  <2>9. daysSince(last) \in Int \/ n = 0
    BY <2>0, <2>4, DeskAssumption DEF daysSince, TablesType
  <2> HIDE DEF done, n, last, spent, made
  <2>10. CASE n = 0
    BY <2>1, <2>7, <2>10 DEF resolveClientSegment, rankedSegment, made
  <2>11. CASE n # 0
    <3> DEFINE rank == IF n >= VIP_MIN_VISITS \/ spent >= VIP_MIN_SPENT_CENTS THEN "vip"
                       ELSE IF n >= FREQUENT_MIN_VISITS THEN "frequent" ELSE "new"
    <3>1. resolveClientSegment(c) =
            IF daysSince(last) >= INACTIVE_DAYS THEN "inactive"
            ELSE IF daysSince(last) >= AT_RISK_DAYS THEN "at_risk" ELSE rank
      BY <2>1, <2>9, <2>6, <2>11 DEF resolveClientSegment
    <3>2. rankedSegment(c) =
            IF last <= cutoff(INACTIVE_DAYS) THEN "inactive"
            ELSE IF last <= cutoff(AT_RISK_DAYS) THEN "at_risk" ELSE rank
      BY <2>1, <2>3, <2>11 DEF rankedSegment
    <3> QED BY <2>8, <2>11, <3>1, <3>2
  <2> QED BY <2>10, <2>11
<1> QED BY <1>1, TypesInit, TypesStay, PTL DEF Spec

--------------------------------------------------------------------------------
(* One step, seen from one page.                                           *)

\* Of the requests a page has after a step, each is a new one or one of before.
LEMMA FollowsOld ==
  ASSUME NEW page, NEW s, NEW t, NEW gone, NEW new, Follows(page, s, t, gone, new)
  PROVE  /\ \A j \in At(page, t) : j \in new \/ \E i \in At(page, s) \ gone : t[j] = s[i]
         /\ \A i \in At(page, s) \ gone : \E j \in At(page, t) \ new : t[j] = s[i]
BY DEF Follows

\* A page sends a request,
LEMMA OwnSend ==
  ASSUME CallsType, NEW c, calls' = Append(calls, c), NEW page
  PROVE  /\ c.from = page => \E n : Follows(page, calls, calls', {}, {n}) /\ calls'[n] = c
         /\ c.from # page => Keeps(page)
<1> DEFINE n == Len(calls) + 1
<1>1. Follows(page, calls, calls', {}, Added(page, c, n)) /\ calls'[n] = c
  BY FollowsAppend, AppendFacts DEF CallsType
<1> HIDE DEF n
<1> QED BY <1>1 DEF Added, Keeps

\* takes an answer,
LEMMA OwnTake ==
  ASSUME CallsType, NEW i \in DOMAIN calls, calls' = Others(i), NEW page
  PROVE  /\ Follows(page, calls, calls', {i}, {})
         /\ calls[i].from # page => Keeps(page)
<1>1. Follows(page, calls, calls', {i}, {})
  BY FollowsRemove DEF CallsType, Others
<1>2. calls[i].from # page => i \notin At(page, calls)
  BY DEF At
<1> QED BY <1>1, <1>2, FollowsElsewhere DEF Keeps

\* or sends the next one for it.
LEMMA NextSent ==
  ASSUME CallsType, NEW i \in DOMAIN calls, NEW c, calls' = Append(Others(i), c), NEW page
  PROVE  LET n == Len(Others(i)) + 1
         IN Follows(page, calls, calls', {i}, Added(page, c, n)) /\ calls'[n] = c
<1> DEFINE s == Others(i)
           n == Len(s) + 1
<1>1. IsSeqOf(s) /\ IsSeqOf(calls) /\ Follows(page, calls, s, {i}, {})
  BY TypedTake, FollowsRemove DEF CallsType, Others
<1>2. calls' = Append(s, c)
  OBVIOUS
<1> HIDE DEF s
<1>3. IsSeqOf(calls') /\ calls'[n] = c /\ Follows(page, s, calls', {}, Added(page, c, n))
  BY <1>1, <1>2, FollowsAppend, AppendFacts
<1> HIDE DEF n
<1>4. Follows(page, calls, calls', {i}, Added(page, c, n))
  BY <1>1, <1>3, FollowsTwice
<1> QED BY <1>3, <1>4 DEF n, s

\* That is nothing to the other pages.
LEMMA OthersChange ==
  ASSUME CallsType, NEW i \in DOMAIN calls, NEW c, calls' = Append(Others(i), c), NEW page,
         c.from # page, calls[i].from # page
  PROVE  Keeps(page)
<1> DEFINE n == Len(Others(i)) + 1
<1>1. Follows(page, calls, calls', {i}, Added(page, c, n))
  BY NextSent
<1> HIDE DEF n
<1>2. i \notin At(page, calls)
  BY DEF At
<1> QED BY <1>1, <1>2, FollowsElsewhere DEF Added, Keeps

\* What a page may do to the requests.
Moves(page) ==
  \/ UNCHANGED calls
  \/ \E c : c.from = page /\ calls' = Append(calls, c)
  \/ \E i \in DOMAIN calls :
       /\ calls[i].from = page
       /\ calls' = Others(i) \/ \E c : c.from = page /\ calls' = Append(Others(i), c)

\* It leaves those of the others.
LEMMA MovesKeep ==
  ASSUME CallsType, NEW page, Moves(page), NEW other, other # page
  PROVE  Keeps(other)
<1>1. CASE UNCHANGED calls
  BY <1>1, FollowsSame DEF Keeps
<1>2. CASE \E c : c.from = page /\ calls' = Append(calls, c)
  BY <1>2, OwnSend
<1>3. ASSUME NEW i \in DOMAIN calls, calls[i].from = page, calls' = Others(i) PROVE Keeps(other)
  BY <1>3, OwnTake
<1>4. ASSUME NEW i \in DOMAIN calls, calls[i].from = page, NEW c, c.from = page, calls' = Append(Others(i), c)
      PROVE  Keeps(other)
  BY <1>4, OthersChange
<1> QED BY <1>1, <1>2, <1>3, <1>4 DEF Moves

\* A request that changes in its place leaves those of the others.
LEMMA MarksKeep ==
  ASSUME CallsType, NEW i \in DOMAIN calls, NEW c, c.from = calls[i].from,
         calls' = [calls EXCEPT ![i] = c], NEW other, other # calls[i].from
  PROVE  Keeps(other)
BY FollowsExcept DEF CallsType, Keeps

\* One that is answered stays its page's.
LEMMA MarksFrom ==
  ASSUME CallsType, NEW i \in DOMAIN calls, NEW p, NEW r, Marks(i, p, r)
  PROVE  \E c : c.from = calls[i].from /\ calls' = [calls EXCEPT ![i] = c]
<1> DEFINE all == [calls EXCEPT ![i] = calls'[i]]
<1>1. calls' = all
  BY ReplyFacts
<1> HIDE DEF all
<1>2. calls'[i] = [from |-> calls[i].from, kind |-> calls[i].kind, arg |-> calls[i].arg,
                   then |-> calls[i].then, pc |-> p, res |-> r]
  BY ReplyFacts
<1>3. calls'[i].from = calls[i].from
  BY <1>2
<1> QED BY <1>1, <1>3, Zenon DEF all

\* What the pages do to the requests.
LEMMA ManageMoves ==
  /\ ManageClicks => Moves("manage")
  /\ \A i \in DOMAIN calls : ManageReply(i) => Moves("manage")
<1>0. \A kind, arg, then : Send(kind, arg, then).from = "manage"
  BY DEF Send, Call
<1>1. ASSUME NEW p, NEW cs, NEW k, NEW d, NEW then, loadSlots(p, cs, d, then)
      PROVE  \E c : c.from = "manage" /\ calls' = Append(cs, c)
  BY <1>0, <1>1 DEF loadSlots
<1>2. ASSUME NEW p, Effect(p, calls) PROVE Moves("manage")
  BY <1>1, <1>2 DEF Effect, Moves
<1>3. ASSUME NEW kind, NEW arg, Submit(kind, arg) PROVE Moves("manage")
  BY <1>0, <1>3 DEF Submit, Moves
<1>4. ManageClicks => Moves("manage")
  <2>1. (\E m \in {"cancel", "reschedule"} : Toggle(m)) => Moves("manage")
    BY <1>2 DEF Toggle
  <2>2. /\ (\E d \in limits.days \cup {NoTime} : ChangeDate(d)) => Moves("manage")
        /\ (\E d \in limits.days : PickSlot(d)) => Moves("manage")
    BY <1>2 DEF ChangeDate, PickSlot, Moves
  <2>3. CloseModal => Moves("manage")
    BY <1>2 DEF CloseModal
  <2>4. confirmPresence \/ cancelAppointment \/ reschedule \/ submitReview => Moves("manage")
    BY <1>3 DEF confirmPresence, cancelAppointment, reschedule, submitReview
  <2> QED BY <2>1, <2>2, <2>3, <2>4 DEF ManageClicks
<1>5. ASSUME NEW i \in DOMAIN calls, ManageReply(i) PROVE Moves("manage")
  <2>1. CASE LoadReply(i) \/ SlotsReply(i)
    BY <2>1 DEF LoadReply, SlotsReply, Answers, Moves
  <2>2. ASSUME NEW kind, MutationReply(i, kind) PROVE Moves("manage")
    <3>1. calls[i].from = "manage"
      BY <2>2 DEF MutationReply, Answers
    <3>2. calls' = Others(i) \/ \E c : c.from = "manage" /\ calls' = Append(Others(i), c)
      <4>1. \/ calls' = Others(i) \/ calls' = Append(Others(i), Send("get", Nothing, calls[i].kind))
            \/ loadSlots(mp, Others(i), calls[i].arg.shown, kind)
        BY <2>2, Zenon DEF MutationReply, Changed, load
      <4> QED BY <1>0, <1>1, <4>1
    <3> QED BY <3>1, <3>2 DEF Moves
  <2> QED BY <1>5, <2>1, <2>2 DEF ManageReply
<1> QED BY <1>4, <1>5

\* The agenda's clicks are its own and so are the reviews'.
ReviewClick == \E v \in DOMAIN rv.list : togglePublished(v)
AgendaClick ==
  \/ \E f \in DOMAIN limits.filters : ChooseFilter(f)
  \/ applyFilter \/ dismissHint
  \/ \E by \in {-1, 1} : TurnPage(by)
  \/ \E n \in DOMAIN ag.items, to \in limits.statuses : updateStatus_Click(ag.items[n], to)

\* These two pages do not touch each other.
LEMMA AgendaMoves ==
  /\ AgendaClick => Moves("agenda") /\ UNCHANGED rv
  /\ ReviewClick => Moves("reviews") /\ UNCHANGED ag
  /\ \A i \in DOMAIN calls : /\ StatusReply(i) \/ AgendaReply(i) => Moves("agenda") /\ UNCHANGED rv
                             /\ ReviewsReply(i) \/ PublishReply(i) => Moves("reviews") /\ UNCHANGED ag
<1>0. \A q, then : AgendaCall(q, then).from = "agenda"
  BY DEF AgendaCall, Call
<1>1. ASSUME NEW a, AgendaEffect(a) PROVE Moves("agenda")
  BY <1>0, <1>1 DEF AgendaEffect, Moves
<1>2. AgendaClick => Moves("agenda") /\ UNCHANGED rv
  <2>1. (\E n \in DOMAIN ag.items, to \in limits.statuses : updateStatus_Click(ag.items[n], to))
          => Moves("agenda") /\ UNCHANGED rv
    BY DEF updateStatus_Click, Moves, Call
  <2>2. (\E by \in {-1, 1} : TurnPage(by)) => Moves("agenda") /\ UNCHANGED rv
    BY <1>1 DEF TurnPage
  <2>3. (\E f \in DOMAIN limits.filters : ChooseFilter(f)) \/ dismissHint => Moves("agenda") /\ UNCHANGED rv
    BY DEF ChooseFilter, dismissHint, Moves
  <2>4. applyFilter => Moves("agenda") /\ UNCHANGED rv
    BY <1>1 DEF applyFilter
  <2> QED BY <2>1, <2>2, <2>3, <2>4 DEF AgendaClick
<1>3. ReviewClick => Moves("reviews") /\ UNCHANGED ag
  BY DEF ReviewClick, togglePublished, Moves, Call
<1>4. ASSUME NEW i \in DOMAIN calls, StatusReply(i) \/ AgendaReply(i) PROVE Moves("agenda") /\ UNCHANGED rv
  <2>1. calls[i].from = "agenda" /\ UNCHANGED rv
    BY <1>4 DEF StatusReply, AgendaReply, Answers
  <2>2. calls' = Others(i) \/ \E c : c.from = "agenda" /\ calls' = Append(Others(i), c)
    BY <1>0, <1>4 DEF StatusReply, AgendaReply
  <2> QED BY <2>1, <2>2 DEF Moves
<1>5. ASSUME NEW i \in DOMAIN calls, ReviewsReply(i) \/ PublishReply(i) PROVE Moves("reviews") /\ UNCHANGED ag
  BY <1>5 DEF ReviewsReply, PublishReply, Answers, Moves
<1> QED BY <1>2, <1>3, <1>4, <1>5

\* The clients' page, its timer too, and the settings touch their own requests only.
LEMMA ClientsMoves ==
  /\ ClientsClicks \/ Debounce => Moves("clients")
  /\ \A i \in DOMAIN calls : ClientsReply(i) => Moves("clients")
<1>1. ASSUME NEW p, loadList(p) PROVE Moves("clients")
  BY <1>1 DEF loadList, ListCall, Call, Moves
<1>2. ASSUME NEW kind, NEW arg, Save(kind, arg) PROVE Moves("clients")
  BY <1>2 DEF Save, Call, Moves
<1>3. ClientsClicks => Moves("clients")
  <2>1. (\E s \in limits.searches : TypeSearch(s)) \/ Back
          \/ (\E text \in Client \cup {Nothing} : EditNotes(text) \/ EditTags(text)) => Moves("clients")
    BY DEF TypeSearch, Back, EditNotes, EditTags, Moves
  <2>2. /\ (\E s \in limits.segments : ChooseSegment(s)) => Moves("clients")
        /\ (\E n \in limits.inactive : ChooseInactive(n)) => Moves("clients")
        /\ ClearFilters => Moves("clients")
        /\ (\E by \in {-1, 1} : TurnList(by)) => Moves("clients")
    BY <1>1 DEF ChooseSegment, ChooseInactive, ClearFilters, TurnList
  <2>3. saveNotes \/ toggleMarketingConsent \/ saveProfile => Moves("clients")
    BY <1>2 DEF saveNotes, toggleMarketingConsent, saveProfile
  <2>4. (\E n \in DOMAIN cp.items : openDetail(cp.items[n].id)) => Moves("clients")
    BY DEF openDetail, Moves, Call
  <2> QED BY <2>1, <2>2, <2>3, <2>4 DEF ClientsClicks
<1>4. Debounce => Moves("clients")
  BY <1>1 DEF Debounce
<1>5. ASSUME NEW i \in DOMAIN calls, ClientsReply(i) PROVE Moves("clients")
  BY <1>5 DEF ClientsReply, ListReply, CardReply, NotesReply, ConsentReply, ProfileReply, SaveReply, Answers, Moves
<1> QED BY <1>3, <1>4, <1>5

\* The settings likewise.
LEMMA SettingsMoves ==
  /\ SettingsClicks => Moves("settings")
  /\ \A i \in DOMAIN calls : SettingsPageReply(i) => Moves("settings")
<1>1. SettingsClicks => Moves("settings")
  BY DEF SettingsClicks, SaveForm, Type, Call, Moves
<1>2. ASSUME NEW i \in DOMAIN calls, SettingsPageReply(i) PROVE Moves("settings")
  BY <1>2 DEF SettingsPageReply, SettingsReply, SaveFormReply, Answers, Moves
<1> QED BY <1>1, <1>2

\* A request whose handler goes on; and what serving a request does to the tables: only a rescheduling moves the appointment
\* of the link, a changed row has a new version, and each page's tables are its own.
Reads(i) ==
  /\ calls[i].kind \in StepKinds /\ calls[i].pc = "sent" /\ Served(i) /\ UNCHANGED visit
  /\ \E r \in Status : Marks(i, "read", r)
Effects(i) ==
  /\ limits' = limits /\ faults' = faults
  /\ \A v \in Visit : visit[v].ver <= visit'[v].ver
  /\ calls[i].kind = "reschedule" \/ visit'[Mine].at = visit[Mine].at
  /\ \A v \in Visit : \/ visit'[v].review = visit[v].review
                      \/ visit[v].review = "none" /\ calls[i].kind = "review"
                      \/ calls[i].kind = "publish"
  /\ calls[i].kind \in {"notes", "consent", "profile"} \/ card' = card
  /\ calls[i].kind = "save" \/ tenant' = tenant
  /\ (\E r : Reply(i, r)) \/ Reads(i) \/ (calls[i].kind = "save" /\ calls' = [calls EXCEPT ![i].pc = "written"])

\* So it is.
LEMMA ServeEffects ==
  ASSUME Types, NEW i \in DOMAIN calls, Serve(i)
  PROVE  Effects(i)
<1>0. visit \in [Visit -> VisitRow] /\ Mine \in Visit /\ CallType(calls[i])
  BY DeskAssumption DEF Types, TablesType, CallsType
<1>1. \A v \in Visit : visit[v].ver \in Nat /\ visit[v].ver <= visit[v].ver + 1
                       /\ visit[v].ver <= visit[v].ver
  BY <1>0 DEF VisitRow
<1>2. ASSUME NEW v \in Visit, NEW row \in VisitRow, Write(v, row)
      PROVE  /\ \A u \in Visit : visit[u].ver <= visit'[u].ver
             /\ \A u \in Visit : u # v => visit'[u] = visit[u]
             /\ visit'[v].at = row.at /\ visit'[v].review = row.review
  BY <1>0, <1>2, WrittenRows
<1>3. CASE UNCHANGED <<limits, tables, counters>> /\ \E r : Reply(i, r)
  BY <1>1, <1>3 DEF Effects, tables, counters
<1>4. CASE quietTables /\ UNCHANGED visit /\ \E r : Reply(i, r)
  BY <1>1, <1>4 DEF Effects, quietTables, counters
<1>5. CASE getByManageToken(i) \/ getPublicSlots(i) \/ listReviews(i)
  <2>1. UNCHANGED <<limits, tables, counters>> /\ \E r : Reply(i, r)
    BY <1>5 DEF getByManageToken, getPublicSlots, listReviews, Read
  <2> QED BY <1>3, <2>1
<1>6. CASE listAppointments(i) \/ listClients(i) \/ clientDetail(i)
  <2>1. UNCHANGED <<limits, tables, counters>> /\ \E r : Reply(i, r)
    BY <1>6 DEF listAppointments, listClients, clientDetail, Read
  <2> QED BY <1>3, <2>1
<1>7. CASE getSettings(i)
  BY <1>3, <1>7 DEF getSettings
<1>8. ASSUME NEW v \in Visit, NEW row \in VisitRow, quietTables, Write(v, row), NEW r, Reply(i, r),
             calls[i].kind = "reschedule" \/ row.at = visit[v].at,
             \/ row.review = visit[v].review
             \/ visit[v].review = "none" /\ calls[i].kind = "review"
             \/ calls[i].kind = "publish"
      PROVE  Effects(i)
  <2>1. /\ \A u \in Visit : visit[u].ver <= visit'[u].ver
        /\ \A u \in Visit : u # v => visit'[u] = visit[u]
        /\ visit'[v].at = row.at /\ visit'[v].review = row.review
    BY <1>2, <1>8
  <2>2. \A u \in Visit : \/ visit'[u].review = visit[u].review
                         \/ visit[u].review = "none" /\ calls[i].kind = "review"
                         \/ calls[i].kind = "publish"
    BY <1>8, <2>1
  <2>3. calls[i].kind = "reschedule" \/ visit'[Mine].at = visit[Mine].at
    BY <1>0, <1>8, <2>1
  <2> QED BY <1>8, <2>1, <2>2, <2>3 DEF Effects, quietTables, counters
<1>9. ASSUME NEW v \in Visit, NEW s \in Status, quietTables, Write(v, [visit[v] EXCEPT !.status = s]),
             NEW r, Reply(i, r)
      PROVE  Effects(i)
  <2> DEFINE row == [visit[v] EXCEPT !.status = s]
  <2>1. row \in VisitRow /\ row.at = visit[v].at /\ row.review = visit[v].review
    BY <1>0 DEF VisitRow
  <2>2. Write(v, row)
    BY <1>9
  <2> HIDE DEF row
  <2> QED BY <1>8, <1>9, <2>1, <2>2
<1>10. ASSUME NEW v \in Visit, Decide(i, v) \/ (\E n : Refuse(i, n)), quietTables,
              calls[i].kind \in StepKinds, calls[i].pc = "sent", Served(i)
       PROVE  Effects(i)
  <2>1. CASE Decide(i, v)
    <3>1. visit[v].status \in Status
      BY <1>0 DEF VisitRow
    <3>2. Reads(i)
      BY <1>10, <2>1, <3>1 DEF Decide, Reads, Marks
    <3> QED BY <1>1, <1>10, <3>2 DEF Effects, Reads, quietTables, counters
  <2>2. CASE \E n : Refuse(i, n)
    BY <1>4, <1>10, <2>2 DEF Refuse
  <2> QED BY <1>10, <2>1, <2>2
<1>11. CASE ManageChecks(i)
  <2>1. /\ calls[i].kind \in {"confirm", "cancel", "reschedule", "review"} /\ calls[i].pc = "sent" /\ Served(i)
        /\ quietTables
        /\ \/ Decide(i, Mine) \/ (\E n : Refuse(i, n))
           \/ UNCHANGED visit /\ Reply(i, Ok([at |-> visit[Mine].at]))
    BY <1>11, ManageChecksAre
  <2>2. calls[i].kind \in StepKinds
    BY <2>1 DEF StepKinds
  <2> QED BY <1>0, <1>4, <1>10, <2>1, <2>2
<1>12. CASE updateStatus(i)
  <2>1. /\ calls[i].kind \in StepKinds /\ calls[i].pc = "sent" /\ Served(i) /\ quietTables
        /\ Decide(i, calls[i].arg.id) \/ (\E n : Refuse(i, n))
    BY <1>12 DEF updateStatus, Is, StepKinds
  <2>2. calls[i].arg.id \in Visit
    BY <1>0, <1>12 DEF updateStatus, Is, CallType, CarriesOf
  <2> QED BY <1>10, <2>1, <2>2
<1>13. CASE confirmWrite(i) \/ cancelWrite(i) \/ statusWrite(i)
  <2> DEFINE Writes(v, st) == UNCHANGED visit \/ Write(v, [visit[v] EXCEPT !.status = st])
  <2>1. quietTables /\ \E x : Reply(i, x)
    BY <1>13 DEF confirmWrite, cancelWrite, statusWrite, ById, Refuse
  <2>2. PICK v \in Visit, st \in Status : Writes(v, st)
    <3>1. "CONFIRMED" \in Status /\ "CANCELLED" \in Status
      BY DEF Status
    <3>2. CASE confirmWrite(i)
      <4>1. Writes(Mine, "CONFIRMED")
        BY <3>2 DEF confirmWrite, ById, Refuse
      <4> HIDE DEF Writes
      <4> QED BY <1>0, <3>1, <4>1
    <3>3. CASE cancelWrite(i)
      <4>1. Writes(Mine, "CANCELLED")
        BY <3>3 DEF cancelWrite, ById, Refuse
      <4> HIDE DEF Writes
      <4> QED BY <1>0, <3>1, <4>1
    <3>4. CASE statusWrite(i)
      <4>1. calls[i].kind = "status" /\ Writes(calls[i].arg.id, calls[i].arg.to)
        BY <3>4 DEF statusWrite, ById, Refuse
      <4>2. calls[i].arg.id \in Visit /\ calls[i].arg.to \in Status
        BY <1>0, <4>1 DEF CallType, CarriesOf
      <4> HIDE DEF Writes
      <4> QED BY <4>1, <4>2
    <3> QED BY <1>13, <3>2, <3>3, <3>4
  <2> QED BY <1>4, <1>9, <2>1, <2>2
<1>14. CASE rescheduleWrite(i) \/ reviewWrite(i)
  <2>1. CASE rescheduleWrite(i)
    <3> DEFINE to == calls[i].arg.to
               st == afterMove(calls[i].res)
               row == [visit[Mine] EXCEPT !.at = to, !.status = st]
    <3>1. calls[i].kind = "reschedule" /\ calls[i].pc = "read" /\ quietTables /\ \E x : Reply(i, x)
      BY <2>1 DEF rescheduleWrite, ById, Refuse
    <3>2. UNCHANGED visit \/ Write(Mine, row)
      BY <2>1 DEF rescheduleWrite, ById, Refuse
    <3>3. to \in Nat /\ calls[i].res \in Status
      BY <1>0, <3>1 DEF CallType, CarriesOf
    <3>4. st \in Status
      BY <3>3 DEF afterMove, Status
    <3> HIDE DEF to, st
    <3>5. row \in VisitRow /\ row.review = visit[Mine].review
      BY <1>0, <3>3, <3>4 DEF VisitRow
    <3> HIDE DEF row
    <3> QED BY <1>0, <1>4, <1>8, <3>1, <3>2, <3>5
  <2>2. CASE reviewWrite(i)
    <3> DEFINE row == [visit[Mine] EXCEPT !.review = "shown"]
    <3>1. quietTables /\ calls[i].kind = "review" /\ \E x : Reply(i, x)
      BY <2>2 DEF reviewWrite, Refuse
    <3>2. UNCHANGED visit \/ (visit[Mine].review = "none" /\ Write(Mine, row))
      BY <2>2 DEF reviewWrite, Refuse
    <3>3. row \in VisitRow /\ row.at = visit[Mine].at
      BY <1>0 DEF VisitRow
    <3> HIDE DEF row
    <3> QED BY <1>0, <1>4, <1>8, <3>1, <3>2, <3>3
  <2> QED BY <1>14, <2>1, <2>2
<1>15. CASE updateReview(i)
  <2> DEFINE v == calls[i].arg.id
             row == [visit[v] EXCEPT !.review = calls[i].arg.to]
  <2>1. quietTables /\ calls[i].kind = "publish" /\ Write(v, row) /\ \E r : Reply(i, r)
    BY <1>15 DEF updateReview, Is
  <2>2. v \in Visit /\ calls[i].arg.to \in Hidden
    BY <1>0, <2>1 DEF CallType, CarriesOf
  <2>3. row \in VisitRow /\ row.at = visit[v].at
    BY <1>0, <2>2 DEF VisitRow, Hidden
  <2> HIDE DEF v, row
  <2> QED BY <1>8, <2>1, <2>2, <2>3
<1>16. CASE updateNotes(i) \/ updateMarketingConsent(i) \/ updateProfile(i)
  BY <1>1, <1>16 DEF updateNotes, updateMarketingConsent, updateProfile, WriteCard, Is, Effects, counters
<1>17. CASE updateSettings(i)
  BY <1>1, <1>17 DEF updateSettings, Is, Effects, counters
<1> QED BY <1>5, <1>6, <1>7, <1>11, <1>12, <1>13, <1>14, <1>15, <1>16, <1>17 DEF Serve, ManageChecks

\* Each kind of request has its handler.
LEMMA HandlerOf ==
  ASSUME NEW i, Serve(i)
  PROVE  /\ calls[i].kind \notin SettingsKinds => calls[i].pc \in {"sent", "read"} /\ Served(i)
         /\ calls[i].kind \notin SettingsKinds \cup StepKinds => calls[i].pc = "sent"
         /\ calls[i].kind = "get" => getByManageToken(i)
         /\ calls[i].kind = "slots" => getPublicSlots(i)
         /\ calls[i].kind = "confirm" => confirmByToken(i) \/ confirmWrite(i)
         /\ calls[i].kind = "cancel" => cancelByToken(i) \/ cancelWrite(i)
         /\ calls[i].kind = "reschedule" => rescheduleByToken(i) \/ rescheduleWrite(i)
         /\ calls[i].kind = "review" => reviewByToken(i) \/ reviewWrite(i)
         /\ calls[i].kind = "agenda" => listAppointments(i)
         /\ calls[i].kind = "status" => updateStatus(i) \/ statusWrite(i)
         /\ calls[i].kind = "reviews" => listReviews(i)
         /\ calls[i].kind = "publish" => updateReview(i)
         /\ calls[i].kind = "list" => listClients(i)
         /\ calls[i].kind = "card" => clientDetail(i)
         /\ calls[i].kind = "notes" => updateNotes(i)
         /\ calls[i].kind = "consent" => updateMarketingConsent(i)
         /\ calls[i].kind = "profile" => updateProfile(i)
         /\ calls[i].kind \in SettingsKinds => getSettings(i) \/ updateSettings(i)
<1>1. getByManageToken(i) => Is(i, "get")
  BY DEF getByManageToken, Read
<1>2. getPublicSlots(i) => Is(i, "slots")
  BY DEF getPublicSlots, Read
<1>3. confirmByToken(i) => Is(i, "confirm")
  BY DEF confirmByToken
<1>4. cancelByToken(i) => Is(i, "cancel")
  BY DEF cancelByToken
<1>5. rescheduleByToken(i) => Is(i, "reschedule")
  BY DEF rescheduleByToken
<1>6. reviewByToken(i) => Is(i, "review")
  BY DEF reviewByToken
<1>7. listAppointments(i) => Is(i, "agenda")
  BY DEF listAppointments
<1>8. updateStatus(i) => Is(i, "status")
  BY DEF updateStatus
<1>9. listReviews(i) => Is(i, "reviews")
  BY DEF listReviews, Read
<1>10. updateReview(i) => Is(i, "publish")
  BY DEF updateReview
<1>11. listClients(i) => Is(i, "list")
  BY DEF listClients
<1>12. clientDetail(i) => Is(i, "card")
  BY DEF clientDetail, Read
<1>13. updateNotes(i) => Is(i, "notes")
  BY DEF updateNotes, WriteCard
<1>14. updateMarketingConsent(i) => Is(i, "consent")
  BY DEF updateMarketingConsent, WriteCard
<1>15. updateProfile(i) => Is(i, "profile")
  BY DEF updateProfile, WriteCard
<1>16. getSettings(i) \/ updateSettings(i) => calls[i].kind \in SettingsKinds
  BY DEF getSettings, updateSettings, Is, SettingsKinds
<1> DEFINE Wrote(kind) == calls[i].kind = kind /\ calls[i].pc = "read" /\ Served(i)
<1>17. /\ confirmWrite(i) => Wrote("confirm")
       /\ cancelWrite(i) => Wrote("cancel")
       /\ rescheduleWrite(i) => Wrote("reschedule")
       /\ reviewWrite(i) => Wrote("review")
       /\ statusWrite(i) => Wrote("status")
  BY DEF confirmWrite, cancelWrite, rescheduleWrite, reviewWrite, statusWrite, ById
<1> QED BY <1>1, <1>2, <1>3, <1>4, <1>5, <1>6, <1>7, <1>8, <1>9, <1>10, <1>11, <1>12, <1>13, <1>14, <1>15, <1>16, <1>17
       DEF Serve, Is, SettingsKinds, StepKinds

\* A page's own steps.
PageSteps(page) ==
  \/ page = "manage" /\ isOpen(page) /\ (ManageClicks \/ \E i \in DOMAIN calls : ManageReply(i))
  \/ page = "agenda" /\ (AgendaClick \/ \E i \in DOMAIN calls : StatusReply(i) \/ AgendaReply(i))
  \/ page = "reviews" /\ (ReviewClick \/ \E i \in DOMAIN calls : ReviewsReply(i) \/ PublishReply(i))
  \/ page = "clients" /\ isOpen(page) /\ (ClientsClicks \/ Debounce \/ \E i \in DOMAIN calls : ClientsReply(i))
  \/ page = "settings" /\ isOpen(page) /\ (SettingsClicks \/ \E i \in DOMAIN calls : SettingsPageReply(i))

\* What the other steps leave of a page and of the tables it shows.
SamePage(page) ==
  /\ page = "manage" => UNCHANGED mp
  /\ page = "agenda" => UNCHANGED ag
  /\ page = "reviews" => UNCHANGED rv
  /\ page = "clients" => UNCHANGED cp
  /\ page = "settings" => UNCHANGED sp
SameTables(page) ==
  /\ limits' = limits /\ (faults' = 0 => faults = 0)
  /\ \A v \in Visit : visit[v].ver <= visit'[v].ver
  /\ page = "manage" => visit'[Mine].at = visit[Mine].at
  /\ page = "reviews" => \A v \in Visit : visit'[v].review = visit[v].review \/ visit[v].review = "none"
  /\ page = "clients" => card' = card
  /\ page = "settings" => tenant' = tenant
Untouched == UNCHANGED <<limits, tables, faults>>

\* The tables stay the same, for one.
LEMMA UntouchedSame ==
  ASSUME TablesType, Untouched, NEW page
  PROVE  SameTables(page)
<1>1. \A v \in Visit : visit[v].ver <= visit[v].ver
  BY DEF TablesType, VisitRow
<1> QED BY <1>1 DEF Untouched, SameTables, tables

\* A page's own steps change no table.
LEMMA PageStepsTouch ==
  ASSUME NEW page, PageSteps(page)
  PROVE  Untouched
<1>1. \A i, p, k : Answers(i, p, k) => Untouched
  BY DEF Answers, Untouched, counters
<1>2. Click => Untouched
  BY DEF Click, Untouched
<1>3. ManageClicks => Untouched
  <2>1. (\E d \in limits.days \cup {NoTime} : ChangeDate(d)) \/ (\E d \in limits.days : PickSlot(d))
          \/ (\E m \in {"cancel", "reschedule"} : Toggle(m)) => Click
    BY DEF ChangeDate, PickSlot, Toggle
  <2>2. confirmPresence \/ cancelAppointment \/ reschedule \/ submitReview \/ CloseModal => Click
    BY DEF confirmPresence, cancelAppointment, reschedule, submitReview, CloseModal
  <2> QED BY <1>2, <2>1, <2>2 DEF ManageClicks
<1>4. ASSUME NEW i, ManageReply(i) PROVE Untouched
  BY <1>1, <1>4, Zenon DEF ManageReply, LoadReply, SlotsReply, MutationReply
<1>5. AgendaClick => Untouched
  <2>1. AgendaClick => Click
    BY DEF AgendaClick, ChooseFilter, applyFilter, dismissHint, TurnPage, updateStatus_Click
  <2> QED BY <1>2, <2>1
<1>6. ASSUME NEW i, StatusReply(i) \/ AgendaReply(i) \/ ReviewsReply(i) \/ PublishReply(i) PROVE Untouched
  BY <1>1, <1>6, Zenon DEF StatusReply, AgendaReply, ReviewsReply, PublishReply
<1>7. ReviewClick => Untouched
  BY <1>2 DEF ReviewClick, togglePublished
<1>8. ClientsClicks \/ Debounce => Untouched
  <2>1. ClientsClicks => Click
    <3>1. (\E s \in limits.searches : TypeSearch(s)) \/ (\E s \in limits.segments : ChooseSegment(s))
            \/ (\E n \in limits.inactive : ChooseInactive(n)) \/ ClearFilters \/ Back => Click
      BY DEF TypeSearch, ChooseSegment, ChooseInactive, ClearFilters, Back
    <3>2. saveNotes \/ toggleMarketingConsent \/ saveProfile => Click
      BY DEF saveNotes, toggleMarketingConsent, saveProfile, Save
    <3>3. (\E by \in {-1, 1} : TurnList(by)) \/ (\E n \in DOMAIN cp.items : openDetail(cp.items[n].id))
            \/ (\E text \in Client \cup {Nothing} : EditNotes(text) \/ EditTags(text)) => Click
      BY DEF TurnList, openDetail, EditNotes, EditTags
    <3> QED BY <3>1, <3>2, <3>3 DEF ClientsClicks
  <2>2. Debounce => Untouched
    BY DEF Debounce, Untouched, counters
  <2> QED BY <1>2, <2>1, <2>2
<1>9. ASSUME NEW i, ClientsReply(i) PROVE Untouched
  BY <1>1, <1>9, Zenon DEF ClientsReply, ListReply, CardReply, NotesReply, ConsentReply, ProfileReply, SaveReply
<1>10. SettingsClicks => Untouched
  BY <1>2 DEF SettingsClicks, SaveForm, Type
<1>11. ASSUME NEW i, SettingsPageReply(i) PROVE Untouched
  BY <1>1, <1>11, Zenon DEF SettingsPageReply, SettingsReply, SaveFormReply
<1> QED BY <1>3, <1>4, <1>5, <1>6, <1>7, <1>8, <1>9, <1>10, <1>11 DEF PageSteps

\* Of a page's own steps and the others'.
LEMMA PageMoves ==
  ASSUME CallsType, NEW own, PageSteps(own), NEW page, page # own
  PROVE  Keeps(page)
<1>1. Moves(own)
  BY ManageMoves, AgendaMoves, ClientsMoves, SettingsMoves DEF PageSteps
<1> QED BY <1>1, MovesKeep

\* A step of the desk is a page's own, an answer of the server, a loss, or none of a page.
LEMMA StepCases ==
  ASSUME [Next]_vars
  PROVE  \/ \E own \in PageNames : PageSteps(own) /\ \A page \in PageNames \ {own} : SamePage(page)
         \/ UNCHANGED pages /\ \E i \in DOMAIN calls : Serve(i) \/ Lose(i) \/ LoseAnswer(i)
         \/ UNCHANGED pages /\ \E x \in decided : WriteElsewhere(x)
         \/ UNCHANGED <<mp, ag, rv, cp, sp, limits, visit, card, tenant, calls, faults>>
<1>1. CASE UNCHANGED vars
  BY <1>1 DEF vars, pages, serverVars, tables, counters
<1>2. CASE User
  <2>1. CASE Manage /\ ManageClicks
    <3>1. PageSteps("manage") /\ "manage" \in PageNames
      BY <2>1 DEF PageSteps, PageNames, Manage
    <3>2. \A page \in PageNames \ {"manage"} : SamePage(page)
      BY <2>1 DEF SamePage, PageNames, Manage
    <3> QED BY <3>1, <3>2
  <2>2. CASE Agenda /\ AgendaClicks
    <3>1. (AgendaClick /\ UNCHANGED rv) \/ (ReviewClick /\ UNCHANGED ag)
      BY <2>2, AgendaMoves DEF AgendaClicks, AgendaClick, ReviewClick
    <3>2. CASE AgendaClick /\ UNCHANGED rv
      <4>1. PageSteps("agenda") /\ "agenda" \in PageNames
        BY <3>2 DEF PageSteps, PageNames
      <4>2. \A page \in PageNames \ {"agenda"} : SamePage(page)
        BY <2>2, <3>2 DEF SamePage, PageNames, Agenda
      <4> QED BY <4>1, <4>2
    <3>3. CASE ReviewClick /\ UNCHANGED ag
      <4>1. PageSteps("reviews") /\ "reviews" \in PageNames
        BY <3>3 DEF PageSteps, PageNames
      <4>2. \A page \in PageNames \ {"reviews"} : SamePage(page)
        BY <2>2, <3>3 DEF SamePage, PageNames, Agenda
      <4> QED BY <4>1, <4>2
    <3> QED BY <3>1, <3>2, <3>3
  <2>3. CASE Clients /\ ClientsClicks
    <3>1. PageSteps("clients") /\ "clients" \in PageNames
      BY <2>3 DEF PageSteps, PageNames, Clients
    <3>2. \A page \in PageNames \ {"clients"} : SamePage(page)
      BY <2>3 DEF SamePage, PageNames, Clients
    <3> QED BY <3>1, <3>2
  <2>4. CASE Settings /\ SettingsClicks
    <3>1. PageSteps("settings") /\ "settings" \in PageNames
      BY <2>4 DEF PageSteps, PageNames, Settings
    <3>2. \A page \in PageNames \ {"settings"} : SamePage(page)
      BY <2>4 DEF SamePage, PageNames, Settings
    <3> QED BY <3>1, <3>2
  <2>5. CASE Report /\ loadReport
    BY <2>5 DEF Report, loadReport, Click, tables
  <2> QED BY <1>2, <2>1, <2>2, <2>3, <2>4, <2>5 DEF User
<1>3. CASE Answer
  <2>1. PICK i \in DOMAIN calls : \/ Manage /\ ManageReply(i)
                                  \/ Agenda /\ AgendaPageReply(i)
                                  \/ Clients /\ ClientsReply(i)
                                  \/ Settings /\ SettingsPageReply(i)
    BY <1>3 DEF Answer
  <2>2. CASE Manage /\ ManageReply(i)
    <3>1. PageSteps("manage") /\ "manage" \in PageNames
      BY <2>2 DEF PageSteps, PageNames, Manage
    <3>2. \A page \in PageNames \ {"manage"} : SamePage(page)
      BY <2>2 DEF SamePage, PageNames, Manage
    <3> QED BY <3>1, <3>2
  <2>3. CASE Agenda /\ (StatusReply(i) \/ AgendaReply(i))
    <3>1. PageSteps("agenda") /\ "agenda" \in PageNames
      BY <2>3 DEF PageSteps, PageNames
    <3>2. \A page \in PageNames \ {"agenda"} : SamePage(page)
      BY <2>3, AgendaMoves DEF SamePage, PageNames, Agenda
    <3> QED BY <3>1, <3>2
  <2>4. CASE Agenda /\ (ReviewsReply(i) \/ PublishReply(i))
    <3>1. PageSteps("reviews") /\ "reviews" \in PageNames
      BY <2>4 DEF PageSteps, PageNames
    <3>2. \A page \in PageNames \ {"reviews"} : SamePage(page)
      BY <2>4, AgendaMoves DEF SamePage, PageNames, Agenda
    <3> QED BY <3>1, <3>2
  <2>5. CASE Clients /\ ClientsReply(i)
    <3>1. PageSteps("clients") /\ "clients" \in PageNames
      BY <2>5 DEF PageSteps, PageNames, Clients
    <3>2. \A page \in PageNames \ {"clients"} : SamePage(page)
      BY <2>5 DEF SamePage, PageNames, Clients
    <3> QED BY <3>1, <3>2
  <2>6. CASE Settings /\ SettingsPageReply(i)
    <3>1. PageSteps("settings") /\ "settings" \in PageNames
      BY <2>6 DEF PageSteps, PageNames, Settings
    <3>2. \A page \in PageNames \ {"settings"} : SamePage(page)
      BY <2>6 DEF SamePage, PageNames, Settings
    <3> QED BY <3>1, <3>2
  <2> QED BY <2>1, <2>2, <2>3, <2>4, <2>5, <2>6 DEF AgendaPageReply
<1>4. CASE Server
  BY <1>4 DEF Server
<1>5. CASE Timer
  <2>1. PageSteps("clients") /\ "clients" \in PageNames
    BY <1>5 DEF PageSteps, PageNames, Timer, Clients
  <2>2. \A page \in PageNames \ {"clients"} : SamePage(page)
    BY <1>5 DEF SamePage, PageNames, Timer, Clients
  <2> QED BY <2>1, <2>2
<1>6. CASE Queries
  BY <1>6 DEF Queries, Report, RunQuery, tables, counters
<1>7. CASE World
  <2>1. CASE \E i \in DOMAIN calls : Lose(i) \/ LoseAnswer(i)
    BY <1>7, <2>1 DEF World
  <2>2. CASE \/ \E v \in Visit, to \in limits.statuses : StaffElsewhere(v, to)
             \/ \E v \in Visit, d \in limits.days : CustomerElsewhere(v, d)
    BY <1>7, <2>2 DEF World, pages, StaffElsewhere, CustomerElsewhere, Elsewhere
  <2>3. CASE TimePasses
    BY <1>7, <2>3 DEF World, pages, TimePasses, counters
  <2>4. CASE \E x \in decided : WriteElsewhere(x)
    BY <1>7, <2>4 DEF World
  <2> QED BY <1>7, <2>1, <2>2, <2>3, <2>4 DEF World
<1> QED BY <1>1, <1>2, <1>3, <1>4, <1>5, <1>6, <1>7 DEF Next, System

\* What a page is left with by the steps that are not its own.
LEMMA Frame ==
  ASSUME Types, [Next]_vars, NEW page \in PageNames
  PROVE  \/ PageSteps(page) /\ Untouched
         \/ /\ UNCHANGED pages
            /\ \E i \in At(page, calls) : Serve(i) \/ Lose(i) \/ LoseAnswer(i)
         \/ Keeps(page) /\ SamePage(page) /\ SameTables(page)
<1>0. TablesType /\ CallsType
  BY DEF Types
<1>1. ASSUME NEW own \in PageNames, PageSteps(own), \A p \in PageNames \ {own} : SamePage(p)
      PROVE  \/ PageSteps(page) /\ Untouched
             \/ Keeps(page) /\ SamePage(page) /\ SameTables(page)
  <2>1. Untouched
    BY <1>1, PageStepsTouch
  <2>2. CASE page = own
    BY <1>1, <2>1, <2>2
  <2>3. CASE page # own
    BY <1>0, <1>1, <2>1, <2>3, PageMoves, UntouchedSame
  <2> QED BY <2>2, <2>3
<1>2. UNCHANGED pages => SamePage(page)
  BY DEF pages, SamePage
<1>3. ASSUME NEW i \in DOMAIN calls, Serve(i), calls[i].from # page
      PROVE  Keeps(page) /\ SameTables(page)
  <2>1. Effects(i)
    BY <1>3, ServeEffects
  <2>2. CallType(calls[i])
    BY <1>0 DEF CallsType
  <2>3. SameTables(page)
    <3>1. /\ page = "manage" => calls[i].kind # "reschedule"
          /\ page = "reviews" => calls[i].kind # "publish"
          /\ page = "clients" => calls[i].kind \notin {"notes", "consent", "profile"}
          /\ page = "settings" => calls[i].kind # "save"
      BY <1>3, <2>2 DEF CallType, PageNames, KindsOf, ManageKinds, AgendaKinds, ReviewKinds, ClientKinds, SettingsKinds
    <3> QED BY <2>1, <3>1 DEF Effects, SameTables
  <2>4. \E c : c.from = calls[i].from /\ calls' = [calls EXCEPT ![i] = c]
    <3>1. CASE \E r : Reply(i, r)
      <4>1. PICK r : Marks(i, "done", r)
        BY <3>1 DEF Reply, Marks
      <4> QED BY <1>0, <4>1, MarksFrom
    <3>2. CASE calls' = [calls EXCEPT ![i].pc = "written"]
      <4> DEFINE c == [calls[i] EXCEPT !.pc = "written"]
      <4>1. calls' = [calls EXCEPT ![i] = c]
        BY <3>2
      <4>2. c.from = calls[i].from
        BY <2>2 DEF CallType
      <4> HIDE DEF c
      <4> QED BY <4>1, <4>2
    <3>3. CASE Reads(i)
      <4>1. PICK r \in Status : Marks(i, "read", r)
        BY <3>3 DEF Reads
      <4> QED BY <1>0, <4>1, MarksFrom
    <3> QED BY <2>1, <3>1, <3>2, <3>3 DEF Effects
  <2> QED BY <1>0, <1>3, <2>3, <2>4, MarksKeep
<1>4. ASSUME NEW i \in DOMAIN calls, Lose(i) \/ LoseAnswer(i), calls[i].from # page
      PROVE  Keeps(page) /\ SameTables(page)
  <2>1. Marks(i, "done", Error(0)) /\ Fault
    BY <1>4 DEF Lose, LoseAnswer, Reply, Marks
  <2>2. Keeps(page)
    <3>1. \E c : c.from = calls[i].from /\ calls' = [calls EXCEPT ![i] = c]
      BY <1>0, <2>1, MarksFrom
    <3> QED BY <1>0, <1>4, <3>1, MarksKeep
  <2>3. \A v \in Visit : visit[v].ver <= visit[v].ver
    BY <1>0 DEF TablesType, VisitRow
  <2>4. faults' = 0 => faults = 0
    BY <1>0, <2>1 DEF Fault, TablesType
  <2> QED BY <2>1, <2>2, <2>3, <2>4 DEF Fault, SameTables, tables
<1>6. ASSUME NEW x \in decided, WriteElsewhere(x)
      PROVE  Keeps(page) /\ SameTables(page)
  <2>1. visit \in [Visit -> VisitRow] /\ Mine \in Visit /\ x.id \in Visit
    BY <1>0, DeskAssumption DEF TablesType, Decision
  <2>2. UNCHANGED <<limits, now, card, tenant, calls, counters>>
    BY <1>6 DEF WriteElsewhere
  <2>3. PICK row \in VisitRow :
          /\ UNCHANGED visit \/ Write(x.id, row)
          /\ row.review = visit[x.id].review /\ (x.id = Mine => row.at = visit[x.id].at)
    BY <1>0, <1>6, WrittenElsewhere
  <2>4. /\ \A u \in Visit : visit[u].ver <= visit'[u].ver
        /\ \A u \in Visit : visit'[u].review = visit[u].review
        /\ visit'[Mine].at = visit[Mine].at
    <3>1. CASE Write(x.id, row)
      <4>1. /\ \A u \in Visit : u # x.id => visit'[u] = visit[u]
            /\ visit'[x.id].at = row.at /\ visit'[x.id].review = row.review
            /\ \A u \in Visit : visit[u].ver <= visit'[u].ver
        BY <2>1, <3>1, WrittenRows
      <4> QED BY <2>1, <2>3, <4>1
    <3>2. CASE UNCHANGED visit
      <4>1. \A u \in Visit : visit[u].ver <= visit[u].ver
        BY <2>1 DEF VisitRow
      <4> QED BY <3>2, <4>1
    <3> QED BY <2>3, <3>1, <3>2
  <2>5. Keeps(page)
    BY <2>2, FollowsSame DEF Keeps
  <2> QED BY <2>2, <2>4, <2>5 DEF counters, SameTables
<1>7. ASSUME UNCHANGED <<mp, ag, rv, cp, sp, limits, visit, card, tenant, calls, faults>>
      PROVE  Keeps(page) /\ SamePage(page) /\ SameTables(page)
  <2>1. Keeps(page)
    BY <1>7, FollowsSame DEF Keeps
  <2>2. \A v \in Visit : visit[v].ver <= visit[v].ver
    BY <1>0 DEF TablesType, VisitRow
  <2> QED BY <1>7, <2>1, <2>2 DEF SamePage, SameTables
<1>8. CASE \E own \in PageNames : PageSteps(own) /\ \A p \in PageNames \ {own} : SamePage(p)
  BY <1>1, <1>8
<1>9. CASE UNCHANGED pages /\ \E i \in DOMAIN calls : Serve(i) \/ Lose(i) \/ LoseAnswer(i)
  <2>1. PICK i \in DOMAIN calls : Serve(i) \/ Lose(i) \/ LoseAnswer(i)
    BY <1>9
  <2>2. CASE calls[i].from = page
    BY <1>9, <2>1, <2>2 DEF At
  <2>3. CASE calls[i].from # page
    BY <1>2, <1>3, <1>4, <1>9, <2>1, <2>3
  <2> QED BY <2>2, <2>3
<1> QED BY <1>2, <1>6, <1>7, <1>8, <1>9, StepCases

\* Where each request kept was before: f keeps their order.
Origin(page, s, t, gone, new, f) ==
  /\ f \in [At(page, t) \ new -> At(page, s) \ gone]
  /\ \A j \in At(page, t) \ new : t[j] = s[f[j]]
  /\ \A j, k \in At(page, t) \ new : (j < k <=> f[j] < f[k]) /\ (j = k <=> f[j] = f[k])
  /\ \A i \in At(page, s) \ gone : \E j \in At(page, t) \ new : f[j] = i
  /\ At(page, s) \subseteq Nat /\ At(page, t) \subseteq Nat /\ new \subseteq At(page, t)
  /\ \A j \in At(page, t) \ new, k \in new : j < k

\* Places are numbers, and the requests kept keep their order.
LEMMA FollowsMap ==
  ASSUME NEW page, NEW s, NEW t, NEW gone, NEW new, IsSeqOf(s), IsSeqOf(t), Follows(page, s, t, gone, new)
  PROVE  \E f : Origin(page, s, t, gone, new, f)
<1>1. At(page, s) \subseteq Nat /\ At(page, t) \subseteq Nat
  <2>1. DOMAIN s \subseteq Nat /\ DOMAIN t \subseteq Nat
    BY OwnElements DEF IsSeqOf
  <2> QED BY <2>1 DEF At
<1>2. PICK f \in [At(page, t) \ new -> At(page, s) \ gone] :
        /\ \A j \in At(page, t) \ new : t[j] = s[f[j]]
        /\ \A j, k \in At(page, t) \ new : j < k => f[j] < f[k]
        /\ \A i \in At(page, s) \ gone : \E j \in At(page, t) \ new : f[j] = i
  BY DEF Follows
<1>3. ASSUME NEW j \in At(page, t) \ new, NEW k \in At(page, t) \ new
      PROVE  (j < k <=> f[j] < f[k]) /\ (j = k <=> f[j] = f[k])
  <2>1. j \in Nat /\ k \in Nat /\ f[j] \in Nat /\ f[k] \in Nat
    BY <1>1, <1>2
  <2>2. (j < k => f[j] < f[k]) /\ (k < j => f[k] < f[j])
    BY <1>2
  <2> QED BY <2>1, <2>2
<1>4. new \subseteq At(page, t) /\ \A j \in At(page, t) \ new, k \in new : j < k
  BY DEF Follows
<1> QED BY <1>1, <1>2, <1>3, <1>4 DEF Origin

\* An answered request stays where it is and what it was.
LEMMA MarkedAt ==
  ASSUME CallsType, NEW i \in DOMAIN calls, NEW p, NEW r, Marks(i, p, r), NEW page
  PROVE  /\ At(page, calls') = At(page, calls) /\ calls'[i].pc = p /\ calls'[i].res = r
         /\ \A j \in DOMAIN calls : /\ j # i => calls'[j] = calls[j]
                                  /\ calls'[j].from = calls[j].from /\ calls'[j].kind = calls[j].kind
                                  /\ calls'[j].arg = calls[j].arg /\ calls'[j].then = calls[j].then
<1>1. /\ DOMAIN calls' = DOMAIN calls
      /\ \A j \in DOMAIN calls : j # i => calls'[j] = calls[j]
      /\ calls'[i] = [from |-> calls[i].from, kind |-> calls[i].kind, arg |-> calls[i].arg,
                      then |-> calls[i].then, pc |-> p, res |-> r]
  BY ReplyFacts
<1>2. /\ calls'[i].from = calls[i].from /\ calls'[i].kind = calls[i].kind /\ calls'[i].arg = calls[i].arg
      /\ calls'[i].then = calls[i].then /\ calls'[i].pc = p /\ calls'[i].res = r
  BY <1>1
<1> QED BY <1>1, <1>2 DEF At

\* The one request new says is c.
OneNew(new, c) == (\A j, k \in new : j = k /\ calls'[k] = c) /\ \E k \in new : calls'[k] = c

\* A request sent.
LEMMA Sent ==
  ASSUME CallsType, NEW c, NEW page, c.from = page, calls' = Append(calls, c)
  PROVE  \E new : Follows(page, calls, calls', {}, new) /\ OneNew(new, c)
<1>1. PICK n : Follows(page, calls, calls', {}, {n}) /\ calls'[n] = c
  BY OwnSend
<1>2. OneNew({n}, c)
  BY <1>1 DEF OneNew
<1> QED BY <1>1, <1>2

\* The same for an answer taken.
LEMMA SentFor ==
  ASSUME CallsType, NEW i \in DOMAIN calls, NEW c, NEW page, c.from = page, calls' = Append(Others(i), c)
  PROVE  \E new : Follows(page, calls, calls', {i}, new) /\ OneNew(new, c)
<1> DEFINE n == Len(Others(i)) + 1
           new == Added(page, c, n)
<1>1. Follows(page, calls, calls', {i}, new) /\ calls'[n] = c
  BY NextSent
<1>2. OneNew(new, c)
  <2> HIDE DEF n
  <2> QED BY <1>1 DEF OneNew, Added
<1> HIDE DEF n, new
<1> QED BY <1>1, <1>2

--------------------------------------------------------------------------------
(* The manage link's invariant.                                            *)

\* The form still shows the date it showed; or no list of times, and no move, is on its way.
SameDate == mp'.date = mp.date /\ mp'.hurried = mp.hurried
NoneOnWay == \A i \in At("manage", calls) : calls[i].kind \notin {"slots", "reschedule"}

\* The date shown, as requests go and come,
LEMMA DateMoved ==
  ASSUME DateShown, NEW gone, NEW new, Follows("manage", calls, calls', gone, new),
         \A n \in new : MoveIsShown(calls'[n]),
         AsShown' => /\ SameDate \/ NoneOnWay
                     /\ \A n \in new : OfDate(calls'[n], mp'.date)
                     /\ mp'.slotsLoading \/ mp'.slots \subseteq {mp'.date}
                     /\ mp'.pick \in {NoTime, mp'.date}
  PROVE  DateShown'
<1>1. \A j \in At("manage", calls') : j \in new \/ \E i \in At("manage", calls) : calls'[j] = calls[i]
  BY FollowsOld
<1>2. \A j \in At("manage", calls') : MoveIsShown(calls'[j])
  <2>1. \A i \in At("manage", calls) : MoveIsShown(calls[i])
    BY DEF DateShown
  <2> QED BY <1>1, <2>1
<1>3. ASSUME AsShown' PROVE \A j \in At("manage", calls') : OfDate(calls'[j], mp'.date)
  <2>1. \A i \in At("manage", calls) : OfDate(calls[i], mp'.date)
    <3>1. CASE NoneOnWay
      BY <3>1 DEF NoneOnWay, OfDate
    <3>2. CASE SameDate
      BY <1>3, <3>2 DEF SameDate, AsShown, DateShown
    <3> QED BY <1>3, <3>1, <3>2
  <2> QED BY <1>1, <1>3, <2>1
<1> QED BY <1>2, <1>3 DEF DateShown, MoveIsShown, OfDate

\* the request that keeps a button busy, when it is not touched,
LEMMA MainMoved ==
  ASSUME OneMain, IsSeqOf(calls), IsSeqOf(calls'),
         NEW gone, NEW new, Follows("manage", calls, calls', gone, new),
         \A n \in new : ~IsMain(calls'[n]), ~isIdle => ~isIdle'
  PROVE  OneMain'
<1>1. PICK f : Origin("manage", calls, calls', gone, new, f)
  BY FollowsMap
<1> DEFINE s == At("manage", calls)
           t == At("manage", calls')
<1>2. \A i \in s : IsMain(calls[i]) => ~isIdle /\ \A j \in s : IsMain(calls[j]) => i = j
  BY DEF OneMain
<1>3. /\ \A j \in t \ new : f[j] \in s /\ calls'[j] = calls[f[j]]
      /\ \A j, k \in t \ new : f[j] = f[k] => j = k
  BY <1>1 DEF Origin
<1> HIDE DEF s, t
<1>4. ASSUME NEW j \in t, IsMain(calls'[j])
      PROVE  ~isIdle' /\ \A k \in t : IsMain(calls'[k]) => j = k
  BY <1>2, <1>3, <1>4
<1> QED BY <1>4 DEF OneMain, IsMain, t

\* is sent or taken, perhaps for another,
LEMMA MainChanged ==
  ASSUME NEW gone, NEW new, Follows("manage", calls, calls', gone, new),
         \A i \in At("manage", calls) \ gone : ~IsMain(calls[i]),
         \A m, n \in new : IsMain(calls'[m]) => m = n /\ ~isIdle'
  PROVE  OneMain'
<1>1. \A j \in At("manage", calls') : j \in new \/ \E i \in At("manage", calls) \ gone : calls'[j] = calls[i]
  BY FollowsOld
<1>2. \A j \in At("manage", calls') : IsMain(calls'[j]) => j \in new
  BY <1>1
<1>3. ASSUME NEW j \in At("manage", calls'), IsMain(calls'[j])
      PROVE  ~isIdle' /\ \A k \in At("manage", calls') : IsMain(calls'[k]) => j = k
  BY <1>2, <1>3
<1> QED BY <1>3 DEF OneMain, IsMain

\* and the time of the appointment.
LEMMA TimeMoved ==
  ASSUME TimeKnown, NEW gone, NEW new, Follows("manage", calls, calls', gone, new),
         faults' = 0 => faults = 0, visit'[Mine].at = visit[Mine].at,
         \A n \in new : /\ calls'[n].pc = "sent"
                        /\ faults = 0 /\ calls'[n].kind = "confirm" => calls'[n].arg.at = visit[Mine].at,
         faults = 0 /\ mp'.phase = "ready" /\ (\A j \in At("manage", calls') : ~Stale(calls'[j]))
           => mp'.data.at = visit[Mine].at
  PROVE  TimeKnown'
<1> DEFINE T(c, at) ==
      /\ c.kind = "get" /\ c.pc = "done" => c.res.ok /\ c.res.val.at = at
      /\ c.kind = "confirm" => /\ c.arg.at = at
                               /\ c.pc = "done" /\ c.res.ok => c.res.val.at = c.arg.at
<1>1. SUFFICES ASSUME faults = 0 PROVE \A j \in At("manage", calls') : T(calls'[j], visit[Mine].at)
  BY DEF TimeKnown, Stale
<1>2. \A i \in At("manage", calls) : T(calls[i], visit[Mine].at)
  BY <1>1 DEF TimeKnown
<1>3. \A j \in At("manage", calls') : j \in new \/ \E i \in At("manage", calls) : calls'[j] = calls[i]
  BY FollowsOld
<1>4. \A n \in new : T(calls'[n], visit[Mine].at)
  BY <1>1
<1> HIDE DEF T
<1> QED BY <1>2, <1>3, <1>4

\* The steps of the others.
LEMMA ManageFrame ==
  ASSUME Types, Types', ManageInv, Keeps("manage"), SamePage("manage"), SameTables("manage")
  PROVE  ManageInv'
<1>1. /\ Follows("manage", calls, calls', {}, {}) /\ IsSeqOf(calls) /\ IsSeqOf(calls')
      /\ mp' = mp /\ limits' = limits /\ (faults' = 0 => faults = 0) /\ visit'[Mine].at = visit[Mine].at
  BY DEF Keeps, SamePage, SameTables, Types, CallsType
<1>2. DateShown'
  BY <1>1, DateMoved DEF ManageInv, DateShown, AsShown, SameDate
<1>3. OneMain'
  <2>1. ~isIdle => ~isIdle'
    BY <1>1 DEF isIdle
  <2>2. \A n \in {} : ~IsMain(calls'[n])
    OBVIOUS
  <2> QED BY <1>1, <2>1, <2>2, MainMoved DEF ManageInv
<1>4. \A i \in At("manage", calls) : \E j \in At("manage", calls') : calls'[j] = calls[i]
  BY <1>1, FollowsOld
<1>5. faults = 0 /\ mp'.phase = "ready" /\ (\A j \in At("manage", calls') : ~Stale(calls'[j]))
        => mp'.data.at = visit[Mine].at
  BY <1>1, <1>4 DEF ManageInv, TimeKnown
<1>6. TimeKnown'
  BY <1>1, <1>5, TimeMoved DEF ManageInv
<1> QED BY <1>2, <1>3, <1>6 DEF ManageInv

\* The server's answers to the page, and what is lost of them.
LEMMA ManageServes ==
  ASSUME Types, ManageInv, UNCHANGED pages, NEW i \in At("manage", calls),
         Serve(i) \/ Lose(i) \/ LoseAnswer(i)
  PROVE  ManageInv'
<1>0. CallsType /\ CallType(calls[i]) /\ i \in DOMAIN calls /\ mp' = mp /\ calls[i].kind \in ManageKinds
      /\ faults \in Nat
  <2>1. i \in DOMAIN calls /\ calls[i].from = "manage"
    BY DEF At
  <2>2. CallType(calls[i])
    BY <2>1 DEF Types, CallsType
  <2> QED BY <2>1, <2>2 DEF Types, TablesType, pages, CallType, KindsOf
<1> DEFINE s == At("manage", calls)
<1>1. PICK p, r : /\ Marks(i, p, r) /\ limits' = limits
                  /\ \/ p = "done" /\ Serve(i) /\ Effects(i)
                     \/ p = "done" /\ r = Error(0) /\ faults' = faults + 1
                     \/ p = "read" /\ Serve(i) /\ Effects(i) /\ Reads(i)
  <2>1. CASE Serve(i)
    <3>1. Effects(i)
      BY <1>0, <2>1, ServeEffects
    <3>2. (\E r : Reply(i, r)) \/ Reads(i)
      BY <1>0, <3>1 DEF Effects, ManageKinds
    <3> QED BY <2>1, <3>1, <3>2 DEF Reply, Marks, Reads, Effects
  <2>2. CASE Lose(i) \/ LoseAnswer(i)
    BY <2>2 DEF Lose, LoseAnswer, Fault, Reply, Marks
  <2> QED BY <2>1, <2>2
<1>2. /\ At("manage", calls') = s /\ calls'[i].pc = p /\ calls'[i].res = r
      /\ \A j \in s : /\ j # i => calls'[j] = calls[j]
                      /\ calls'[j].kind = calls[j].kind /\ calls'[j].arg = calls[j].arg
                      /\ calls'[j].then = calls[j].then
  <2>1. \A j \in s : j \in DOMAIN calls
    BY DEF At
  <2> QED BY <1>0, <1>1, <2>1, MarkedAt
<1> HIDE DEF s
<1>3. DateShown'
  BY <1>0, <1>1, <1>2 DEF ManageInv, DateShown, MoveIsShown, OfDate, AsShown, s
<1>4. OneMain'
  BY <1>0, <1>2 DEF ManageInv, OneMain, IsMain, isIdle, s
<1>5. TimeKnown'
  <2>1. SUFFICES ASSUME faults' = 0 PROVE TimeKnown'
    BY DEF TimeKnown
  <2>2. faults = 0 /\ Serve(i) /\ Effects(i) /\ (p = "done" \/ (p = "read" /\ Reads(i)))
    BY <1>0, <1>1, <2>1 DEF Effects
  <2>3. i \in s /\ \A j \in s : IsMain(calls[j]) => \A k \in s : IsMain(calls[k]) => j = k
    BY DEF ManageInv, OneMain, s
  <2> DEFINE T(c, at) ==
        /\ c.kind = "get" /\ c.pc = "done" => c.res.ok /\ c.res.val.at = at
        /\ c.kind = "confirm" => /\ c.arg.at = at
                                 /\ c.pc = "done" /\ c.res.ok => c.res.val.at = c.arg.at
  <2>4. /\ \A j \in s : T(calls[j], visit[Mine].at)
        /\ mp.phase = "ready" /\ (\A j \in s : ~Stale(calls[j])) => mp.data.at = visit[Mine].at
    BY <2>2 DEF ManageInv, TimeKnown, s
  <2>5. SUFFICES /\ \A j \in s : T(calls'[j], visit'[Mine].at)
                 /\ mp.phase = "ready" /\ (\A j \in s : ~Stale(calls'[j])) => mp.data.at = visit'[Mine].at
    BY <1>0, <1>2 DEF TimeKnown, Stale
  <2>8. CASE p = "read"
    <3>1. UNCHANGED visit /\ calls[i].kind # "get" /\ calls[i].pc = "sent" /\ calls'[i].pc = "read"
      BY <1>2, <2>2, <2>8 DEF Reads, StepKinds
    <3>2. \A j \in s : T(calls'[j], visit'[Mine].at)
      <4>1. T(calls'[i], visit[Mine].at)
        BY <1>2, <2>3, <2>4, <3>1
      <4> HIDE DEF T
      <4> QED BY <1>2, <2>4, <3>1, <4>1
    <3>3. \A j \in s : Stale(calls'[j]) <=> Stale(calls[j])
      BY <1>2, <2>3, <3>1 DEF Stale
    <3> HIDE DEF T
    <3> QED BY <2>4, <3>1, <3>2, <3>3
  <2>9. \A x : (Reply(i, x) /\ p = "done" => r = x) /\ ~(p = "done" /\ Decide(i, Mine))
    <3> TAKE x
    <3>1. ASSUME Reply(i, x) PROVE r = x
      <4>1. Marks(i, "done", x)
        BY <3>1 DEF Reply, Marks
      <4> QED BY <1>0, <1>2, <4>1, MarkedAt
    <3>2. ASSUME Decide(i, Mine), p = "done" PROVE FALSE
      <4>1. Marks(i, "read", visit[Mine].status)
        BY <3>2 DEF Decide, Marks
      <4>2. calls'[i].pc = "read"
        BY <1>0, <4>1, MarkedAt
      <4> QED BY <1>2, <3>2, <4>2
    <3> QED BY <3>1, <3>2
  <2>6. CASE p = "done" /\ calls[i].kind # "reschedule"
    <3>1. visit'[Mine].at = visit[Mine].at
      BY <2>2, <2>6 DEF Effects
    <3>2. calls[i].kind = "get" => r.ok /\ r.val.at = visit[Mine].at
      <4> SUFFICES ASSUME calls[i].kind = "get" PROVE r.ok /\ r.val.at = visit[Mine].at
        OBVIOUS
      <4>1. Reply(i, Ok(managed(Mine)))
        BY <2>2, HandlerOf DEF getByManageToken, Read
      <4>2. r = Ok(managed(Mine))
        BY <2>6, <2>9, <4>1
      <4> QED BY <4>2 DEF Ok, managed
    <3>3. calls[i].kind = "confirm" /\ r.ok => r.val.at = visit[Mine].at
      <4> SUFFICES ASSUME calls[i].kind = "confirm", r.ok PROVE r.val.at = visit[Mine].at
        OBVIOUS
      <4>1. Reply(i, Ok([at |-> visit[Mine].at])) \/ (\E n : Reply(i, Error(n))) \/ Decide(i, Mine)
        BY <2>2, HandlerOf DEF confirmByToken, confirmWrite, ById, Refuse
      <4>2. r = Ok([at |-> visit[Mine].at]) \/ \E n : r = Error(n)
        BY <2>6, <2>9, <4>1
      <4> QED BY <4>2 DEF Ok, Error
    <3>4. T(calls'[i], visit[Mine].at)
      BY <1>2, <2>3, <2>4, <3>2, <3>3
    <3>5. \A j \in s : T(calls'[j], visit[Mine].at)
      <4> HIDE DEF T
      <4> QED BY <1>2, <2>4, <3>4
    <3>6. \A j \in s : Stale(calls'[j]) <=> Stale(calls[j])
      BY <1>2, <2>3, <2>6 DEF Stale
    <3> HIDE DEF T
    <3> QED BY <2>4, <3>1, <3>5, <3>6
  <2>7. CASE p = "done" /\ calls[i].kind = "reschedule"
    <3>1. \A j \in s : calls[j].kind \notin {"get", "confirm"}
      BY <2>3, <2>7 DEF IsMain
    <3>2. \A j \in s : T(calls'[j], visit'[Mine].at)
      BY <1>2, <3>1
    <3>3. (UNCHANGED visit /\ ~r.ok) \/ r.ok
      <4>1. (UNCHANGED visit /\ \E n : Reply(i, Error(n))) \/ Reply(i, Ok(Nothing)) \/ Decide(i, Mine)
        <5>1. rescheduleByToken(i) \/ rescheduleWrite(i)
          BY <2>2, <2>7, HandlerOf
        <5>2. CASE rescheduleByToken(i)
          BY <5>2 DEF rescheduleByToken, Refuse
        <5>3. CASE rescheduleWrite(i)
          BY <5>3 DEF rescheduleWrite, ById, Refuse
        <5> QED BY <5>1, <5>2, <5>3
      <4> QED BY <2>7, <2>9, <4>1 DEF Ok, Error
    <3>4. CASE r.ok
      <4>1. Stale(calls'[i])
        BY <1>2, <2>3, <2>7, <3>4 DEF Stale
      <4> QED BY <2>3, <3>2, <4>1
    <3>5. CASE UNCHANGED visit /\ ~r.ok
      <4>1. \A j \in s : Stale(calls[j]) => Stale(calls'[j])
        <5>1. calls[i].pc # "done"
          BY <2>2, <2>7, HandlerOf DEF SettingsKinds
        <5> QED BY <1>2, <2>3, <2>7, <5>1 DEF Stale
      <4> QED BY <2>4, <3>2, <3>5, <4>1
    <3> QED BY <3>3, <3>4, <3>5
  <2> QED BY <2>2, <2>6, <2>7, <2>8
<1> QED BY <1>3, <1>4, <1>5 DEF ManageInv

\* The clicks of its customer.
LEMMA ManageClicked ==
  ASSUME Types, Types', ManageInv, ManageClicks, Untouched
  PROVE  ManageInv'
<1>0. /\ IsSeqOf(calls) /\ IsSeqOf(calls') /\ CallsType /\ ManageType
      /\ limits' = limits /\ faults' = faults /\ visit'[Mine].at = visit[Mine].at
      /\ DateShown /\ OneMain /\ TimeKnown
  BY DEF Types, CallsType, Untouched, tables, ManageInv
<1>1. ASSUME NEW kind, NEW arg, NEW then
      PROVE  /\ Send(kind, arg, then).from = "manage" /\ Send(kind, arg, then).kind = kind
             /\ Send(kind, arg, then).arg = arg /\ Send(kind, arg, then).then = then
             /\ Send(kind, arg, then).pc = "sent"
  BY DEF Send, Call
<1>2. isIdle => \A i \in At("manage", calls) : ~IsMain(calls[i]) /\ ~Stale(calls[i])
  BY <1>0 DEF OneMain, IsMain, Stale
<1>3. ASSUME NEW kind \in {"confirm", "cancel", "reschedule", "review"}, NEW arg, Submit(kind, arg), isIdle,
             MoveIsShown(Send(kind, arg, "")), AsShown => OfDate(Send(kind, arg, ""), mp.date),
             kind = "confirm" => arg.at = mp.data.at
      PROVE  ManageInv'
  <2> DEFINE c == Send(kind, arg, "")
  <2>0. c.from = "manage" /\ c.pc = "sent" /\ c.kind = kind /\ c.arg = arg /\ calls' = Append(calls, c)
    BY <1>3 DEF Submit, Send, Call
  <2> HIDE DEF c
  <2>1. PICK new : Follows("manage", calls, calls', {}, new) /\ \A m, n \in new : m = n /\ calls'[n] = c
    <3>1. PICK n : Follows("manage", calls, calls', {}, {n}) /\ calls'[n] = c
      BY <1>0, <2>0, OwnSend
    <3>2. \A j, k \in {n} : j = k /\ calls'[k] = c
      BY <3>1
    <3> QED BY <3>1, <3>2
  <2>2. mp' = [mp EXCEPT !.busy = kind]
    BY <1>3 DEF Submit
  <2>3. /\ mp'.phase = mp.phase /\ mp'.busy = kind /\ mp'.date = mp.date /\ mp'.slots = mp.slots
        /\ mp'.slotsLoading = mp.slotsLoading /\ mp'.pick = mp.pick /\ mp'.data = mp.data
        /\ mp'.hurried = mp.hurried
    BY <1>0, <2>2 DEF ManageType
  <2>4. DateShown'
    <3>1. AsShown' => AsShown /\ SameDate
      BY <2>3 DEF AsShown, SameDate
    <3>2. AsShown => (mp.slotsLoading \/ mp.slots \subseteq {mp.date}) /\ mp.pick \in {NoTime, mp.date}
      BY <1>0 DEF DateShown
    <3>3. \A n \in new : MoveIsShown(calls'[n]) /\ (AsShown => OfDate(calls'[n], mp.date))
      BY <1>3, <2>1 DEF c
    <3> QED BY <1>0, <2>1, <2>3, <3>1, <3>2, <3>3, DateMoved
  <2>5. OneMain'
    <3>1. ~isIdle'
      BY <1>3, <2>3 DEF isIdle
    <3>2. \A i \in At("manage", calls) \ {} : ~IsMain(calls[i])
      BY <1>2, <1>3
    <3> QED BY <2>1, <3>1, <3>2, MainChanged
  <2>6. TimeKnown'
    <3>1. faults = 0 => mp.data.at = visit[Mine].at
      BY <1>0, <1>2, <1>3 DEF TimeKnown, isIdle
    <3>2. \A k \in new : /\ calls'[k].pc = "sent"
                         /\ faults = 0 /\ calls'[k].kind = "confirm" => calls'[k].arg.at = visit[Mine].at
      BY <1>3, <2>0, <2>1, <3>1
    <3>3. faults = 0 /\ mp'.phase = "ready" /\ (\A j \in At("manage", calls') : ~Stale(calls'[j]))
            => mp'.data.at = visit[Mine].at
      BY <2>3, <3>1
    <3>4. (faults' = 0 => faults = 0) /\ visit'[Mine].at = visit[Mine].at
      BY <1>0
    <3> QED BY <1>0, <2>1, <3>2, <3>3, <3>4, TimeMoved
  <2> QED BY <2>4, <2>5, <2>6 DEF ManageInv
<1>4. ASSUME mp'.phase = mp.phase, mp'.busy = mp.busy, mp'.data = mp.data,
             AsShown' => /\ SameDate \/ NoneOnWay
                         /\ mp'.slotsLoading \/ mp'.slots \subseteq {mp'.date}
                         /\ mp'.pick \in {NoTime, mp'.date},
             \/ UNCHANGED calls
             \/ calls' = Append(calls, Send("slots", mp'.date, ""))
      PROVE  ManageInv'
  <2> DEFINE c == Send("slots", mp'.date, "")
  <2>0. c.from = "manage" /\ c.pc = "sent" /\ c.kind = "slots" /\ c.arg = mp'.date /\ c.then = ""
        /\ (UNCHANGED calls \/ calls' = Append(calls, c))
    BY <1>4 DEF Send, Call
  <2> HIDE DEF c
  <2>1. PICK new : Follows("manage", calls, calls', {}, new) /\ \A n \in new : calls'[n] = c
    <3>1. CASE calls' = calls
      <4>1. Follows("manage", calls, calls, {}, {})
        BY FollowsSame
      <4> QED BY <3>1, <4>1
    <3>2. CASE calls' = Append(calls, c)
      <4>1. PICK n : Follows("manage", calls, calls', {}, {n}) /\ calls'[n] = c
        BY <1>0, <2>0, <3>2, OwnSend
      <4>2. \A k \in {n} : calls'[k] = c
        BY <4>1
      <4> QED BY <4>1, <4>2
    <3> QED BY <2>0, <3>1, <3>2
  <2>2. OfDate(c, mp'.date) /\ MoveIsShown(c) /\ ~IsMain(c) /\ c.pc = "sent" /\ c.kind # "confirm"
    BY <2>0 DEF OfDate, MoveIsShown, IsMain
  <2>3. DateShown'
    <3>1. \A n \in new : MoveIsShown(calls'[n]) /\ OfDate(calls'[n], mp'.date)
      BY <2>1, <2>2
    <3> QED BY <1>0, <1>4, <2>1, <3>1, DateMoved
  <2>4. OneMain'
    <3>1. ~isIdle => ~isIdle'
      BY <1>4 DEF isIdle
    <3> QED BY <1>0, <2>1, <2>2, <3>1, MainMoved
  <2>5. TimeKnown'
    <3>1. \A i \in At("manage", calls) : \E j \in At("manage", calls') : calls'[j] = calls[i]
      BY <2>1, FollowsOld
    <3>2. faults = 0 /\ mp'.phase = "ready" /\ (\A j \in At("manage", calls') : ~Stale(calls'[j]))
            => mp'.data.at = visit[Mine].at
      BY <1>0, <1>4, <3>1 DEF TimeKnown
    <3> QED BY <1>0, <2>1, <2>2, <3>2, TimeMoved
  <2> QED BY <2>3, <2>4, <2>5 DEF ManageInv
<1>5. AsShown => /\ mp.slotsLoading \/ mp.slots \subseteq {mp.date}
                 /\ mp.pick \in {NoTime, mp.date}
  BY <1>0 DEF DateShown
<1> DEFINE Pages == [phase : {mp.phase}, data : {mp.data}, busy : {mp.busy},
                     open : {"", "cancel", "reschedule"}, date : Day, slots : {mp.slots},
                     slotsLoading : {mp.slotsLoading}, pick : {mp.pick}, hurried : BOOLEAN]
<1>6. ASSUME NEW p, Effect(p, calls), p \in Pages,
             p.date # NoTime /\ ~p.hurried =>
               \/ p.date = mp.date /\ p.hurried = mp.hurried
               \/ p.date # mp.date /\ p.open = "reschedule" /\ NoneOnWay
      PROVE  ManageInv'
  <2>1. CASE p.open = "reschedule" /\ p.date # NoTime /\ <<p.open, p.date>> # <<mp.open, mp.date>>
    <3>1. mp' = [p EXCEPT !.slotsLoading = TRUE, !.pick = NoTime] /\ calls' = Append(calls, Send("slots", p.date, ""))
      BY <1>6, <2>1 DEF Effect, loadSlots
    <3>2. /\ mp'.phase = mp.phase /\ mp'.busy = mp.busy /\ mp'.data = mp.data /\ mp'.date = p.date
          /\ mp'.slotsLoading /\ mp'.pick = NoTime /\ mp'.hurried = p.hurried
      BY <1>6, <3>1
    <3>3. AsShown' => SameDate \/ NoneOnWay
      BY <1>6, <3>2 DEF AsShown, SameDate
    <3> QED BY <1>4, <3>1, <3>2, <3>3
  <2>2. CASE ~(p.open = "reschedule" /\ p.date # NoTime /\ <<p.open, p.date>> # <<mp.open, mp.date>>)
    <3>1. mp' = p /\ calls' = calls
      BY <1>6, <2>2 DEF Effect
    <3>2. /\ p.phase = mp.phase /\ p.busy = mp.busy /\ p.data = mp.data /\ p.slots = mp.slots
          /\ p.slotsLoading = mp.slotsLoading /\ p.pick = mp.pick
      BY <1>6
    <3>3. AsShown' => AsShown /\ SameDate
      BY <1>6, <2>2, <3>1 DEF AsShown, SameDate
    <3>4. AsShown' => (mp'.slotsLoading \/ mp'.slots \subseteq {mp'.date}) /\ mp'.pick \in {NoTime, mp'.date}
      BY <1>5, <3>1, <3>2, <3>3 DEF SameDate
    <3> QED BY <1>4, <3>1, <3>2, <3>3, <3>4
  <2> QED BY <2>1, <2>2
<1> HIDE DEF Pages
<1>7. CASE confirmPresence
  <2>0. isIdle /\ Submit("confirm", [at |-> mp.data.at])
    BY <1>7 DEF confirmPresence
  <2>1. OfDate(Send("confirm", [at |-> mp.data.at], ""), mp.date) /\ MoveIsShown(Send("confirm", [at |-> mp.data.at], ""))
    BY DEF OfDate, MoveIsShown, Send, Call
  <2> QED BY <1>3, <2>0, <2>1
<1>8. CASE cancelAppointment \/ submitReview
  <2>0. isIdle /\ (Submit("cancel", Nothing) \/ Submit("review", Nothing))
    BY <1>8 DEF cancelAppointment, submitReview
  <2>1. /\ OfDate(Send("cancel", Nothing, ""), mp.date) /\ OfDate(Send("review", Nothing, ""), mp.date)
        /\ MoveIsShown(Send("cancel", Nothing, "")) /\ MoveIsShown(Send("review", Nothing, ""))
    BY DEF OfDate, MoveIsShown, Send, Call
  <2> QED BY <1>3, <2>0, <2>1
<1>9. CASE reschedule
  <2> DEFINE a == [to |-> mp.pick, shown |-> mp.date, hurried |-> mp.hurried]
  <2>0. isIdle /\ mp.pick # NoTime /\ Submit("reschedule", a)
    BY <1>9 DEF reschedule
  <2>1. AsShown => mp.pick = mp.date
    BY <1>5, <2>0
  <2>2. a.to = mp.pick /\ a.shown = mp.date /\ a.hurried = mp.hurried
    OBVIOUS
  <2> HIDE DEF a
  <2>3. Send("reschedule", a, "").arg = a /\ Send("reschedule", a, "").kind = "reschedule"
    BY DEF Send, Call
  <2>4. OfDate(Send("reschedule", a, ""), mp.date) /\ MoveIsShown(Send("reschedule", a, ""))
    BY <2>1, <2>2, <2>3 DEF OfDate, MoveIsShown, AsShown
  <2> QED BY <1>3, <2>0, <2>4
<1>10. CASE CloseModal
  <2> DEFINE p == [mp EXCEPT !.open = ""]
  <2>1. Effect(p, calls)
    BY <1>10 DEF CloseModal
  <2>2. p \in Pages /\ p.date = mp.date /\ p.hurried = mp.hurried
    BY <1>0 DEF ManageType, Pages
  <2> HIDE DEF p
  <2> QED BY <1>6, <2>1, <2>2
<1>11. CASE \E m \in {"cancel", "reschedule"} : Toggle(m)
  <2>0. PICK m \in {"cancel", "reschedule"} : Toggle(m)
    BY <1>11
  <2> DEFINE p == [mp EXCEPT !.open = m]
  <2>1. Effect(p, calls)
    BY <2>0 DEF Toggle
  <2>2. p \in Pages /\ p.date = mp.date /\ p.hurried = mp.hurried
    BY <1>0 DEF ManageType, Pages
  <2> HIDE DEF p
  <2> QED BY <1>6, <2>1, <2>2
<1>12. CASE \E d \in limits.days \cup {NoTime} : ChangeDate(d)
  <2>0. PICK d \in limits.days \cup {NoTime} : ChangeDate(d)
    BY <1>12
  <2> DEFINE h == IF d = NoTime THEN mp.hurried ELSE inFlight("slots") \/ inFlight("reschedule")
             p == [mp EXCEPT !.date = d, !.hurried = h]
  <2>1. Effect(p, calls) /\ mp.open = "reschedule" /\ d # mp.date
    BY <2>0 DEF ChangeDate
  <2>2. d \in Day /\ h \in BOOLEAN
    BY <1>0, <2>0, LimitsAssumption DEF Types, TablesType, ManageType, Day
  <2>3. d # NoTime /\ ~h => NoneOnWay
    BY DEF inFlight, NoneOnWay, At
  <2> HIDE DEF h
  <2>4. p \in Pages /\ p.open = mp.open /\ p.date = d /\ p.hurried = h
    BY <1>0, <2>2 DEF ManageType, Pages
  <2> HIDE DEF p
  <2> QED BY <1>6, <2>1, <2>3, <2>4
<1>13. CASE \E d \in limits.days : PickSlot(d)
  <2>0. PICK d \in limits.days : PickSlot(d)
    BY <1>13
  <2>1. mp' = [mp EXCEPT !.pick = d] /\ UNCHANGED calls /\ ~mp.slotsLoading /\ d \in mp.slots
    BY <2>0 DEF PickSlot
  <2>2. /\ mp'.phase = mp.phase /\ mp'.busy = mp.busy /\ mp'.data = mp.data /\ mp'.date = mp.date
        /\ mp'.slotsLoading = mp.slotsLoading /\ mp'.slots = mp.slots /\ mp'.pick = d /\ mp'.hurried = mp.hurried
    BY <1>0, <2>1 DEF ManageType
  <2>3. AsShown' => AsShown /\ SameDate
    BY <2>2 DEF AsShown, SameDate
  <2>4. AsShown' => (mp'.slotsLoading \/ mp'.slots \subseteq {mp'.date}) /\ mp'.pick \in {NoTime, mp'.date}
    BY <1>5, <2>1, <2>2, <2>3
  <2> QED BY <1>4, <2>1, <2>2, <2>3, <2>4
<1> QED BY <1>7, <1>8, <1>9, <1>10, <1>11, <1>12, <1>13 DEF ManageClicks

\* The answers it takes.
LEMMA ManageAnswered ==
  ASSUME Types, Types', ManageInv, NEW i \in DOMAIN calls, ManageReply(i), Untouched
  PROVE  ManageInv'
<1>0. /\ IsSeqOf(calls) /\ IsSeqOf(calls') /\ CallsType /\ ManageType /\ CallType(calls[i])
      /\ limits' = limits /\ faults' = faults /\ visit'[Mine].at = visit[Mine].at
      /\ DateShown /\ OneMain /\ TimeKnown
  BY DEF Types, CallsType, Untouched, tables, ManageInv
<1> DEFINE s == At("manage", calls)
           t == At("manage", calls')
<1>1. calls[i].from = "manage" /\ calls[i].pc = "done" /\ i \in s
  BY DEF ManageReply, LoadReply, SlotsReply, MutationReply, Answers, At
<1>2. IsMain(calls[i]) => \A j \in s \ {i} : ~IsMain(calls[j])
  BY <1>0, <1>1 DEF OneMain, IsMain
<1>3. /\ AsShown => /\ mp.slotsLoading \/ mp.slots \subseteq {mp.date}
                   /\ mp.pick \in {NoTime, mp.date}
                   /\ OfDate(calls[i], mp.date)
      /\ SameDate => (AsShown' <=> AsShown)
  BY <1>0, <1>1 DEF DateShown, AsShown, SameDate
<1>4. \A new : Follows("manage", calls, calls', {i}, new) => \A j \in s \ {i} : \E k \in t : calls'[k] = calls[j]
  <2> TAKE new
  <2> HAVE Follows("manage", calls, calls', {i}, new)
  <2> QED BY FollowsOld
<1> HIDE DEF s, t
<1>5. CASE LoadReply(i)
  <2> DEFINE r == calls[i].res
             d == IF r.ok THEN r.val ELSE mp.data
             ph == IF r.ok \/ mp.data # Nothing THEN "ready" ELSE "lost"
  <2>1. calls[i].kind = "get" /\ calls' = Others(i) /\ mp' = [mp EXCEPT !.data = d, !.busy = "", !.phase = ph]
    BY <1>5 DEF LoadReply, Answers
  <2> HIDE DEF d, ph
  <2>2. /\ mp'.date = mp.date /\ mp'.slots = mp.slots /\ mp'.slotsLoading = mp.slotsLoading
        /\ mp'.pick = mp.pick /\ mp'.data = d /\ SameDate
    BY <1>0, <2>1 DEF ManageType, SameDate
  <2>3. Follows("manage", calls, calls', {i}, {})
    BY <1>0, <2>1, OwnTake
  <2>4. DateShown'
    BY <1>0, <1>3, <2>2, <2>3, DateMoved
  <2>5. OneMain'
    <3>1. \A j \in s \ {i} : ~IsMain(calls[j])
      BY <1>2, <2>1 DEF IsMain
    <3> QED BY <2>3, <3>1, MainChanged DEF s
  <2>6. TimeKnown'
    <3>1. faults = 0 => d.at = visit[Mine].at
      BY <1>0, <1>1, <2>1 DEF TimeKnown, s, d
    <3> QED BY <1>0, <2>2, <2>3, <3>1, TimeMoved
  <2> QED BY <2>4, <2>5, <2>6 DEF ManageInv
<1>6. ASSUME ~Stale(calls[i]), mp'.phase = mp.phase, mp'.data = mp.data,
             NEW new, Follows("manage", calls, calls', {i}, new),
             \A n \in new : calls'[n].pc = "sent" /\ calls'[n].kind # "confirm"
      PROVE  TimeKnown'
  <2>1. faults = 0 /\ mp'.phase = "ready" /\ (\A j \in t : ~Stale(calls'[j])) => mp'.data.at = visit[Mine].at
    BY <1>0, <1>4, <1>6 DEF TimeKnown, s
  <2> QED BY <1>0, <1>6, <2>1, TimeMoved DEF t
<1>7. CASE SlotsReply(i)
  <2> DEFINE v == IF calls[i].res.ok THEN calls[i].res.val ELSE {}
             b == IF calls[i].then = "" THEN mp.busy ELSE ""
  <2>1. calls[i].kind = "slots" /\ calls' = Others(i)
        /\ mp' = [mp EXCEPT !.slots = v, !.slotsLoading = FALSE, !.busy = b]
    BY <1>7 DEF SlotsReply, Answers
  <2>2. v \subseteq {calls[i].arg}
    BY <1>0, <1>1, <2>1 DEF CallType, BringsOf
  <2> HIDE DEF v, b
  <2>3. /\ mp'.date = mp.date /\ mp'.slots = v /\ mp'.pick = mp.pick /\ mp'.data = mp.data
        /\ mp'.phase = mp.phase /\ mp'.busy = b /\ SameDate
    BY <1>0, <2>1 DEF ManageType, SameDate
  <2>4. Follows("manage", calls, calls', {i}, {})
    BY <1>0, <2>1, OwnTake
  <2>5. DateShown'
    <3>1. AsShown => v \subseteq {mp.date}
      BY <1>3, <2>1, <2>2 DEF OfDate
    <3> QED BY <1>0, <1>3, <2>3, <2>4, <3>1, DateMoved
  <2>6. OneMain'
    <3>1. CASE calls[i].then = ""
      <4>1. ~isIdle => ~isIdle'
        BY <2>3, <3>1 DEF isIdle, b
      <4> QED BY <1>0, <2>4, <4>1, MainMoved
    <3>2. CASE calls[i].then # ""
      <4>1. \A j \in s \ {i} : ~IsMain(calls[j])
        BY <1>2, <2>1, <3>2 DEF IsMain
      <4> QED BY <2>4, <4>1, MainChanged DEF s
    <3> QED BY <3>1, <3>2
  <2>7. TimeKnown'
    <3>1. ~Stale(calls[i])
      BY <2>1 DEF Stale
    <3> QED BY <1>6, <2>3, <2>4, <3>1
  <2> QED BY <2>5, <2>6, <2>7 DEF ManageInv
<1>8. ASSUME NEW kind \in {"confirm", "cancel", "reschedule", "review"}, MutationReply(i, kind) PROVE ManageInv'
  <2> DEFINE r == calls[i].res
             m == IF kind \in {"cancel", "reschedule"} THEN [mp EXCEPT !.open = ""] ELSE mp
             g == Send("get", Nothing, kind)
             q == Send("slots", calls[i].arg.shown, kind)
  <2>1. calls[i].kind = kind
    BY <1>8 DEF MutationReply, Answers
  <2>2. \/ r.ok /\ mp' = m /\ calls' = Append(Others(i), g)
        \/ ~r.ok /\ kind = "reschedule" /\ calls' = Append(Others(i), q)
                 /\ mp' = [mp EXCEPT !.slotsLoading = TRUE, !.pick = NoTime]
        \/ ~r.ok /\ mp' = [mp EXCEPT !.busy = ""] /\ calls' = Others(i)
    BY <1>8, <2>1 DEF MutationReply, Changed, load, loadSlots
  <2>3. \A j \in s \ {i} : ~IsMain(calls[j])
    BY <1>2, <2>1 DEF IsMain
  <2>4. ~isIdle
    BY <1>0, <1>1, <2>1 DEF OneMain, IsMain, s
  <2>5. g.from = "manage" /\ g.kind = "get" /\ g.pc = "sent"
        /\ q.from = "manage" /\ q.kind = "slots" /\ q.pc = "sent" /\ q.then = kind
        /\ q.arg = calls[i].arg.shown
    BY DEF Send, Call
  <2> HIDE DEF g, q
  <2>6. CASE r.ok /\ mp' = m /\ calls' = Append(Others(i), g)
    <3>1. /\ mp'.date = mp.date /\ mp'.slots = mp.slots /\ mp'.slotsLoading = mp.slotsLoading
          /\ mp'.pick = mp.pick /\ mp'.phase = mp.phase /\ mp'.busy = mp.busy /\ SameDate
      BY <1>0, <2>6 DEF ManageType, SameDate
    <3>2. PICK new : Follows("manage", calls, calls', {i}, new) /\ (\A j, n \in new : j = n /\ calls'[n] = g)
                     /\ \E n \in new : calls'[n] = g
      <4>1. calls' = Append(Others(i), g) /\ g.from = "manage" /\ CallsType
        BY <1>0, <2>5, <2>6
      <4>2. PICK new : Follows("manage", calls, calls', {i}, new) /\ OneNew(new, g)
        BY <4>1, SentFor
      <4> QED BY <4>2 DEF OneNew
    <3>3. \A n \in new : OfDate(calls'[n], mp'.date) /\ MoveIsShown(calls'[n])
      BY <2>5, <3>2 DEF OfDate, MoveIsShown
    <3>4. DateShown'
      BY <1>0, <1>3, <3>1, <3>2, <3>3, DateMoved
    <3>5. OneMain'
      <4>1. ~isIdle'
        BY <2>4, <3>1 DEF isIdle
      <4> QED BY <2>3, <3>2, <4>1, MainChanged DEF s
    <3>6. TimeKnown'
      <4>1. \E j \in t : Stale(calls'[j])
        BY <2>5, <3>2 DEF Follows, Stale, t
      <4>2. faults = 0 /\ mp'.phase = "ready" /\ (\A j \in At("manage", calls') : ~Stale(calls'[j]))
              => mp'.data.at = visit[Mine].at
        BY <4>1 DEF t
      <4>3. \A n \in new : /\ calls'[n].pc = "sent"
                           /\ faults = 0 /\ calls'[n].kind = "confirm" => calls'[n].arg.at = visit[Mine].at
        BY <2>5, <3>2
      <4> QED BY <1>0, <3>2, <4>2, <4>3, TimeMoved
    <3> QED BY <3>4, <3>5, <3>6 DEF ManageInv
  <2>7. CASE ~r.ok /\ kind = "reschedule" /\ calls' = Append(Others(i), q)
             /\ mp' = [mp EXCEPT !.slotsLoading = TRUE, !.pick = NoTime]
    <3>1. /\ mp'.date = mp.date /\ mp'.slotsLoading /\ mp'.pick = NoTime /\ mp'.data = mp.data
          /\ mp'.phase = mp.phase /\ mp'.busy = mp.busy /\ SameDate
      BY <1>0, <2>7 DEF ManageType, SameDate
    <3>2. PICK new : Follows("manage", calls, calls', {i}, new) /\ (\A j, n \in new : j = n /\ calls'[n] = q)
      <4>1. calls' = Append(Others(i), q) /\ q.from = "manage" /\ CallsType
        BY <1>0, <2>5, <2>7
      <4>2. PICK new : Follows("manage", calls, calls', {i}, new) /\ OneNew(new, q)
        BY <4>1, SentFor
      <4> QED BY <4>2 DEF OneNew
    <3>3. /\ AsShown => \A n \in new : OfDate(calls'[n], mp'.date)
          /\ \A n \in new : MoveIsShown(calls'[n])
      <4>1. calls[i].kind = "reschedule" /\ (AsShown => OfDate(calls[i], mp.date))
        BY <1>3, <2>1, <2>7
      <4>2. AsShown => q.arg = mp.date
        BY <2>5, <4>1 DEF OfDate
      <4>3. (AsShown => OfDate(q, mp.date)) /\ MoveIsShown(q)
        BY <2>5, <4>2 DEF OfDate, MoveIsShown
      <4>4. \A n \in new : calls'[n] = q
        BY <3>2
      <4> QED BY <3>1, <4>3, <4>4
    <3>4. DateShown'
      BY <1>0, <1>3, <3>1, <3>2, <3>3, DateMoved
    <3>5. OneMain'
      <4>1. ~isIdle'
        BY <2>4, <3>1 DEF isIdle
      <4> QED BY <2>3, <3>2, <4>1, MainChanged DEF s
    <3>6. TimeKnown'
      <4>1. ~Stale(calls[i])
        BY <2>1, <2>7 DEF Stale
      <4>2. \A n \in new : calls'[n].pc = "sent" /\ calls'[n].kind # "confirm"
        BY <2>5, <3>2
      <4> QED BY <1>6, <3>1, <3>2, <4>1, <4>2
    <3> QED BY <3>4, <3>5, <3>6 DEF ManageInv
  <2>8. CASE ~r.ok /\ mp' = [mp EXCEPT !.busy = ""] /\ calls' = Others(i)
    <3>1. /\ mp'.date = mp.date /\ mp'.slots = mp.slots /\ mp'.slotsLoading = mp.slotsLoading
          /\ mp'.pick = mp.pick /\ mp'.phase = mp.phase /\ mp'.data = mp.data /\ SameDate
      BY <1>0, <2>8 DEF ManageType, SameDate
    <3>2. Follows("manage", calls, calls', {i}, {})
      BY <1>0, <2>8, OwnTake
    <3>3. DateShown'
      BY <1>0, <1>3, <3>1, <3>2, DateMoved
    <3>4. OneMain'
      BY <2>3, <3>2, MainChanged DEF s
    <3>5. TimeKnown'
      <4>1. ~Stale(calls[i])
        BY <2>1, <2>8 DEF Stale
      <4> QED BY <1>6, <3>1, <3>2, <4>1
    <3> QED BY <3>3, <3>4, <3>5 DEF ManageInv
  <2> QED BY <2>2, <2>6, <2>7, <2>8
<1> QED BY <1>5, <1>7, <1>8 DEF ManageReply

\* The link's invariant holds at the start
LEMMA ManageStarts ==
  ASSUME Init
  PROVE  ManageInv
<1>1. /\ \A i \in DOMAIN calls : calls[i].kind \in {"get", "agenda", "reviews", "list", "settings"} /\ calls[i].pc = "sent"
      /\ \A i, j \in DOMAIN calls : calls[i].from = calls[j].from => i = j
  BY StartCalls DEF Starts, StartCall
<1>2. mp.phase = "loading" /\ mp.slots = {} /\ mp.pick = NoTime
  BY DEF Init, ManageInit
<1>3. DateShown /\ OneMain /\ TimeKnown
  BY <1>1, <1>2 DEF DateShown, MoveIsShown, OfDate, OneMain, TimeKnown, IsMain, isIdle, At
<1> QED BY <1>3 DEF ManageInv

\* and is kept by every step.
LEMMA ManageStays ==
  ASSUME Types, Types', ManageInv, [Next]_vars
  PROVE  ManageInv'
<1>1. "manage" \in PageNames
  BY DEF PageNames
<1>2. CASE PageSteps("manage") /\ Untouched
  BY <1>2, ManageClicked, ManageAnswered DEF PageSteps
<1> QED BY <1>1, <1>2, Frame, ManageFrame, ManageServes

\* A customer moves to the date her form shows, and confirms the time her page shows,
\* whatever is lost or late and after any number of moves, but for the emptied date and
\* the date chosen in haste (agendamento/[token]/page.tsx:174-265).
THEOREM ActsAsShown == Spec => []ActsOnWhatIsShown
<1>1. ASSUME Types, ManageInv PROVE ActsOnWhatIsShown
  <2>1. \A i \in DOMAIN calls : calls[i].kind \in {"reschedule", "confirm"} => i \in At("manage", calls)
    <3> SUFFICES ASSUME NEW i \in DOMAIN calls, calls[i].kind \in {"reschedule", "confirm"} PROVE calls[i].from = "manage"
      BY DEF At
    <3>1. CallType(calls[i])
      BY <1>1 DEF Types, CallsType
    <3> QED BY <3>1 DEF CallType, PageNames, KindsOf, ManageKinds, AgendaKinds, ReviewKinds, ClientKinds, SettingsKinds
  <2> QED BY <1>1, <2>1 DEF ManageInv, DateShown, MoveIsShown, TimeKnown, ActsOnWhatIsShown
<1>2. Types /\ ManageInv /\ [Next]_vars => (Types /\ ManageInv)'
  BY TypesStay, ManageStays
<1> QED BY <1>1, <1>2, TypesInit, ManageStarts, PTL DEF Spec

--------------------------------------------------------------------------------
(* What the server and the network do to a page's requests.                *)

\* Request i of the page was served, or it or its answer was lost.
Handled(page, i) ==
  /\ At(page, calls') = At(page, calls) /\ limits' = limits
  /\ \A j \in At(page, calls) :
       /\ j # i => calls'[j] = calls[j]
       /\ calls'[j].kind = calls[j].kind /\ calls'[j].arg = calls[j].arg /\ calls'[j].then = calls[j].then
  /\ \/ /\ Serve(i) /\ Effects(i) /\ Served(i) /\ calls[i].pc # "done"
        /\ \/ calls'[i].pc = "done"
           \/ Reads(i) /\ calls'[i].pc = "read"
           \/ calls[i].kind = "save" /\ calls'[i].pc = "written"
     \/ /\ faults' = faults + 1 /\ UNCHANGED tables
        /\ calls'[i].pc = "done" /\ ~calls'[i].res.ok

\* An answer is the one replied.
LEMMA AnswerIs ==
  ASSUME CallsType, NEW i \in DOMAIN calls, NEW r, Reply(i, r)
  PROVE  calls'[i].pc = "done" /\ calls'[i].res = r
<1>1. Marks(i, "done", r)
  BY DEF Reply, Marks
<1> QED BY <1>1, MarkedAt

\* Whatever is served or lost is handled so.
LEMMA HandledSo ==
  ASSUME Types, NEW page, NEW i \in At(page, calls), Serve(i) \/ Lose(i) \/ LoseAnswer(i)
  PROVE  Handled(page, i)
<1>0. CallsType /\ i \in DOMAIN calls /\ At(page, calls) \subseteq DOMAIN calls
  BY DEF Types, At
<1>1. CallType(calls[i])
  BY <1>0 DEF CallsType
<1>2. ASSUME NEW p, NEW r, Marks(i, p, r)
      PROVE  /\ At(page, calls') = At(page, calls) /\ calls'[i].pc = p /\ calls'[i].res = r
             /\ \A j \in At(page, calls) :
                  /\ j # i => calls'[j] = calls[j]
                  /\ calls'[j].kind = calls[j].kind /\ calls'[j].arg = calls[j].arg
                  /\ calls'[j].then = calls[j].then
  BY <1>0, <1>2, MarkedAt
<1>3. CASE Serve(i)
  <2>1. Effects(i)
    BY <1>0, <1>3, ServeEffects
  <2>2. Served(i) /\ calls[i].pc # "done"
    <3>1. CASE calls[i].kind \notin SettingsKinds
      BY <1>3, <3>1, HandlerOf
    <3>2. CASE calls[i].kind \in SettingsKinds
      <4>1. getSettings(i) \/ updateSettings(i)
        BY <1>3, <3>2, HandlerOf
      <4> QED BY <4>1 DEF getSettings, updateSettings, Is
    <3> QED BY <3>1, <3>2
  <2>3. CASE \E r : Reply(i, r)
    <3>1. PICK r : Marks(i, "done", r)
      BY <2>3 DEF Reply, Marks
    <3> QED BY <1>2, <1>3, <2>1, <2>2, <3>1 DEF Handled, Effects
  <2>5. CASE Reads(i)
    <3>1. PICK r \in Status : Marks(i, "read", r)
      BY <2>5 DEF Reads
    <3> QED BY <1>2, <1>3, <2>1, <2>2, <2>5, <3>1 DEF Handled, Effects
  <2>4. CASE calls[i].kind = "save" /\ calls' = [calls EXCEPT ![i].pc = "written"]
    <3>1. calls' = [calls EXCEPT ![i] = [calls[i] EXCEPT !.pc = "written"]]
      BY <2>4
    <3> DEFINE d == [calls[i] EXCEPT !.pc = "written"]
    <3>2. /\ d.from = calls[i].from /\ d.kind = calls[i].kind /\ d.arg = calls[i].arg
          /\ d.then = calls[i].then /\ d.pc = "written"
      <4>1. calls[i] = [from |-> calls[i].from, kind |-> calls[i].kind, arg |-> calls[i].arg,
                        then |-> calls[i].then, pc |-> calls[i].pc, res |-> calls[i].res]
        BY <1>1, Zenon DEF CallType
      <4> QED BY <4>1
    <3> HIDE DEF d
    <3>3. DOMAIN calls' = DOMAIN calls /\ \A j \in DOMAIN calls : calls'[j] = IF j = i THEN d ELSE calls[j]
      BY <1>0, <3>1, ExceptFacts DEF d, CallsType
    <3>4. At(page, calls') = At(page, calls)
      BY <3>2, <3>3 DEF At
    <3> QED BY <1>0, <1>3, <2>1, <2>2, <2>4, <3>2, <3>3, <3>4 DEF Handled, Effects
  <2> QED BY <2>1, <2>3, <2>4, <2>5 DEF Effects
<1>4. CASE Lose(i) \/ LoseAnswer(i)
  <2>1. Marks(i, "done", Error(0)) /\ Fault
    BY <1>4 DEF Lose, LoseAnswer, Reply, Marks
  <2>2. ~Error(0).ok
    BY DEF Error
  <2>3. UNCHANGED tables /\ faults' = faults + 1 /\ limits' = limits
    BY <2>1 DEF Fault
  <2> QED BY <1>2, <2>1, <2>2, <2>3 DEF Handled
<1> QED BY <1>3, <1>4

\* A page's answers stay in order as requests go and come,
LEMMA OrderMoved ==
  ASSUME NEW page, InOrder(page), IsSeqOf(calls), IsSeqOf(calls'),
         NEW gone, NEW new, Follows(page, calls, calls', gone, new),
         limits' = limits, \A n \in new : calls'[n].pc = "sent"
  PROVE  InOrder(page)'
<1>1. PICK f : Origin(page, calls, calls', gone, new, f)
  BY FollowsMap
<1> DEFINE s == At(page, calls)
           t == At(page, calls')
<1>2. /\ s \subseteq Nat /\ t \subseteq Nat
      /\ \A j \in t \ new : f[j] \in s /\ calls'[j] = calls[f[j]]
      /\ \A j, k \in t \ new : j < k => f[j] < f[k]
      /\ \A j \in t \ new, k \in new : j < k
  BY <1>1 DEF Origin
<1>3. SUFFICES ASSUME ~limits.reorder,
                      NEW i \in t, calls'[i].pc # "sent", calls'[i].pc = "done" => calls'[i].res.ok,
                      NEW j \in t, j < i
               PROVE  calls'[j].pc = "done"
  BY DEF InOrder
<1>4. \A h \in s : calls[h].pc # "sent" /\ (calls[h].pc = "done" => calls[h].res.ok)
        => \A k \in s : k < h => calls[k].pc = "done"
  BY <1>3 DEF InOrder
<1> HIDE DEF s, t
<1>5. i \notin new /\ j \notin new
  BY <1>2, <1>3
<1>6. f[i] \in s /\ f[j] \in s /\ f[j] < f[i] /\ calls'[i] = calls[f[i]] /\ calls'[j] = calls[f[j]]
  BY <1>2, <1>3, <1>5
<1> QED BY <1>3, <1>4, <1>6

\* and as they are handled.
LEMMA OrderHandled ==
  ASSUME NEW page, InOrder(page), IsSeqOf(calls), NEW i \in At(page, calls), Handled(page, i)
  PROVE  InOrder(page)'
<1> DEFINE s == At(page, calls)
<1>1. s \subseteq Nat /\ \A j \in s : calls[j].from = page /\ j >= 1
  <2>1. DOMAIN calls = 1..Len(calls) /\ Len(calls) \in Nat
    BY OwnElements DEF IsSeqOf
  <2> QED BY <2>1 DEF At
<1>2. At(page, calls') = s /\ limits' = limits /\ \A j \in s : j # i => calls'[j] = calls[j]
  BY DEF Handled
<1>3. SUFFICES ASSUME ~limits.reorder,
                      NEW k \in s, calls'[k].pc # "sent", calls'[k].pc = "done" => calls'[k].res.ok,
                      NEW j \in s, j < k
               PROVE  calls'[j].pc = "done"
  BY <1>2 DEF InOrder
<1>4. \A h \in s : calls[h].pc # "sent" /\ (calls[h].pc = "done" => calls[h].res.ok)
        => \A m \in s : m < h => calls[m].pc = "done"
  BY <1>3 DEF InOrder
<1>5. i \in s
  OBVIOUS
<1>6. (Served(i) /\ calls[i].pc # "done") \/ (calls'[i].pc = "done" /\ ~calls'[i].res.ok)
  BY DEF Handled
<1>7. Served(i) => \A m \in s : m < i => calls[m].pc = "done"
  BY <1>1, <1>3, <1>5 DEF Served, Before
<1> HIDE DEF s
<1>8. CASE k = i
  BY <1>1, <1>2, <1>3, <1>5, <1>6, <1>7, <1>8
<1>9. CASE k # i
  <2>1. calls[j].pc = "done" /\ j \in s
    BY <1>2, <1>3, <1>4, <1>9
  <2>2. CASE j = i
    BY <1>6, <2>1, <2>2
  <2> QED BY <1>2, <2>1, <2>2
<1> QED BY <1>8, <1>9

--------------------------------------------------------------------------------
(* What the steps of the clients' page do, to the list and to the card.    *)

ListPart == <<ListQuery(cp), cp.of, cp.failed, cp.loading>>
SamePlace == UNCHANGED <<cp.selected, cp.detailLoading, cp.overlapped>>
CardPart == <<cp.selected, cp.detail, cp.detailLoading, cp.notes, cp.tags, cp.saving, cp.mixed, cp.overlapped>>

\* A new list is asked for, or its answer taken.
Lists == calls' = Append(calls, ListCall(cp')) /\ UNCHANGED <<cp.of, cp.failed>>
Listed(i) ==
  /\ Answers(i, "clients", "list") /\ calls' = Others(i) /\ ListQuery(cp') = ListQuery(cp) /\ ~cp'.loading
  /\ IF calls[i].res.ok THEN cp'.of = calls[i].arg ELSE cp'.failed

\* Text is edited on the card, the card is left, a card is opened, or its answer taken.
Edits ==
  /\ UNCHANGED <<calls, cp.detail, cp.saving, cp.mixed>> /\ SamePlace /\ cardShown
  /\ cp'.notes \in {cp.notes, Nothing, cp.detail.of} /\ cp'.tags \in {cp.tags, Nothing, cp.detail.of}
Leaves == UNCHANGED <<calls, cp.detailLoading, cp.saving, cp.mixed, cp.overlapped>> /\ cp'.selected = Nothing
Opens ==
  /\ UNCHANGED <<cp.saving, cp.mixed, cp.overlapped>> /\ cp'.detailLoading
  /\ \E c \in Client : cp'.selected = c /\ calls' = Append(calls, Call("clients", "card", c, ""))
Opened(i) ==
  LET r == calls[i].res
  IN /\ Answers(i, "clients", "card") /\ calls' = Others(i)
     /\ UNCHANGED <<cp.saving, cp.overlapped>> /\ ~cp'.detailLoading
     /\ cp'.mixed = (cp.mixed \/ Mixes(calls[i].arg))
     /\ IF r.ok THEN /\ cp'.selected = cp.selected /\ cp'.notes = r.val.notes /\ cp'.tags = r.val.tags
                     /\ cp'.detail = [of |-> r.val.of, consent |-> r.val.consent, tags |-> r.val.tags]
        ELSE cp'.selected = Nothing

\* What the page saves, and what a save's answer does to the card.
Carried(kind, arg) ==
  /\ kind = "notes" => arg = [id |-> cp.selected, text |-> cp.notes]
  /\ kind = "consent" => arg = [id |-> cp.selected, to |-> ~cp.detail.consent]
  /\ kind = "profile" => arg = [id |-> cp.selected, tags |-> cp.tags]
Saving(kind) ==
  /\ cardShown /\ kind \notin cp.saving /\ cp'.saving = cp.saving \cup {kind}
  /\ UNCHANGED <<cp.selected, cp.detail, cp.detailLoading, cp.notes, cp.tags, cp.mixed>>
  /\ cp'.overlapped = (cp.overlapped \/ (kind = "consent" /\ inFlight("profile"))
                                     \/ (kind = "profile" /\ inFlight("consent")))
  /\ \E arg : Carried(kind, arg) /\ calls' = Append(calls, Call("clients", kind, arg, cp.detail))
Saved(i, kind) ==
  LET c == calls[i]
  IN /\ Answers(i, "clients", kind) /\ calls' = Others(i)
     /\ SamePlace /\ UNCHANGED cp.notes /\ cp'.saving = cp.saving \ {kind}
     /\ cp'.mixed = (cp.mixed \/ Mixes(c.arg.id))
     /\ cp'.detail = IF c.res.ok /\ kind = "consent" THEN [c.then EXCEPT !.consent = c.arg.to]
                     ELSE IF c.res.ok /\ kind = "profile" THEN [c.then EXCEPT !.tags = c.arg.tags]
                     ELSE cp.detail
     /\ cp'.tags = IF c.res.ok /\ kind = "profile" THEN c.arg.tags ELSE cp.tags

SaveKinds == {"notes", "consent", "profile"}
CardSteps ==
  \/ Edits \/ Leaves \/ Opens \/ (\E kind \in SaveKinds : Saving(kind))
  \/ \E i \in DOMAIN calls : Opened(i) \/ \E kind \in SaveKinds : Saved(i, kind)
ListSteps == UNCHANGED <<ListPart, calls>> \/ Lists \/ \E i \in DOMAIN calls : Listed(i)

\* A list is loaded without a look at the card.
LEMMA ListLoads ==
  ASSUME NEW p, SameList(p), loadList(p),
         \A x \in {"selected", "detail", "detailLoading", "notes", "tags", "saving", "mixed", "overlapped", "of", "failed",
                   "loading"} : p[x] = cp[x]
  PROVE  UNCHANGED CardPart /\ ListSteps
<1>1. CASE ListQuery(p) = ListQuery(cp) /\ cp' = p /\ UNCHANGED calls
  BY <1>1 DEF CardPart, ListPart, ListSteps
<1>2. CASE cp' = [p EXCEPT !.loading = TRUE, !.error = FALSE] /\ calls' = Append(calls, ListCall(p))
  <2>1. /\ cp'.selected = p.selected /\ cp'.detail = p.detail /\ cp'.detailLoading = p.detailLoading
        /\ cp'.notes = p.notes /\ cp'.tags = p.tags /\ cp'.saving = p.saving /\ cp'.mixed = p.mixed
        /\ cp'.overlapped = p.overlapped /\ cp'.of = p.of /\ cp'.failed = p.failed
        /\ cp'.q = p.q /\ cp'.page = p.page
    BY <1>2 DEF SameList
  <2>2. ListCall(p) = ListCall(cp')
    BY <2>1 DEF ListCall, ListQuery
  <2> QED BY <1>2, <2>1, <2>2 DEF CardPart, ListSteps, Lists
<1> QED BY <1>1, <1>2 DEF loadList

\* So do the filters, the pager and the timer of the search.
LEMMA Filters ==
  ASSUME ClientsType, NEW x, NEW t \in BOOLEAN, NEW n \in Nat \ {0}
  PROVE  /\ loadList([cp EXCEPT !.timer = FALSE, !.q.search = cp.typed, !.page = n]) => UNCHANGED CardPart /\ ListSteps
         /\ loadList([cp EXCEPT !.q.segment = x, !.page = n]) => UNCHANGED CardPart /\ ListSteps
         /\ loadList([cp EXCEPT !.q.inactive = x, !.page = n]) => UNCHANGED CardPart /\ ListSteps
         /\ loadList([cp EXCEPT !.q = NoFilter, !.typed = Client, !.page = n, !.timer = t])
              => UNCHANGED CardPart /\ ListSteps
         /\ loadList([cp EXCEPT !.page = n]) => UNCHANGED CardPart /\ ListSteps
<1> DEFINE S == {"selected", "detail", "detailLoading", "notes", "tags", "saving", "mixed", "overlapped", "of", "failed",
                 "loading"}
<1>1. ASSUME NEW p, SameList(p), \A y \in S : p[y] = cp[y], loadList(p) PROVE UNCHANGED CardPart /\ ListSteps
  BY <1>1, ListLoads
<1>2. LET p == [cp EXCEPT !.timer = FALSE, !.q.search = cp.typed, !.page = n]
      IN SameList(p) /\ \A y \in S : p[y] = cp[y]
  BY DEF ClientsType, SameList
<1>3. LET p == [cp EXCEPT !.q.segment = x, !.page = n]
      IN SameList(p) /\ \A y \in S : p[y] = cp[y]
  BY DEF ClientsType, SameList
<1>4. LET p == [cp EXCEPT !.q.inactive = x, !.page = n]
      IN SameList(p) /\ \A y \in S : p[y] = cp[y]
  BY DEF ClientsType, SameList
<1>5. LET p == [cp EXCEPT !.q = NoFilter, !.typed = Client, !.page = n, !.timer = t]
      IN SameList(p) /\ \A y \in S : p[y] = cp[y]
  BY DEF ClientsType, SameList
<1>6. LET p == [cp EXCEPT !.page = n]
      IN SameList(p) /\ \A y \in S : p[y] = cp[y]
  BY DEF ClientsType, SameList
<1> HIDE DEF S
<1> QED BY <1>1, <1>2, <1>3, <1>4, <1>5, <1>6, Zenon

\* Every step of the page leaves its list or its card as they are.
LEMMA ClientsSteps ==
  ASSUME Types, PageSteps("clients")
  PROVE  (UNCHANGED CardPart /\ ListSteps) \/ (UNCHANGED ListPart /\ CardSteps)
<1>0. ClientsType /\ CallsType /\ 1 \in Nat \ {0}
  BY DEF Types
<1>1. CASE Debounce \/ (\E s \in limits.segments : ChooseSegment(s)) \/ (\E n \in limits.inactive : ChooseInactive(n))
  BY <1>0, <1>1, Filters, Zenon DEF Debounce, ChooseSegment, ChooseInactive
<1>2. CASE ClearFilters
  <2> DEFINE t == cp.timer \/ cp.typed # Client
  <2>1. loadList([cp EXCEPT !.q = NoFilter, !.typed = Client, !.page = 1, !.timer = t]) /\ t \in BOOLEAN
    BY <1>2 DEF ClearFilters
  <2> HIDE DEF t
  <2> QED BY <1>0, <2>1, Filters, Zenon
<1>3. CASE \E by \in {-1, 1} : TurnList(by)
  <2>1. PICK by \in {-1, 1} : TurnList(by)
    BY <1>3
  <2> DEFINE n == cp.page + by
  <2>2. loadList([cp EXCEPT !.page = n]) /\ n \in 1..Max({1, (cp.total + PAGE_SIZE - 1) \div PAGE_SIZE})
    BY <2>1 DEF TurnList
  <2>3. n \in Nat \ {0}
    BY <1>0, <2>1, <2>2 DEF ClientsType
  <2> HIDE DEF n
  <2> QED BY <1>0, <2>2, <2>3, Filters, Zenon
<1>4. CASE \E s \in limits.searches : TypeSearch(s)
  <2>1. PICK s : cp' = [cp EXCEPT !.typed = s, !.timer = TRUE] /\ UNCHANGED calls
    BY <1>4 DEF TypeSearch
  <2>2. UNCHANGED <<CardPart, ListPart>>
    BY <1>0, <2>1 DEF ClientsType, CardPart, ListPart, ListQuery
  <2> QED BY <2>1, <2>2 DEF ListSteps
<1>5. CASE Back
  <2>1. cp' = [cp EXCEPT !.selected = Nothing, !.detail = Nothing] /\ UNCHANGED calls
    BY <1>5 DEF Back
  <2>2. UNCHANGED ListPart /\ Leaves
    BY <1>0, <2>1 DEF ClientsType, ListPart, ListQuery, Leaves
  <2> QED BY <2>2 DEF CardSteps
<1>6. CASE \E text \in Client \cup {Nothing} : EditNotes(text) \/ EditTags(text)
  <2>1. PICK text : EditNotes(text) \/ EditTags(text)
    BY <1>6
  <2>2. UNCHANGED ListPart
    BY <1>0, <2>1 DEF ClientsType, ListPart, ListQuery, EditNotes, EditTags
  <2>3. Edits
    BY <1>0, <2>1 DEF ClientsType, Edits, SamePlace, EditNotes, EditTags
  <2> QED BY <2>2, <2>3 DEF CardSteps
<1>7. CASE \E n \in DOMAIN cp.items : openDetail(cp.items[n].id)
  <2>1. PICK n \in DOMAIN cp.items : openDetail(cp.items[n].id)
    BY <1>7
  <2> DEFINE c == cp.items[n].id
  <2>2. c \in Client
    BY <1>0, <2>1 DEF ClientsType
  <2>3. cp' = [cp EXCEPT !.selected = c, !.detailLoading = TRUE, !.error = FALSE]
        /\ calls' = Append(calls, Call("clients", "card", c, ""))
    BY <2>1 DEF openDetail
  <2> HIDE DEF c
  <2>4. UNCHANGED ListPart /\ UNCHANGED <<cp.saving, cp.mixed, cp.overlapped>> /\ cp'.detailLoading
        /\ cp'.selected = c
    BY <1>0, <2>3 DEF ClientsType, ListPart, ListQuery
  <2> QED BY <2>2, <2>3, <2>4 DEF CardSteps, Opens
<1>8. ASSUME NEW kind \in SaveKinds, NEW arg, Carried(kind, arg), Save(kind, arg)
      PROVE  UNCHANGED ListPart /\ CardSteps
  <2> DEFINE o == cp.overlapped \/ (kind = "consent" /\ inFlight("profile"))
                                \/ (kind = "profile" /\ inFlight("consent"))
  <2>1. /\ cp' = [cp EXCEPT !.saving = @ \cup {kind}, !.error = FALSE, !.overlapped = o]
        /\ cardShown /\ kind \notin cp.saving /\ calls' = Append(calls, Call("clients", kind, arg, cp.detail))
    BY <1>8 DEF Save
  <2> HIDE DEF o
  <2>2. UNCHANGED ListPart /\ cp'.saving = cp.saving \cup {kind} /\ cp'.overlapped = o
        /\ UNCHANGED <<cp.selected, cp.detail, cp.detailLoading, cp.notes, cp.tags, cp.mixed>>
    BY <1>0, <2>1 DEF ClientsType, ListPart, ListQuery
  <2>3. Saving(kind)
    BY <1>8, <2>1, <2>2 DEF Saving, o
  <2> QED BY <2>2, <2>3 DEF CardSteps
<1>9. CASE saveNotes \/ toggleMarketingConsent \/ saveProfile
  <2>1. /\ Carried("notes", [id |-> cp.selected, text |-> cp.notes])
        /\ Carried("consent", [id |-> cp.selected, to |-> ~cp.detail.consent])
        /\ Carried("profile", [id |-> cp.selected, tags |-> cp.tags])
        /\ "notes" \in SaveKinds /\ "consent" \in SaveKinds /\ "profile" \in SaveKinds
    BY DEF Carried, SaveKinds
  <2> QED BY <1>8, <1>9, <2>1 DEF saveNotes, toggleMarketingConsent, saveProfile
<1>10. CASE \E i \in DOMAIN calls : ListReply(i)
  <2>1. PICK i \in DOMAIN calls : ListReply(i)
    BY <1>10
  <2>2. UNCHANGED CardPart /\ ListQuery(cp') = ListQuery(cp) /\ ~cp'.loading
        /\ IF calls[i].res.ok THEN cp'.of = calls[i].arg ELSE cp'.failed
    BY <1>0, <2>1 DEF ClientsType, ListReply, CardPart, ListQuery
  <2> QED BY <2>1, <2>2 DEF ListSteps, Listed, ListReply
<1>11. CASE \E i \in DOMAIN calls : CardReply(i)
  <2>1. PICK i \in DOMAIN calls : CardReply(i)
    BY <1>11
  <2> DEFINE r == calls[i].res
             d == [of |-> r.val.of, consent |-> r.val.consent, tags |-> r.val.tags]
             m == cp.mixed \/ Mixes(calls[i].arg)
             p == IF r.ok THEN [cp EXCEPT !.detail = d, !.notes = r.val.notes, !.tags = r.val.tags]
                  ELSE [cp EXCEPT !.error = TRUE, !.selected = Nothing]
  <2>2. cp' = [p EXCEPT !.detailLoading = FALSE, !.mixed = @ \/ Mixes(calls[i].arg)]
        /\ Answers(i, "clients", "card") /\ calls' = Others(i)
    BY <2>1 DEF CardReply
  <2> HIDE DEF d
  <2>3. /\ p.mixed = cp.mixed /\ p.saving = cp.saving /\ p.overlapped = cp.overlapped
        /\ ListQuery(p) = ListQuery(cp) /\ p.of = cp.of /\ p.failed = cp.failed /\ p.loading = cp.loading
        /\ IF r.ok THEN p.selected = cp.selected /\ p.notes = r.val.notes /\ p.tags = r.val.tags /\ p.detail = d
           ELSE p.selected = Nothing
        /\ DOMAIN p = DOMAIN cp /\ p = [y \in DOMAIN cp |-> p[y]]
    BY <1>0 DEF ClientsType, ListQuery
  <2> HIDE DEF p
  <2>4. cp' = [p EXCEPT !.detailLoading = FALSE, !.mixed = m]
    BY <2>2, <2>3
  <2> HIDE DEF m
  <2>5. DOMAIN cp = {"q", "typed", "timer", "page", "items", "total", "of", "loading", "error", "failed", "selected",
                     "detail", "detailLoading", "notes", "tags", "saving", "mixed", "overlapped"}
    BY <1>0 DEF ClientsType
  <2>6. /\ cp'.mixed = m /\ ~cp'.detailLoading /\ cp'.saving = p.saving /\ cp'.overlapped = p.overlapped
        /\ cp'.q = p.q /\ cp'.page = p.page /\ cp'.of = p.of /\ cp'.failed = p.failed /\ cp'.loading = p.loading
        /\ cp'.selected = p.selected /\ cp'.notes = p.notes /\ cp'.tags = p.tags /\ cp'.detail = p.detail
    BY <2>3, <2>4, <2>5
  <2>7. UNCHANGED ListPart
    BY <2>3, <2>6 DEF ListPart, ListQuery
  <2>8. Opened(i)
    BY <2>2, <2>3, <2>6 DEF Opened, d, m
  <2> QED BY <2>1, <2>7, <2>8 DEF CardSteps
<1>12. ASSUME NEW i \in DOMAIN calls, NEW kind \in SaveKinds, NEW d, NEW t,
              SaveReply(i, kind, [cp EXCEPT !.detail = d, !.tags = t]),
              LET c == calls[i]
              IN c.res.ok => /\ d = IF kind = "consent" THEN [c.then EXCEPT !.consent = c.arg.to]
                                    ELSE IF kind = "profile" THEN [c.then EXCEPT !.tags = c.arg.tags]
                                    ELSE cp.detail
                             /\ t = IF kind = "profile" THEN c.arg.tags ELSE cp.tags
       PROVE  UNCHANGED ListPart /\ CardSteps
  <2> DEFINE m == cp.mixed \/ Mixes(calls[i].arg.id)
             p == IF calls[i].res.ok THEN [cp EXCEPT !.detail = d, !.tags = t] ELSE [cp EXCEPT !.error = TRUE]
  <2>1. cp' = [p EXCEPT !.saving = @ \ {kind}, !.mixed = @ \/ Mixes(calls[i].arg.id)]
        /\ Answers(i, "clients", kind) /\ calls' = Others(i)
    BY <1>12 DEF SaveReply
  <2>2. /\ p.mixed = cp.mixed /\ p.saving = cp.saving /\ p.overlapped = cp.overlapped
        /\ ListQuery(p) = ListQuery(cp) /\ p.of = cp.of /\ p.failed = cp.failed /\ p.loading = cp.loading
        /\ p.selected = cp.selected /\ p.notes = cp.notes /\ p.detailLoading = cp.detailLoading
        /\ p.detail = (IF calls[i].res.ok THEN d ELSE cp.detail)
        /\ p.tags = (IF calls[i].res.ok THEN t ELSE cp.tags)
        /\ DOMAIN p = DOMAIN cp /\ p = [y \in DOMAIN cp |-> p[y]]
    BY <1>0 DEF ClientsType, ListQuery
  <2> HIDE DEF p
  <2>3. cp' = [p EXCEPT !.saving = @ \ {kind}, !.mixed = m]
    BY <2>1, <2>2
  <2> HIDE DEF m
  <2>4. DOMAIN cp = {"q", "typed", "timer", "page", "items", "total", "of", "loading", "error", "failed", "selected",
                     "detail", "detailLoading", "notes", "tags", "saving", "mixed", "overlapped"}
    BY <1>0 DEF ClientsType
  <2>5. /\ cp'.mixed = m /\ cp'.detailLoading = p.detailLoading /\ cp'.saving = p.saving \ {kind}
        /\ cp'.overlapped = p.overlapped
        /\ cp'.q = p.q /\ cp'.page = p.page /\ cp'.of = p.of /\ cp'.failed = p.failed /\ cp'.loading = p.loading
        /\ cp'.selected = p.selected /\ cp'.notes = p.notes /\ cp'.tags = p.tags /\ cp'.detail = p.detail
    BY <2>2, <2>3, <2>4
  <2>6. UNCHANGED ListPart
    BY <2>2, <2>5 DEF ListPart, ListQuery
  <2>7. Saved(i, kind)
    BY <1>12, <2>1, <2>2, <2>5 DEF Saved, SamePlace, m
  <2> QED BY <2>6, <2>7 DEF CardSteps
<1>13. CASE \E i \in DOMAIN calls : NotesReply(i) \/ ConsentReply(i) \/ ProfileReply(i)
  <2>1. PICK i \in DOMAIN calls : NotesReply(i) \/ ConsentReply(i) \/ ProfileReply(i)
    BY <1>13
  <2> DEFINE c == calls[i]
             d == [c.then EXCEPT !.consent = c.arg.to]
             e == [c.then EXCEPT !.tags = c.arg.tags]
  <2>2. /\ cp = [cp EXCEPT !.detail = cp.detail, !.tags = cp.tags]
        /\ [cp EXCEPT !.detail = d] = [cp EXCEPT !.detail = d, !.tags = cp.tags]
    BY <1>0 DEF ClientsType
  <2>3. /\ NotesReply(i) => SaveReply(i, "notes", [cp EXCEPT !.detail = cp.detail, !.tags = cp.tags])
        /\ ConsentReply(i) => SaveReply(i, "consent", [cp EXCEPT !.detail = d, !.tags = cp.tags])
        /\ ProfileReply(i) => SaveReply(i, "profile", [cp EXCEPT !.detail = e, !.tags = c.arg.tags])
    BY <2>2, Zenon DEF NotesReply, ConsentReply, ProfileReply
  <2>4. "notes" \in SaveKinds /\ "consent" \in SaveKinds /\ "profile" \in SaveKinds
    BY DEF SaveKinds
  <2>5. NotesReply(i) => UNCHANGED ListPart /\ CardSteps
    BY <1>12, <2>3, <2>4
  <2>6. ConsentReply(i) => UNCHANGED ListPart /\ CardSteps
    BY <1>12, <2>3, <2>4
  <2>7. ProfileReply(i) => UNCHANGED ListPart /\ CardSteps
    BY <1>12, <2>3, <2>4
  <2> QED BY <2>1, <2>5, <2>6, <2>7
<1> QED BY <1>1, <1>2, <1>3, <1>4, <1>5, <1>6, <1>7, <1>9, <1>10, <1>11, <1>13 DEF PageSteps, ClientsClicks, ClientsReply

--------------------------------------------------------------------------------
(* The list's and the card's invariants, as requests go and come.          *)

\* The list asked for last, unless a list is sent or taken.
LEMMA ListMoved ==
  ASSUME LastIsAsked, IsSeqOf(calls), IsSeqOf(calls'), limits' = limits, UNCHANGED ListPart,
         NEW gone, NEW new, Follows("clients", calls, calls', gone, new),
         \A i \in gone : calls[i].kind # "list", \A n \in new : calls'[n].kind # "list"
  PROVE  LastIsAsked'
<1>1. PICK f : Origin("clients", calls, calls', gone, new, f)
  BY FollowsMap
<1> DEFINE s == At("clients", calls)
           t == At("clients", calls')
<1>2. /\ \A j \in t \ new : f[j] \in s /\ calls'[j] = calls[f[j]]
      /\ \A i \in s \ gone : \E j \in t \ new : f[j] = i
      /\ \A j, k \in t \ new : j < k <=> f[j] < f[k]
      /\ s \subseteq Nat /\ t \subseteq Nat
  BY <1>1 DEF Origin
<1>3. SUFFICES ASSUME ~limits.reorder PROVE LastIsAsked'
  BY DEF LastIsAsked
<1>4. /\ \A i \in s : calls[i].kind = "list" /\ (\A j \in s : calls[j].kind = "list" => j <= i)
           => calls[i].arg = ListQuery(cp)
      /\ isOpen("clients") /\ (\A i \in s : calls[i].kind # "list") => cp.failed \/ cp.of = ListQuery(cp)
  BY <1>3 DEF LastIsAsked, IsLast
<1> HIDE DEF s, t
<1>5. ASSUME NEW j \in t, calls'[j].kind = "list", \A k \in t : calls'[k].kind = "list" => k <= j
      PROVE  calls'[j].arg = ListQuery(cp)
  <2>1. j \notin new /\ calls'[j] = calls[f[j]] /\ f[j] \in s
    BY <1>2, <1>5
  <2>2. ASSUME NEW i \in s, calls[i].kind = "list" PROVE i <= f[j]
    <3>1. PICK k \in t \ new : f[k] = i
      BY <1>2, <2>2
    <3>2. k <= j
      <4>1. calls'[k] = calls[i]
        BY <1>2, <3>1
      <4> QED BY <1>5, <2>2, <3>1, <4>1
    <3>3. k = j \/ k < j
      <4>1. k \in Nat /\ j \in Nat
        BY <1>2, <1>5, <3>1
      <4> QED BY <3>2, <4>1
    <3>4. i = f[j] \/ i < f[j]
      BY <1>2, <2>1, <3>1, <3>3
    <3>5. i \in Nat /\ f[j] \in Nat
      BY <1>2, <2>1, <2>2
    <3> QED BY <3>4, <3>5
  <2> QED BY <1>4, <1>5, <2>1, <2>2
<1>6. ASSUME isOpen("clients"), \A j \in t : calls'[j].kind # "list"
      PROVE  cp.failed \/ cp.of = ListQuery(cp)
  <2>1. \A i \in s : calls[i].kind # "list"
    BY <1>2, <1>6
  <2> QED BY <1>4, <1>6, <2>1
<1>7. /\ ListQuery(cp') = ListQuery(cp) /\ cp'.of = cp.of /\ cp'.failed = cp.failed
      /\ (isOpen("clients")' <=> isOpen("clients"))
  BY DEF ListPart, isOpen
<1> QED BY <1>3, <1>5, <1>6, <1>7 DEF LastIsAsked, IsLast, t, ListQuery

\* Cards and records are kept apart,
LEMMA ApartMoved ==
  ASSUME RecordsApart, card' = card, NEW gone, NEW new, Follows("clients", calls, calls', gone, new),
         ~cp'.mixed => ~cp.mixed /\ OwnCard' /\ \A n \in new : OwnCall(calls'[n])
  PROVE  RecordsApart'
<1>1. SUFFICES ASSUME ~cp'.mixed PROVE \A j \in At("clients", calls') : OwnCall(calls'[j])
  BY DEF RecordsApart, OwnCall, Own
<1>2. \A i \in At("clients", calls) : OwnCall(calls[i])
  BY <1>1 DEF RecordsApart
<1>3. \A j \in At("clients", calls') : j \in new \/ \E i \in At("clients", calls) : calls'[j] = calls[i]
  BY FollowsOld
<1> QED BY <1>1, <1>2, <1>3

\* one consent is saved at a time,
LEMMA ConsentMoved ==
  ASSUME OneConsent, IsSeqOf(calls), IsSeqOf(calls'),
         NEW gone, NEW new, Follows("clients", calls, calls', gone, new),
         \A m, n \in new : m = n, ~cp'.overlapped => ~cp.overlapped,
         \A n \in new : calls'[n].kind = "consent" => "consent" \in cp'.saving,
         \A i \in At("clients", calls) \ gone : calls[i].kind = "consent" =>
           /\ "consent" \in cp'.saving
           /\ \A n \in new : calls'[n].kind # "consent" /\ (~cp'.overlapped => calls'[n].kind # "profile"),
         ~cp'.overlapped => \A i \in At("clients", calls) \ gone : calls[i].kind = "profile" =>
                              \A n \in new : calls'[n].kind # "consent"
  PROVE  OneConsent'
<1>1. PICK f : Origin("clients", calls, calls', gone, new, f)
  BY FollowsMap
<1> DEFINE s == At("clients", calls)
           t == At("clients", calls')
<1>2. /\ \A j \in t \ new : f[j] \in s \ gone /\ calls'[j] = calls[f[j]]
      /\ \A j, k \in t \ new : f[j] = f[k] => j = k
  BY <1>1 DEF Origin
<1>3. /\ \A i, j \in s : calls[i].kind = "consent" /\ calls[j].kind = "consent" => i = j
      /\ ~cp.overlapped => \A i, j \in s : ~(calls[i].kind = "consent" /\ calls[j].kind = "profile")
  BY DEF OneConsent
<1>4. \A i \in s \ gone : calls[i].kind = "consent" =>
        /\ "consent" \in cp'.saving
        /\ \A n \in new : calls'[n].kind # "consent" /\ (~cp'.overlapped => calls'[n].kind # "profile")
  OBVIOUS
<1>5. ~cp'.overlapped => \A i \in s \ gone : calls[i].kind = "profile" => \A n \in new : calls'[n].kind # "consent"
  OBVIOUS
<1> HIDE DEF s, t
<1>6. \A j, k \in t : calls'[j].kind = "consent" /\ calls'[k].kind = "consent" => j = k
  BY <1>2, <1>3, <1>4
<1>7. \A j \in t : calls'[j].kind = "consent" => "consent" \in cp'.saving
  BY <1>2, <1>4
<1>8. ~cp'.overlapped => \A j, k \in t : ~(calls'[j].kind = "consent" /\ calls'[k].kind = "profile")
  BY <1>2, <1>3, <1>4, <1>5
<1> QED BY <1>6, <1>7, <1>8 DEF OneConsent, t

\* and the page, or a consent on its way, knows what was consented to.
LEMMA KnownMoved ==
  ASSUME ConsentKnown, IsSeqOf(calls), IsSeqOf(calls'), card' = card, limits' = limits,
         NEW gone, NEW new, Follows("clients", calls, calls', gone, new),
         Calm' => /\ Calm /\ ShownKnown'
                  /\ \A n \in new : calls'[n].pc = "sent" /\ SavesOf(calls'[n])
                  /\ \A i \in gone : \A j \in At("clients", calls) : i <= j
  PROVE  ConsentKnown'
<1>1. PICK f : Origin("clients", calls, calls', gone, new, f)
  BY FollowsMap
<1> DEFINE s == At("clients", calls)
           t == At("clients", calls')
<1>2. /\ \A j \in t \ new : f[j] \in s \ gone /\ calls'[j] = calls[f[j]]
      /\ \A i \in s \ gone : \E j \in t \ new : f[j] = i
      /\ \A j, k \in t \ new : j < k <=> f[j] < f[k]
      /\ s \subseteq Nat /\ t \subseteq Nat
  BY <1>1 DEF Origin
<1>3. SUFFICES ASSUME Calm' PROVE CardsKnown' /\ \A j \in t : SavesOf(calls'[j])
  BY DEF ConsentKnown, SavesOf
<1>4. /\ \A n \in new : calls'[n].pc = "sent" /\ SavesOf(calls'[n])
      /\ \A i \in gone : \A j \in s : i <= j
      /\ \A i \in s : SavesOf(calls[i])
  BY <1>3 DEF ConsentKnown
<1>5. \A i \in s : calls[i].kind = "card" /\ calls[i].pc = "done" /\ calls[i].res.ok =>
        \/ calls[i].res.val.consent = card[calls[i].arg].consent
        \/ \E j \in s : j > i /\ calls[j].kind = "consent" /\ calls[j].arg.id = calls[i].arg
  BY <1>3 DEF ConsentKnown, CardsKnown, Brings, Consents
<1> HIDE DEF s, t
<1>6. ASSUME NEW j \in t, calls'[j].kind = "card", calls'[j].pc = "done", calls'[j].res.ok
      PROVE  \/ calls'[j].res.val.consent = card[calls'[j].arg].consent
             \/ \E k \in t : k > j /\ calls'[k].kind = "consent" /\ calls'[k].arg.id = calls'[j].arg
  <2>1. j \notin new /\ f[j] \in s \ gone /\ calls'[j] = calls[f[j]]
    BY <1>2, <1>4, <1>6
  <2>2. CASE calls[f[j]].res.val.consent = card[calls[f[j]].arg].consent
    BY <2>1, <2>2
  <2>3. CASE \E h \in s : h > f[j] /\ calls[h].kind = "consent" /\ calls[h].arg.id = calls[f[j]].arg
    <3>1. PICK h \in s : h > f[j] /\ calls[h].kind = "consent" /\ calls[h].arg.id = calls[f[j]].arg
      BY <2>3
    <3>2. h \notin gone
      <4>1. h \in Nat /\ f[j] \in Nat /\ f[j] \in s
        <5>1. f[j] \in s
          BY <2>1
        <5> QED BY <1>2, <3>1, <5>1
      <4>2. ~(h <= f[j])
        BY <3>1, <4>1
      <4> QED BY <1>4, <4>1, <4>2
    <3>3. PICK k \in t \ new : f[k] = h
      BY <1>2, <3>1, <3>2
    <3>4. k > j
      <4>1. j < k <=> f[j] < f[k]
        BY <1>2, <1>6, <2>1, <3>3
      <4>2. j \in Nat /\ k \in Nat /\ f[j] \in Nat /\ h \in Nat
        BY <1>2, <1>6, <2>1, <3>1, <3>3
      <4> QED BY <3>1, <3>3, <4>1, <4>2
    <3>5. calls'[k] = calls[h] /\ k \in t
      BY <1>2, <3>3
    <3> QED BY <2>1, <3>1, <3>4, <3>5
  <2> QED BY <1>5, <1>6, <2>1, <2>2, <2>3
<1>7. \A j \in t : SavesOf(calls'[j])
  BY <1>2, <1>4
<1> QED BY <1>6, <1>7 DEF CardsKnown, Brings, Consents, t

\* The card shown still shows what is stored when other answers than a consent's are taken.
LEMMA ShownMoved ==
  ASSUME ShownKnown, card' = card, cp'.selected = cp.selected, cp'.detail = cp.detail,
         cp'.detailLoading = cp.detailLoading,
         NEW gone, NEW new, Follows("clients", calls, calls', gone, new),
         \A i \in gone : calls[i].kind # "consent"
  PROVE  ShownKnown'
<1>1. SUFFICES ASSUME cardShown'
               PROVE  \/ cp.detail.consent = card[cp.selected].consent
                      \/ \E j \in At("clients", calls') : Consents(j, cp.selected)'
  BY DEF ShownKnown
<1>2. \/ cp.detail.consent = card[cp.selected].consent
      \/ \E i \in At("clients", calls) : Consents(i, cp.selected)
  BY <1>1 DEF ShownKnown, cardShown
<1>3. \A i \in At("clients", calls) \ gone : \E j \in At("clients", calls') : calls'[j] = calls[i]
  BY FollowsOld
<1>4. \A i \in At("clients", calls) : Consents(i, cp.selected) => i \notin gone
  BY DEF Consents
<1> QED BY <1>2, <1>3, <1>4 DEF Consents

\* The steps of the others.
LEMMA ClientsFrame ==
  ASSUME Types, Types', ClientsInv, Keeps("clients"), SamePage("clients"), SameTables("clients")
  PROVE  ClientsInv'
<1>1. /\ Follows("clients", calls, calls', {}, {}) /\ IsSeqOf(calls) /\ IsSeqOf(calls')
      /\ cp' = cp /\ limits' = limits /\ (faults' = 0 => faults = 0) /\ card' = card
  BY DEF Keeps, SamePage, SameTables, Types, CallsType
<1>2. InOrder("clients") /\ LastIsAsked /\ RecordsApart /\ OneConsent /\ ConsentKnown
  BY DEF ClientsInv
<1>3. InOrder("clients")'
  BY <1>1, <1>2, OrderMoved
<1>4. LastIsAsked'
  BY <1>1, <1>2, ListMoved DEF ListPart, ListQuery
<1>5. RecordsApart'
  BY <1>1, <1>2, ApartMoved DEF RecordsApart, OwnCard
<1>6. OneConsent'
  BY <1>1, <1>2, ConsentMoved DEF OneConsent
<1>7. ConsentKnown'
  <2>1. Calm' => Calm
    BY <1>1 DEF Calm
  <2>2. Calm => ShownKnown'
    BY <1>1, <1>2, ShownMoved DEF ConsentKnown
  <2> QED BY <1>1, <1>2, <2>1, <2>2, KnownMoved
<1> QED BY <1>3, <1>4, <1>5, <1>6, <1>7 DEF ClientsInv

\* What the server does for request i of the page.
AtServer(i) ==
  LET c == calls[i]
      r == calls'[i].res
      k == c.arg.id
  IN \/ card' = card /\ (c.kind = "list" \/ ~r.ok)
     \/ /\ c.kind = "card" /\ card' = card
        /\ r.val.notes = card[c.arg].notes /\ r.val.tags = card[c.arg].tags /\ r.val.consent = card[c.arg].consent
     \/ /\ c.kind \in SaveKinds /\ r.ok
        /\ \A x \in Client \ {k} : card'[x] = card[x]
        /\ card'[k].notes = (IF c.kind = "notes" THEN c.arg.text ELSE card[k].notes)
        /\ card'[k].tags = (IF c.kind = "profile" THEN c.arg.tags ELSE card[k].tags)
        /\ card'[k].consent = (IF c.kind = "consent" THEN c.arg.to ELSE card[k].consent)

\* It does one of these whatever is lost, and while nothing is, it serves the request.
LEMMA ServedCards ==
  ASSUME Types, NEW i \in At("clients", calls), Handled("clients", i)
  PROVE  AtServer(i) /\ (faults' = 0 => faults = 0 /\ Serve(i) /\ Served(i))
<1>0. CallsType /\ i \in DOMAIN calls /\ card \in [Client -> Card] /\ faults \in Nat
  BY DEF Types, TablesType, At
<1>1. CallType(calls[i]) /\ calls[i].from = "clients"
  BY <1>0 DEF CallsType, At
<1>2. calls[i].kind \in ClientKinds
  BY <1>1 DEF CallType, PageNames, KindsOf
<1>3. CASE faults' = faults + 1 /\ UNCHANGED tables /\ ~calls'[i].res.ok
  <2>1. card' = card /\ faults' # 0
    BY <1>0, <1>3 DEF tables
  <2> QED BY <1>3, <2>1 DEF AtServer
<1>4. CASE Serve(i) /\ Effects(i) /\ Served(i)
  <2>0. faults' = faults
    BY <1>4 DEF Effects
  <2>1. CASE calls[i].kind = "list"
    <3>1. card' = card
      BY <1>4, <2>1 DEF Effects
    <3> QED BY <1>4, <2>0, <2>1, <3>1 DEF AtServer
  <2>2. CASE calls[i].kind = "card"
    <3> DEFINE c == calls[i].arg
               val == [of |-> c, notes |-> card[c].notes, tags |-> card[c].tags,
                       consent |-> card[c].consent, segment |-> resolveClientSegment(c),
                       suggestRebooking |-> /\ loadClientMetrics(c).completedCount > 0
                                            /\ loadClientMetrics(c).nextAppointmentAt = NoTime]
    <3>1. card' = card
      BY <1>4, <2>2 DEF Effects
    <3>2. Reply(i, Error(404)) \/ Reply(i, Ok(val))
      BY <1>4, <2>2, HandlerOf DEF clientDetail, Read
    <3>3. calls'[i].res = Error(404) \/ calls'[i].res = Ok(val)
      BY <1>0, <3>2, AnswerIs
    <3>4. val.notes = card[c].notes /\ val.tags = card[c].tags /\ val.consent = card[c].consent
      OBVIOUS
    <3> HIDE DEF val
    <3> QED BY <1>4, <2>0, <2>2, <3>1, <3>3, <3>4 DEF AtServer, Ok, Error
  <2>3. ASSUME NEW kind, NEW row \in Card, WriteCard(i, kind, calls[i].arg.id, row), calls[i].arg.id \in Client
        PROVE  /\ calls'[i].res.ok
               /\ \A x \in Client \ {calls[i].arg.id} : card'[x] = card[x]
               /\ card'[calls[i].arg.id] = row
    <3>1. calls'[i].res = Ok(Nothing)
      BY <1>0, <2>3, AnswerIs DEF WriteCard
    <3>2. card' = [card EXCEPT ![calls[i].arg.id] = row]
      BY <2>3 DEF WriteCard
    <3> QED BY <1>0, <2>3, <3>1, <3>2 DEF Ok
  <2> DEFINE k == calls[i].arg.id
  <2>4. CASE calls[i].kind = "notes"
    <3> DEFINE row == [card[k] EXCEPT !.notes = calls[i].arg.text]
    <3>1. k \in Client /\ calls[i].arg.text \in Text
      BY <1>1, <2>4 DEF CallType, CarriesOf
    <3>2. row \in Card /\ row.notes = calls[i].arg.text /\ row.tags = card[k].tags /\ row.consent = card[k].consent
      BY <1>0, <3>1 DEF Card, Text
    <3>3. WriteCard(i, "notes", k, row)
      BY <1>4, <2>4, HandlerOf DEF updateNotes
    <3> HIDE DEF row
    <3> QED BY <1>4, <2>0, <2>3, <2>4, <3>1, <3>2, <3>3 DEF AtServer, SaveKinds
  <2>5. CASE calls[i].kind = "consent"
    <3> DEFINE row == [card[k] EXCEPT !.consent = calls[i].arg.to]
    <3>1. k \in Client /\ calls[i].arg.to \in BOOLEAN
      BY <1>1, <2>5 DEF CallType, CarriesOf
    <3>2. row \in Card /\ row.notes = card[k].notes /\ row.tags = card[k].tags /\ row.consent = calls[i].arg.to
      BY <1>0, <3>1 DEF Card, Text
    <3>3. WriteCard(i, "consent", k, row)
      BY <1>4, <2>5, HandlerOf DEF updateMarketingConsent
    <3> HIDE DEF row
    <3> QED BY <1>4, <2>0, <2>3, <2>5, <3>1, <3>2, <3>3 DEF AtServer, SaveKinds
  <2>6. CASE calls[i].kind = "profile"
    <3> DEFINE row == [card[k] EXCEPT !.tags = calls[i].arg.tags]
    <3>1. k \in Client /\ calls[i].arg.tags \in Text
      BY <1>1, <2>6 DEF CallType, CarriesOf
    <3>2. row \in Card /\ row.notes = card[k].notes /\ row.tags = calls[i].arg.tags /\ row.consent = card[k].consent
      BY <1>0, <3>1 DEF Card, Text
    <3>3. WriteCard(i, "profile", k, row)
      BY <1>4, <2>6, HandlerOf DEF updateProfile
    <3> HIDE DEF row
    <3> QED BY <1>4, <2>0, <2>3, <2>6, <3>1, <3>2, <3>3 DEF AtServer, SaveKinds
  <2> QED BY <1>2, <2>1, <2>2, <2>4, <2>5, <2>6 DEF ClientKinds
<1> QED BY <1>3, <1>4 DEF Handled

\* The server's answers to the page, and what is lost of them.
LEMMA ClientsServes ==
  ASSUME Types, ClientsInv, UNCHANGED pages, NEW i \in At("clients", calls),
         Serve(i) \/ Lose(i) \/ LoseAnswer(i)
  PROVE  ClientsInv'
<1> DEFINE s == At("clients", calls)
<1>0. /\ cp' = cp /\ IsSeqOf(calls) /\ i \in s /\ i \in DOMAIN calls /\ CallsType
      /\ card \in [Client -> Card] /\ faults \in Nat
  BY DEF Types, TablesType, CallsType, pages, At
<1>1. Handled("clients", i)
  BY HandledSo
<1>2. /\ At("clients", calls') = s /\ limits' = limits
      /\ \A j \in s : /\ j # i => calls'[j] = calls[j]
                      /\ calls'[j].kind = calls[j].kind /\ calls'[j].arg = calls[j].arg
                      /\ calls'[j].then = calls[j].then
  BY <1>1 DEF Handled
<1>3. AtServer(i) /\ (faults' = 0 => faults = 0 /\ Serve(i) /\ Served(i))
  BY <1>1, ServedCards
<1>4. InOrder("clients") /\ LastIsAsked /\ RecordsApart /\ OneConsent /\ ConsentKnown
  BY DEF ClientsInv
<1>5. InOrder("clients")'
  BY <1>0, <1>1, <1>4, OrderHandled
<1>6. CallType(calls[i])
  BY <1>0 DEF CallsType
<1>7. /\ calls[i].kind = "card" => calls[i].arg \in Client
      /\ calls[i].kind \in SaveKinds => calls[i].arg.id \in Client
  BY <1>6 DEF CallType, CarriesOf, SaveKinds
<1> HIDE DEF s
<1>8. LastIsAsked'
  BY <1>0, <1>2, <1>4 DEF LastIsAsked, IsLast, isOpen, s
<1>9. OneConsent'
  BY <1>0, <1>2, <1>4 DEF OneConsent, s
<1>10. RecordsApart'
  <2>1. SUFFICES ASSUME ~cp.mixed
                 PROVE  /\ \A c \in Client : Own(c, card'[c].notes) /\ Own(c, card'[c].tags)
                        /\ \A j \in s : OwnCall(calls'[j])
    BY <1>0, <1>2, <1>4 DEF RecordsApart, OwnCard, Own, OwnCall
  <2>2. /\ \A c \in Client : Own(c, card[c].notes) /\ Own(c, card[c].tags)
        /\ \A j \in s : OwnCall(calls[j])
    BY <1>4, <2>1 DEF RecordsApart, s
  <2>3. OwnCall(calls[i])
    BY <1>0, <2>2
  <2>4. \A c \in Client : Own(c, card'[c].notes) /\ Own(c, card'[c].tags)
    BY <1>3, <1>7, <2>2, <2>3 DEF AtServer, OwnCall
  <2>5. OwnCall(calls'[i])
    <3>1. calls[i].kind = "card" /\ calls'[i].res.ok => Own(calls[i].arg, calls'[i].res.val.notes)
                                                       /\ Own(calls[i].arg, calls'[i].res.val.tags)
      BY <1>3, <1>7, <2>2 DEF AtServer, SaveKinds
    <3> QED BY <1>0, <1>2, <2>3, <3>1 DEF OwnCall
  <2> QED BY <1>2, <2>2, <2>4, <2>5
<1>11. ConsentKnown'
  <2>1. SUFFICES ASSUME Calm' PROVE CardsKnown' /\ ShownKnown' /\ \A j \in s : SavesOf(calls[j])'
    BY <1>2 DEF ConsentKnown
  <2>2. Calm /\ Serve(i) /\ Served(i)
    BY <1>0, <1>2, <1>3, <2>1 DEF Calm
  <2>3. CardsKnown /\ ShownKnown /\ \A j \in s : SavesOf(calls[j])
    BY <1>4, <2>2 DEF ConsentKnown, s
  <2>4. \A j \in s : /\ calls[i].kind = "consent" /\ j # i => calls[j].kind \notin {"consent", "profile"}
                     /\ calls[i].kind = "profile" => calls[j].kind # "consent"
    BY <1>0, <1>4, <2>2 DEF OneConsent, Calm, s
  \* Only a consent served changes one.
  <2>5. CASE calls[i].kind # "consent"
    <3>1. \A c \in Client : card'[c].consent = card[c].consent
      BY <1>3, <1>7, <2>5 DEF AtServer
    <3>2. \A j \in s : /\ calls[j].kind = "card" => calls[j].arg \in Client
                       /\ calls[j].kind \in SaveKinds => calls[j].arg.id \in Client
      <4>1. \A j \in s : CallType(calls[j])
        BY <1>0 DEF CallsType, s, At
      <4> QED BY <4>1 DEF CallType, CarriesOf, SaveKinds
    <3>3. cardShown' => cp.selected \in Client
      BY <1>0 DEF cardShown, Types, ClientsType, Text
    <3>4. CardsKnown'
      <4>1. SUFFICES ASSUME NEW j \in s, calls[j].kind = "card", calls'[j].pc = "done", calls'[j].res.ok
                     PROVE  \/ calls'[j].res.val.consent = card[calls[j].arg].consent
                            \/ \E k \in s : k > j /\ calls[k].kind = "consent" /\ calls[k].arg.id = calls[j].arg
        BY <1>2, <3>1, <3>2 DEF CardsKnown, Brings, Consents
      <4>2. CASE j = i
        BY <1>3, <4>1, <4>2 DEF AtServer, SaveKinds
      <4>3. CASE j # i
        BY <1>2, <2>3, <4>1, <4>3 DEF CardsKnown, Brings, Consents, s
      <4> QED BY <4>2, <4>3
    <3>5. ShownKnown'
      BY <1>0, <1>2, <2>3, <3>1, <3>3 DEF ShownKnown, Consents, cardShown, s
    <3>6. \A j \in s : SavesOf(calls[j])'
      BY <1>2, <2>3, <2>5, <3>1, <3>2 DEF SavesOf, SaveKinds
    <3> QED BY <3>4, <3>5, <3>6
  <2>6. CASE calls[i].kind = "consent"
    <3> DEFINE k == calls[i].arg.id
    <3>0. "consent" \in SaveKinds /\ k \in Client
      BY <1>7, <2>6 DEF SaveKinds
    <3>1. /\ \A c \in Client \ {k} : card'[c].consent = card[c].consent
          /\ calls'[i].res.ok /\ card'[k].consent = calls[i].arg.to
      <4>1. calls'[i].res.ok
        <5>1. Reply(i, Ok(Nothing))
          BY <2>2, <2>6, HandlerOf DEF updateMarketingConsent, WriteCard
        <5> QED BY <1>0, <5>1, AnswerIs DEF Ok
      <4> QED BY <1>3, <2>6, <3>0, <4>1 DEF AtServer
    <3>2. \A j \in s : j < i => calls[j].pc = "done"
      <4>1. s \subseteq Nat /\ \A j \in s : j >= 1 /\ calls[j].from = "clients"
        <5>1. DOMAIN calls = 1..Len(calls) /\ Len(calls) \in Nat
          BY <1>0, OwnElements DEF IsSeqOf
        <5> QED BY <5>1 DEF At, s
      <4> QED BY <1>0, <2>2, <4>1 DEF Served, Before, Calm
    <3>3. calls[i].pc = "sent"
      BY <2>2, <2>6, HandlerOf DEF SettingsKinds, StepKinds
    <3>4. \A j \in s : calls[j].kind = "card" /\ calls[j].pc = "done" /\ calls[j].res.ok => ~(i < j)
      BY <1>0, <1>4, <2>2, <3>3 DEF InOrder, Calm, s
    <3>5. \A j \in s : j \in Nat
      <4>1. DOMAIN calls = 1..Len(calls) /\ Len(calls) \in Nat
        BY <1>0, OwnElements DEF IsSeqOf
      <4> QED BY <4>1 DEF At, s
    <3>6. CardsKnown'
      <4>1. SUFFICES ASSUME NEW j \in s, calls[j].kind = "card", calls'[j].pc = "done", calls'[j].res.ok
                     PROVE  \/ calls'[j].res.val.consent = card'[calls[j].arg].consent
                            \/ \E h \in s : h > j /\ calls[h].kind = "consent" /\ calls[h].arg.id = calls[j].arg
        BY <1>2 DEF CardsKnown, Brings, Consents
      <4>2. j # i /\ calls'[j] = calls[j] /\ calls[j].arg \in Client
        <5>1. j # i
          BY <2>6, <4>1
        <5>2. CallType(calls[j])
          BY <1>0 DEF CallsType, s, At
        <5> QED BY <1>2, <4>1, <5>1, <5>2 DEF CallType, CarriesOf
      <4>3. i > j
        BY <1>0, <3>4, <3>5, <4>1, <4>2
      <4>4. CASE calls[j].arg = k
        BY <1>0, <2>6, <4>3, <4>4
      <4>5. CASE calls[j].arg # k
        <5>1. card'[calls[j].arg].consent = card[calls[j].arg].consent
          BY <3>1, <4>2, <4>5
        <5> QED BY <2>3, <4>1, <4>2, <5>1 DEF CardsKnown, Brings, Consents, s
      <4> QED BY <4>4, <4>5
    <3>7. ShownKnown'
      <4>1. SUFFICES ASSUME cardShown
                     PROVE  \/ cp.detail.consent = card'[cp.selected].consent
                            \/ \E h \in s : calls[h].kind = "consent" /\ calls[h].arg.id = cp.selected
        BY <1>0, <1>2 DEF ShownKnown, Consents, cardShown
      <4>2. CASE cp.selected = k
        BY <1>0, <2>6, <4>2
      <4>3. CASE cp.selected # k
        <5>1. cp.selected \in Client
          BY <4>1 DEF cardShown, Types, ClientsType, Text
        <5> QED BY <2>3, <3>1, <4>1, <4>3, <5>1 DEF ShownKnown, Consents, s
      <4> QED BY <4>2, <4>3
    <3>8. \A j \in s : SavesOf(calls[j])'
      BY <1>2, <2>4, <2>6, <3>1 DEF SavesOf
    <3> QED BY <3>6, <3>7, <3>8
  <2> QED BY <2>5, <2>6
<1> QED BY <1>5, <1>8, <1>9, <1>10, <1>11 DEF ClientsInv

\* In order, an answer taken is that of the page's first request.
LEMMA FirstTaken ==
  ASSUME CallsType, NEW i \in DOMAIN calls, NEW page, NEW kind, Answers(i, page, kind)
  PROVE  /\ i \in At(page, calls) /\ calls[i].kind = kind /\ calls[i].pc = "done"
         /\ ~limits.reorder => \A j \in At(page, calls) : i <= j
<1>1. i \in At(page, calls) /\ calls[i].kind = kind /\ calls[i].pc = "done"
  BY DEF Answers, At
<1>2. DOMAIN calls = 1..Len(calls) /\ Len(calls) \in Nat
  BY OwnElements DEF CallsType, IsSeqOf
<1>3. ASSUME ~limits.reorder, NEW j \in At(page, calls) PROVE i <= j
  <2>1. j \in 1..Len(calls) /\ i \in 1..Len(calls) /\ calls[j].from = calls[i].from
    BY <1>1, <1>2 DEF At
  <2>2. Before(i) = {}
    BY <1>3 DEF Answers
  <2>3. j \notin 1..(i - 1)
    BY <2>1, <2>2 DEF Before
  <2> QED BY <1>2, <2>1, <2>3
<1> QED BY <1>1, <1>3

\* The steps of the list.
LEMMA ListActs ==
  ASSUME Types, Types', ClientsInv, Untouched, UNCHANGED CardPart, ListSteps
  PROVE  ClientsInv'
<1>0. /\ IsSeqOf(calls) /\ IsSeqOf(calls') /\ CallsType /\ limits' = limits /\ card' = card /\ faults' = faults
      /\ InOrder("clients") /\ LastIsAsked /\ RecordsApart /\ OneConsent /\ ConsentKnown
  BY DEF Types, CallsType, Untouched, tables, ClientsInv
<1>1. /\ cp'.selected = cp.selected /\ cp'.detail = cp.detail /\ cp'.detailLoading = cp.detailLoading
      /\ cp'.notes = cp.notes /\ cp'.tags = cp.tags /\ cp'.saving = cp.saving /\ cp'.mixed = cp.mixed
      /\ cp'.overlapped = cp.overlapped
  BY DEF CardPart
<1>2. ASSUME LastIsAsked', NEW gone, NEW new, Follows("clients", calls, calls', gone, new),
             \A n \in new : calls'[n].kind = "list" /\ calls'[n].pc = "sent", \A m, n \in new : m = n,
             \A i \in gone : calls[i].kind = "list",
             ~limits.reorder => \A i \in gone : \A j \in At("clients", calls) : i <= j
      PROVE  ClientsInv'
  <2>1. InOrder("clients")'
    BY <1>0, <1>2, OrderMoved
  <2>2. RecordsApart'
    <3>1. \A n \in new : OwnCall(calls'[n])
      BY <1>2 DEF OwnCall
    <3>2. ~cp'.mixed => ~cp.mixed /\ OwnCard'
      BY <1>0, <1>1 DEF RecordsApart, OwnCard
    <3> QED BY <1>0, <1>2, <3>1, <3>2, ApartMoved
  <2>3. OneConsent'
    <3>1. \A i \in At("clients", calls) : calls[i].kind = "consent" => "consent" \in cp'.saving
      BY <1>0, <1>1 DEF OneConsent
    <3> QED BY <1>0, <1>1, <1>2, <3>1, ConsentMoved
  <2>4. ConsentKnown'
    <3>1. Calm' => Calm
      BY <1>0, <1>1 DEF Calm
    <3>2. Calm => ShownKnown'
      BY <1>0, <1>1, <1>2, ShownMoved DEF ConsentKnown
    <3>3. \A n \in new : SavesOf(calls'[n])
      BY <1>2 DEF SavesOf
    <3>4. Calm => \A i \in gone : \A j \in At("clients", calls) : i <= j
      BY <1>2 DEF Calm
    <3> QED BY <1>0, <1>2, <3>1, <3>2, <3>3, <3>4, KnownMoved
  <2> QED BY <1>2, <2>1, <2>2, <2>3, <2>4 DEF ClientsInv
<1>3. CASE UNCHANGED <<ListPart, calls>>
  <2>1. Follows("clients", calls, calls', {}, {})
    BY <1>3, FollowsSame
  <2>2. LastIsAsked'
    BY <1>0, <1>3, <2>1, ListMoved
  <2> QED BY <1>2, <2>1, <2>2
<1>4. CASE Lists
  <2> DEFINE c == ListCall(cp')
  <2>1. c.from = "clients" /\ c.kind = "list" /\ c.pc = "sent" /\ c.arg = ListQuery(cp') /\ calls' = Append(calls, c)
    BY <1>4 DEF Lists, ListCall, Call
  <2> HIDE DEF c
  <2>2. PICK new : Follows("clients", calls, calls', {}, new) /\ OneNew(new, c)
    BY <1>0, <2>1, Sent
  <2>3. LastIsAsked'
    <3> DEFINE t == At("clients", calls')
    <3>1. PICK n \in new : calls'[n] = c /\ n \in t
      BY <2>2 DEF OneNew, Follows
    <3>2. PICK f : Origin("clients", calls, calls', {}, new, f)
      BY <1>0, <2>2, FollowsMap
    <3>3. \A j \in t : j = n \/ (j < n /\ j \in Nat /\ n \in Nat)
      BY <2>2, <3>1, <3>2 DEF OneNew, Origin
    <3> HIDE DEF t
    <3>4. \A j \in t : (\A k \in t : calls'[k].kind = "list" => k <= j) => j = n
      <4> SUFFICES ASSUME NEW j \in t, \A k \in t : calls'[k].kind = "list" => k <= j PROVE j = n
        OBVIOUS
      <4>1. n <= j
        BY <2>1, <3>1
      <4> QED BY <3>3, <4>1
    <3> QED BY <2>1, <3>1, <3>4 DEF LastIsAsked, IsLast, t, ListQuery
  <2>4. \A m, n \in new : m = n /\ calls'[n] = c
    BY <2>2 DEF OneNew
  <2>5. (\A n \in new : calls'[n].kind = "list" /\ calls'[n].pc = "sent") /\ \A m, n \in new : m = n
    BY <2>1, <2>4
  <2>6. (\A i \in {} : calls[i].kind = "list") /\ \A i \in {} : \A j \in At("clients", calls) : i <= j
    OBVIOUS
  <2> QED BY <1>2, <2>2, <2>3, <2>5, <2>6
<1>5. CASE \E i \in DOMAIN calls : Listed(i)
  <2>1. PICK i \in DOMAIN calls : Listed(i)
    BY <1>5
  <2>2. /\ i \in At("clients", calls) /\ calls[i].kind = "list"
        /\ ~limits.reorder => \A j \in At("clients", calls) : i <= j
    BY <1>0, <2>1, FirstTaken DEF Listed
  <2>3. Follows("clients", calls, calls', {i}, {})
    BY <1>0, <2>1, OwnTake DEF Listed
  <2>4. LastIsAsked'
    <3> DEFINE s == At("clients", calls)
               t == At("clients", calls')
    <3>1. PICK f : Origin("clients", calls, calls', {i}, {}, f)
      BY <1>0, <2>3, FollowsMap
    <3>2. /\ \A j \in t : f[j] \in s \ {i} /\ calls'[j] = calls[f[j]]
          /\ \A h \in s \ {i} : \E j \in t : f[j] = h
          /\ \A j, k \in t : (j < k <=> f[j] < f[k]) /\ (j = k <=> f[j] = f[k])
          /\ s \subseteq Nat /\ t \subseteq Nat
      BY <3>1 DEF Origin
    <3>3. SUFFICES ASSUME ~limits.reorder PROVE LastIsAsked'
      BY <1>0 DEF LastIsAsked
    <3>4. /\ \A h \in s : calls[h].kind = "list" /\ (\A j \in s : calls[j].kind = "list" => j <= h)
               => calls[h].arg = ListQuery(cp)
          /\ \A h \in s : i <= h
      BY <1>0, <2>2, <3>3 DEF LastIsAsked, IsLast
    <3>5. i \in s
      BY <2>2
    <3> HIDE DEF s, t
    <3>6. ASSUME NEW j \in t, calls'[j].kind = "list", \A k \in t : calls'[k].kind = "list" => k <= j
          PROVE  calls'[j].arg = ListQuery(cp)
      <4>1. ASSUME NEW h \in s, calls[h].kind = "list" PROVE h <= f[j]
        <5>1. CASE h = i
          BY <3>2, <3>4, <5>1
        <5>2. CASE h # i
          <6>1. PICK k \in t : f[k] = h
            BY <3>2, <5>2
          <6>2. calls'[k].kind = "list"
            BY <3>2, <4>1, <6>1
          <6>3. k = j \/ k < j
            BY <3>2, <3>6, <6>1, <6>2
          <6>4. h = f[j] \/ h < f[j]
            BY <3>2, <6>1, <6>3
          <6>5. h \in Nat /\ f[j] \in Nat
            BY <3>2, <4>1
          <6> QED BY <6>4, <6>5
        <5> QED BY <5>1, <5>2
      <4>2. f[j] \in s /\ calls'[j] = calls[f[j]]
        BY <3>2
      <4> QED BY <3>4, <3>6, <4>1, <4>2
    <3>7. ASSUME \A j \in t : calls'[j].kind # "list" PROVE cp'.failed \/ cp'.of = ListQuery(cp)
      <4>1. \A h \in s : calls[h].kind = "list" => h = i
        <5> SUFFICES ASSUME NEW h \in s, h # i PROVE calls[h].kind # "list"
          OBVIOUS
        <5>1. PICK j \in t : f[j] = h
          BY <3>2
        <5>2. calls'[j] = calls[h]
          BY <3>2, <5>1
        <5> QED BY <3>7, <5>2
      <4>2. i <= i
        <5>1. i \in Nat
          BY <3>2, <3>5
        <5> QED BY <5>1
      <4>3. calls[i].arg = ListQuery(cp)
        BY <2>2, <3>4, <3>5, <4>1, <4>2
      <4> QED BY <2>1, <4>3 DEF Listed
    <3>8. ListQuery(cp') = ListQuery(cp)
      BY <2>1 DEF Listed
    <3> QED BY <3>6, <3>7, <3>8 DEF LastIsAsked, IsLast, t, ListQuery
  <2> QED BY <1>2, <2>2, <2>3, <2>4
<1> QED BY <1>3, <1>4, <1>5 DEF ListSteps

\* The steps of the card.
LEMMA CardActs ==
  ASSUME Types, Types', ClientsInv, Untouched, UNCHANGED ListPart, CardSteps
  PROVE  ClientsInv'
<1> DEFINE s == At("clients", calls)
<1>0. /\ IsSeqOf(calls) /\ IsSeqOf(calls') /\ CallsType /\ limits' = limits /\ card' = card /\ faults' = faults
      /\ InOrder("clients") /\ LastIsAsked /\ RecordsApart /\ OneConsent /\ ConsentKnown
      /\ cp.mixed \in BOOLEAN /\ cp.overlapped \in BOOLEAN
  BY DEF Types, CallsType, Untouched, tables, ClientsInv, ClientsType
<1>1. /\ \A i \in s : calls[i].kind = "consent" => "consent" \in cp.saving
      /\ ~cp.mixed => (\A i \in s : OwnCall(calls[i])) /\ OwnCard
      /\ Calm => CardsKnown /\ ShownKnown /\ \A i \in s : SavesOf(calls[i])
  BY <1>0 DEF OneConsent, RecordsApart, ConsentKnown
\* The order and the list do not change.
<1>2. ASSUME NEW gone, NEW new, Follows("clients", calls, calls', gone, new),
             \A n \in new : calls'[n].kind # "list" /\ calls'[n].pc = "sent", \A i \in gone : calls[i].kind # "list"
      PROVE  InOrder("clients")' /\ LastIsAsked'
  BY <1>0, <1>2, OrderMoved, ListMoved
\* No request is sent or taken.
<1>3. ASSUME UNCHANGED <<calls, cp.saving, cp.mixed, cp.overlapped>>,
             ~cp.mixed => OwnCard', Calm => ShownKnown'
      PROVE  ClientsInv'
  <2>1. Follows("clients", calls, calls', {}, {})
    BY <1>3, FollowsSame
  <2>2. InOrder("clients")' /\ LastIsAsked'
    BY <1>2, <2>1
  <2>3. RecordsApart'
    BY <1>0, <1>3, <2>1, ApartMoved
  <2>4. OneConsent'
    BY <1>0, <1>1, <1>3, <2>1, ConsentMoved
  <2>5. ConsentKnown'
    <3>1. Calm' => Calm
      BY <1>0, <1>3 DEF Calm
    <3> QED BY <1>0, <1>3, <2>1, <3>1, KnownMoved
  <2> QED BY <2>2, <2>3, <2>4, <2>5 DEF ClientsInv
<1>4. CASE Edits
  <2>1. UNCHANGED <<calls, cp.saving, cp.mixed, cp.overlapped, cp.selected, cp.detail, cp.detailLoading>>
        /\ cp'.notes \in {cp.notes, Nothing, cp.detail.of} /\ cp'.tags \in {cp.tags, Nothing, cp.detail.of}
    BY <1>4 DEF Edits, SamePlace
  <2>2. ~cp.mixed => OwnCard'
    BY <1>1, <2>1 DEF OwnCard, Own
  <2>3. Calm => ShownKnown'
    BY <1>0, <1>1, <2>1 DEF ShownKnown, cardShown, Consents
  <2> QED BY <1>3, <2>1, <2>2, <2>3
<1>5. CASE Leaves
  <2>1. UNCHANGED <<calls, cp.saving, cp.mixed, cp.overlapped>> /\ cp'.selected = Nothing
    BY <1>5 DEF Leaves
  <2>2. OwnCard' /\ ShownKnown'
    BY <2>1 DEF OwnCard, ShownKnown, cardShown
  <2> QED BY <1>3, <2>1, <2>2
\* A request is sent.
<1>6. ASSUME NEW c, c.from = "clients", c.kind \notin {"list", "consent", "profile"}, c.pc = "sent", calls' = Append(calls, c),
             UNCHANGED <<cp.mixed, cp.overlapped>>, cp.saving \subseteq cp'.saving,
             ~cp.mixed => OwnCall(c) /\ OwnCard',
             Calm => \A new : Follows("clients", calls, calls', {}, new) => ShownKnown'
      PROVE  ClientsInv'
  <2>1. PICK new : Follows("clients", calls, calls', {}, new) /\ OneNew(new, c)
    BY <1>0, <1>6, Sent
  <2>2. (\A n \in new : calls'[n] = c) /\ \A m, n \in new : m = n
    BY <2>1 DEF OneNew
  <2>3. InOrder("clients")' /\ LastIsAsked'
    <3>1. \A n \in new : calls'[n].kind # "list" /\ calls'[n].pc = "sent"
      BY <1>6, <2>2
    <3> QED BY <1>2, <2>1, <3>1
  <2>4. RecordsApart'
    BY <1>0, <1>6, <2>1, <2>2, ApartMoved
  <2>5. OneConsent'
    BY <1>0, <1>1, <1>6, <2>1, <2>2, ConsentMoved
  <2>6. ConsentKnown'
    <3>1. Calm' => Calm
      BY <1>0, <1>6 DEF Calm
    <3>2. \A n \in new : calls'[n].pc = "sent" /\ SavesOf(calls'[n])
      BY <1>6, <2>2 DEF SavesOf
    <3> QED BY <1>0, <1>6, <2>1, <3>1, <3>2, KnownMoved
  <2> QED BY <2>3, <2>4, <2>5, <2>6 DEF ClientsInv
<1>7. CASE Opens
  <2>1. UNCHANGED <<cp.saving, cp.mixed, cp.overlapped>> /\ cp'.detailLoading
    BY <1>7 DEF Opens
  <2>2. PICK x \in Client : calls' = Append(calls, Call("clients", "card", x, ""))
    BY <1>7 DEF Opens
  <2> DEFINE c == Call("clients", "card", x, "")
  <2>3. c.from = "clients" /\ c.kind = "card" /\ c.pc = "sent" /\ OwnCall(c)
    BY DEF Call, OwnCall
  <2>4. calls' = Append(calls, c)
    BY <2>2
  <2> HIDE DEF c
  <2>5. OwnCard' /\ ShownKnown'
    BY <2>1 DEF OwnCard, ShownKnown, cardShown
  <2> QED BY <1>6, <2>1, <2>3, <2>4, <2>5
<1>8. ASSUME NEW kind \in SaveKinds, Saving(kind) PROVE ClientsInv'
  <2>1. /\ cardShown /\ kind \notin cp.saving /\ cp'.saving = cp.saving \cup {kind}
        /\ UNCHANGED <<cp.selected, cp.detail, cp.detailLoading, cp.notes, cp.tags, cp.mixed>>
        /\ cp'.overlapped = (cp.overlapped \/ (kind = "consent" /\ inFlight("profile"))
                                           \/ (kind = "profile" /\ inFlight("consent")))
    BY <1>8 DEF Saving
  <2>2. PICK arg : Carried(kind, arg) /\ calls' = Append(calls, Call("clients", kind, arg, cp.detail))
    BY <1>8 DEF Saving
  <2> DEFINE c == Call("clients", kind, arg, cp.detail)
  <2>3. c.from = "clients" /\ c.kind = kind /\ c.pc = "sent" /\ c.arg = arg /\ c.then = cp.detail
    BY DEF Call
  <2>4. calls' = Append(calls, c)
    BY <2>2
  <2> HIDE DEF c
  <2>5. ~cp.mixed => OwnCall(c)
    <3>1. ~cp.mixed => /\ cp.detail.of = cp.selected /\ Own(cp.selected, cp.notes) /\ Own(cp.selected, cp.tags)
      BY <1>1, <2>1 DEF OwnCard, cardShown
    <3> QED BY <2>2, <2>3, <3>1 DEF OwnCall, Carried, SaveKinds
  <2>6. ~cp.mixed => OwnCard'
    BY <1>1, <2>1 DEF OwnCard
  <2>7. \A new : Calm /\ Follows("clients", calls, calls', {}, new) => ShownKnown'
    BY <1>0, <1>1, <2>1, ShownMoved
  <2>8. CASE kind = "notes"
    <3>1. cp'.overlapped = cp.overlapped
      BY <1>0, <2>1, <2>8
    <3> QED BY <1>6, <2>1, <2>3, <2>4, <2>5, <2>6, <2>7, <2>8, <3>1
  <2>9. CASE kind \in {"consent", "profile"}
    <3>1. PICK new : Follows("clients", calls, calls', {}, new) /\ OneNew(new, c)
      BY <1>0, <2>3, <2>4, Sent
    <3>2. (\A n \in new : calls'[n] = c) /\ \A m, n \in new : m = n
      BY <3>1 DEF OneNew
    <3>3. InOrder("clients")' /\ LastIsAsked'
      <4>1. \A n \in new : calls'[n].kind # "list" /\ calls'[n].pc = "sent"
        BY <2>3, <2>9, <3>2
      <4> QED BY <1>2, <3>1, <4>1
    <3>4. RecordsApart'
      BY <1>0, <2>1, <2>5, <2>6, <3>1, <3>2, ApartMoved
    <3>5. ~cp'.overlapped => /\ ~cp.overlapped
                             /\ kind = "consent" => \A i \in s : calls[i].kind # "profile"
                             /\ kind = "profile" => \A i \in s : calls[i].kind # "consent"
      BY <1>0, <2>1 DEF inFlight, At
    <3>6. OneConsent'
      <4>1. \A n \in new : calls'[n].kind = "consent" => "consent" \in cp'.saving
        BY <2>1, <2>3, <3>2
      <4>2. kind = "consent" => \A i \in s : calls[i].kind # "consent"
        BY <1>1, <2>1
      <4>3. \A i \in s \ {} : calls[i].kind = "consent" =>
              /\ "consent" \in cp'.saving
              /\ \A n \in new : calls'[n].kind # "consent" /\ (~cp'.overlapped => calls'[n].kind # "profile")
        BY <1>1, <2>1, <2>3, <3>2, <3>5, <4>2
      <4>4. ~cp'.overlapped => \A i \in s \ {} : calls[i].kind = "profile" =>
                                 \A n \in new : calls'[n].kind # "consent"
        BY <2>3, <3>2, <3>5
      <4>5. ~cp'.overlapped => ~cp.overlapped
        BY <3>5
      <4> HIDE DEF s
      <4> QED BY <1>0, <3>1, <3>2, <4>1, <4>3, <4>4, <4>5, ConsentMoved DEF s
    <3>7. ConsentKnown'
      <4>1. Calm' => Calm
        BY <1>0, <2>1, <3>5 DEF Calm
      <4>2. Calm' => SavesOf(c)
        <5>1. CASE kind = "consent"
          BY <2>3, <5>1 DEF SavesOf
        <5>2. CASE kind = "profile"
          <6>1. ASSUME Calm' PROVE cp.detail.consent = card[cp.selected].consent
            <7>1. ShownKnown /\ ~cp'.overlapped
              BY <1>1, <4>1, <6>1 DEF Calm
            <7>2. \A i \in s : ~Consents(i, cp.selected)
              BY <3>5, <5>2, <7>1 DEF Consents
            <7> QED BY <2>1, <7>1, <7>2 DEF ShownKnown
          <6>2. c.arg.id = cp.selected
            BY <2>2, <2>3, <5>2 DEF Carried
          <6> QED BY <2>3, <5>2, <6>1, <6>2 DEF SavesOf
        <5> QED BY <2>9, <5>1, <5>2
      <4>3. \A n \in new : calls'[n].pc = "sent" /\ (Calm' => SavesOf(calls'[n]))
        BY <2>3, <3>2, <4>2
      <4> QED BY <1>0, <2>7, <3>1, <4>1, <4>3, KnownMoved
    <3> QED BY <3>3, <3>4, <3>6, <3>7 DEF ClientsInv
  <2> QED BY <2>8, <2>9 DEF SaveKinds
\* An answer is taken.
<1>9. ASSUME NEW i \in DOMAIN calls, NEW kind \in SaveKinds \cup {"card"}, Answers(i, "clients", kind), calls' = Others(i),
             cp'.overlapped = cp.overlapped, ~cp'.mixed => ~cp.mixed,
             cp.saving \ {kind} \subseteq cp'.saving,
             ~cp'.mixed => OwnCard',
             Calm /\ ~cp'.mixed => ShownKnown'
      PROVE  ClientsInv'
  <2>1. i \in s /\ calls[i].kind = kind /\ (~limits.reorder => \A j \in s : i <= j)
    BY <1>0, <1>9, FirstTaken
  <2>2. Follows("clients", calls, calls', {i}, {})
    BY <1>0, <1>9, OwnTake
  <2>3. InOrder("clients")' /\ LastIsAsked'
    BY <1>2, <1>9, <2>1, <2>2 DEF SaveKinds
  <2>4. RecordsApart'
    BY <1>0, <1>9, <2>2, ApartMoved
  <2>5. OneConsent'
    <3>1. \A j \in s \ {i} : calls[j].kind = "consent" => kind # "consent" /\ "consent" \in cp'.saving
      BY <1>0, <1>1, <1>9, <2>1 DEF OneConsent
    <3> HIDE DEF s
    <3> QED BY <1>0, <1>9, <2>2, <3>1, ConsentMoved DEF s
  <2>6. ConsentKnown'
    <3>1. Calm' => Calm /\ ~cp'.mixed
      BY <1>0, <1>9 DEF Calm
    <3>2. Calm => \A j \in s : i <= j
      BY <2>1 DEF Calm
    <3> QED BY <1>0, <1>9, <2>2, <3>1, <3>2, KnownMoved
  <2> QED BY <2>3, <2>4, <2>5, <2>6 DEF ClientsInv
<1>10. CASE \E i \in DOMAIN calls : Opened(i)
  <2>1. PICK i \in DOMAIN calls : Opened(i)
    BY <1>10
  <2> DEFINE r == calls[i].res
  <2>2. /\ Answers(i, "clients", "card") /\ calls' = Others(i)
        /\ cp'.saving = cp.saving /\ cp'.overlapped = cp.overlapped /\ ~cp'.detailLoading
        /\ cp'.mixed = (cp.mixed \/ Mixes(calls[i].arg))
        /\ IF r.ok THEN /\ cp'.selected = cp.selected /\ cp'.notes = r.val.notes /\ cp'.tags = r.val.tags
                        /\ cp'.detail = [of |-> r.val.of, consent |-> r.val.consent, tags |-> r.val.tags]
           ELSE cp'.selected = Nothing
    BY <2>1 DEF Opened
  <2>3. i \in s /\ calls[i].kind = "card" /\ calls[i].pc = "done" /\ (~limits.reorder => \A j \in s : i <= j)
    BY <1>0, <2>2, FirstTaken
  <2>4. CallType(calls[i])
    BY <1>0 DEF CallsType
  <2>5. r.ok => r.val.of = calls[i].arg /\ calls[i].arg \in Client
    BY <2>3, <2>4 DEF CallType, BringsOf, CarriesOf
  <2>6. ~cp'.mixed => ~cp.mixed /\ cp.selected \in {Nothing, calls[i].arg}
    BY <1>0, <2>2 DEF Mixes
  <2>7. ~cp'.mixed => OwnCard'
    <3>1. CASE r.ok
      <4>1. ~cp'.mixed => Own(calls[i].arg, r.val.notes) /\ Own(calls[i].arg, r.val.tags)
        BY <1>1, <2>3, <2>6, <3>1 DEF OwnCall
      <4> QED BY <2>2, <2>5, <2>6, <3>1, <4>1 DEF OwnCard
    <3>2. CASE ~r.ok
      BY <2>2, <3>2 DEF OwnCard
    <3> QED BY <3>1, <3>2
  <2>8. Calm /\ ~cp'.mixed => ShownKnown'
    <3>1. CASE r.ok
      <4>1. SUFFICES ASSUME Calm, ~cp'.mixed, cardShown'
                     PROVE  \/ cp'.detail.consent = card[cp'.selected].consent
                            \/ \E j \in At("clients", calls') : calls'[j].kind = "consent" /\ calls'[j].arg.id = cp'.selected
        BY <1>0 DEF ShownKnown, Consents
      <4>2. cp'.selected = calls[i].arg /\ cp'.detail.consent = r.val.consent
        BY <2>2, <2>6, <3>1, <4>1 DEF cardShown
      <4>3. \/ r.val.consent = card[calls[i].arg].consent
            \/ \E j \in s : j > i /\ Consents(j, calls[i].arg)
        BY <1>1, <2>3, <3>1, <4>1 DEF CardsKnown, Brings
      <4>4. ASSUME NEW j \in s, Consents(j, calls[i].arg)
            PROVE  \E k \in At("clients", calls') : calls'[k] = calls[j]
        <5>1. j # i
          BY <2>3, <4>4 DEF Consents
        <5>2. Follows("clients", calls, calls', {i}, {})
          BY <1>0, <2>2, OwnTake
        <5> QED BY <4>4, <5>1, <5>2, FollowsOld
      <4> QED BY <4>2, <4>3, <4>4 DEF Consents
    <3>2. CASE ~r.ok
      BY <2>2, <3>2 DEF ShownKnown, cardShown
    <3> QED BY <3>1, <3>2
  <2> QED BY <1>9, <2>2, <2>6, <2>7, <2>8
<1>11. ASSUME NEW i \in DOMAIN calls, NEW kind \in SaveKinds, Saved(i, kind) PROVE ClientsInv'
  <2> DEFINE c == calls[i]
             d == IF c.res.ok /\ kind = "consent" THEN [c.then EXCEPT !.consent = c.arg.to]
                  ELSE IF c.res.ok /\ kind = "profile" THEN [c.then EXCEPT !.tags = c.arg.tags]
                  ELSE cp.detail
             x == IF c.res.ok /\ kind = "profile" THEN c.arg.tags ELSE cp.tags
  <2>1. /\ Answers(i, "clients", kind) /\ calls' = Others(i)
        /\ cp'.selected = cp.selected /\ cp'.detailLoading = cp.detailLoading /\ cp'.overlapped = cp.overlapped
        /\ cp'.notes = cp.notes /\ cp'.saving = cp.saving \ {kind}
        /\ cp'.mixed = (cp.mixed \/ Mixes(c.arg.id)) /\ cp'.detail = d /\ cp'.tags = x
    BY <1>11 DEF Saved, SamePlace
  <2>2. i \in s /\ c.kind = kind /\ c.pc = "done" /\ (~limits.reorder => \A j \in s : i <= j)
    BY <1>0, <2>1, FirstTaken
  <2>3. c.then \in Details /\ c.arg.id \in Client /\ (kind = "consent" => c.arg.to \in BOOLEAN)
        /\ (kind = "profile" => c.arg.tags \in Text)
    <3>1. CallType(c)
      BY <1>0 DEF CallsType
    <3> QED BY <2>2, <3>1 DEF CallType, CarriesOf, SaveKinds
  <2>4. /\ c.res.ok /\ kind = "consent" => d.of = c.then.of /\ d.consent = c.arg.to /\ d \in Details
        /\ c.res.ok /\ kind = "profile" => d.of = c.then.of /\ d.consent = c.then.consent /\ d \in Details
        /\ ~(c.res.ok /\ kind \in {"consent", "profile"}) => d = cp.detail
    BY <2>3 DEF Details
  <2>5. ~cp'.mixed => ~cp.mixed /\ cp.selected \in {Nothing, c.arg.id}
    BY <1>0, <2>1 DEF Mixes
  <2>6. ~cp'.mixed => OwnCall(c) /\ OwnCard
    BY <1>1, <2>2, <2>5
  <2> HIDE DEF c, d
  <2>7. ~cp'.mixed => OwnCard'
    <3>1. SUFFICES ASSUME ~cp'.mixed, cp.selected # Nothing, ~cp.detailLoading
                   PROVE  d.of = cp.selected /\ Own(cp.selected, cp.notes) /\ Own(cp.selected, x)
      BY <2>1 DEF OwnCard
    <3>2. c.arg.id = cp.selected
      BY <2>5, <3>1
    <3>3. /\ cp.detail.of = cp.selected
          /\ Own(cp.selected, cp.notes) /\ Own(cp.selected, cp.tags)
      BY <2>6, <3>1 DEF OwnCard
    <3>4. Own(cp.selected, x)
      BY <2>2, <2>6, <3>1, <3>2, <3>3 DEF OwnCall
    <3>5. d.of = cp.selected
      BY <2>2, <2>4, <2>6, <3>2, <3>3, <3>1 DEF OwnCall, SaveKinds
    <3> QED BY <3>3, <3>4, <3>5
  <2>8. Calm /\ ~cp'.mixed => ShownKnown'
    <3>1. SUFFICES ASSUME Calm, ~cp'.mixed, cp.selected # Nothing, ~cp.detailLoading, d # Nothing
                   PROVE  \/ d.consent = card[cp.selected].consent
                          \/ \E j \in At("clients", calls') : Consents(j, cp.selected)'
      BY <1>0, <2>1 DEF ShownKnown, cardShown, Consents
    <3>2. c.arg.id = cp.selected /\ SavesOf(c) /\ ShownKnown
      BY <1>1, <2>2, <2>5, <3>1 DEF c
    <3>3. CASE kind = "consent"
      BY <2>2, <2>4, <3>2, <3>3 DEF SavesOf
    <3>4. CASE kind = "profile" /\ c.res.ok
      BY <2>2, <2>4, <3>2, <3>4 DEF SavesOf
    <3>5. CASE kind # "consent" /\ ~(kind = "profile" /\ c.res.ok)
      <4>1. d = cp.detail
        BY <2>4, <3>5
      <4>2. \/ cp.detail.consent = card[cp.selected].consent
            \/ \E j \in s : Consents(j, cp.selected)
        BY <3>1, <3>2, <4>1 DEF ShownKnown, cardShown
      <4>3. ASSUME NEW j \in s, Consents(j, cp.selected)
            PROVE  \E k \in At("clients", calls') : calls'[k] = calls[j]
        <5>1. j # i
          BY <2>2, <3>5, <4>3 DEF Consents, c
        <5>2. Follows("clients", calls, calls', {i}, {})
          BY <1>0, <2>1, OwnTake
        <5> QED BY <4>3, <5>1, <5>2, FollowsOld
      <4> QED BY <2>1, <4>1, <4>2, <4>3 DEF Consents
    <3> QED BY <3>3, <3>4, <3>5
  <2> QED BY <1>9, <2>1, <2>5, <2>7, <2>8
<1> QED BY <1>4, <1>5, <1>7, <1>8, <1>10, <1>11 DEF CardSteps

\* The page's invariant holds at the start
LEMMA ClientsStarts ==
  ASSUME Init
  PROVE  ClientsInv
<1>1. /\ \A i \in DOMAIN calls : calls[i].kind \in {"get", "agenda", "reviews", "list", "settings"} /\ calls[i].pc = "sent"
      /\ \A i, j \in DOMAIN calls : calls[i].from = calls[j].from => i = j
  BY StartCalls DEF Starts, StartCall
<1>2. /\ cp.selected = Nothing /\ ListQuery(cp) = [q |-> NoFilter, page |-> 1] /\ limits \in Limits /\ card = limits.cards
  BY DEF Init, ClientsInit, ListQuery
<1>3. \A c \in Client : Own(c, card[c].notes) /\ Own(c, card[c].tags)
  BY <1>2, LimitsAssumption DEF Own
<1>4. ASSUME NEW i \in At("clients", calls) PROVE calls[i].kind = "list"
  <2>1. CallType(calls[i]) /\ calls[i].from = "clients"
    BY StartCalls DEF Starts, StartCall, At
  <2>2. calls[i].kind \in ClientKinds
    BY <2>1 DEF CallType, KindsOf
  <2> QED BY <1>1, <2>2 DEF ClientKinds, At
<1>5. /\ isOpen("clients") => At("clients", calls) # {}
      /\ \A i \in DOMAIN calls : calls[i].kind = "list" => calls[i].arg = [q |-> NoFilter, page |-> 1]
  BY StartCalls DEF Starts, StartCall, At, PageNames
<1>6. InOrder("clients") /\ LastIsAsked
  BY <1>1, <1>2, <1>4, <1>5 DEF InOrder, LastIsAsked, At
<1>7. RecordsApart /\ OneConsent /\ ConsentKnown
  BY <1>1, <1>2, <1>3 DEF RecordsApart, OwnCall, OwnCard, OneConsent, ConsentKnown, CardsKnown, ShownKnown, SavesOf,
                          cardShown, At, Brings
<1> QED BY <1>6, <1>7 DEF ClientsInv

\* and is kept by every step.
LEMMA ClientsStay ==
  ASSUME Types, Types', ClientsInv, [Next]_vars
  PROVE  ClientsInv'
<1>1. "clients" \in PageNames
  BY DEF PageNames
<1>2. CASE PageSteps("clients") /\ Untouched
  BY <1>2, ClientsSteps, ListActs, CardActs
<1> QED BY <1>1, <1>2, Frame, ClientsFrame, ClientsServes

\* What is kept in a client's record was written about that client: what the page sends
\* is of the card it shows, whichever answers are lost or late (clients/page.tsx:126-220).
THEOREM NotesStayTheirs == Spec => []NotesStayWithClient
<1>1. ClientsInv => NotesStayWithClient
  BY DEF ClientsInv, RecordsApart, Own, NotesStayWithClient
<1>2. Types /\ ClientsInv /\ [Next]_vars => (Types /\ ClientsInv)'
  BY TypesStay, ClientsStay
<1> QED BY <1>1, <1>2, TypesInit, ClientsStarts, PTL DEF Spec

--------------------------------------------------------------------------------
(* The reviews.                                                            *)

\* What is published is known as requests go and come.
LEMMA PublishedMoved ==
  ASSUME PublishedAsShown, IsSeqOf(calls), IsSeqOf(calls'),
         NEW gone, NEW new, Follows("reviews", calls, calls', gone, new),
         faults' = 0 /\ ~rv'.doubled =>
           /\ faults = 0 /\ ~rv.doubled
           /\ \A i \in At("reviews", calls) \ gone :
                /\ LoadKnown(calls[i], visit') /\ ToggleKnown(calls[i], rv'.list, visit')
                /\ \A n \in new : calls[i].kind = "publish" => ~Toggles(calls'[n], calls[i].arg.id)
           /\ \A n \in new : /\ LoadKnown(calls'[n], visit') /\ ToggleKnown(calls'[n], rv'.list, visit')
                             /\ \A m \in new : m = n
           /\ \A v \in DOMAIN rv'.list :
                (\A j \in At("reviews", calls') : ~Toggles(calls'[j], v)) => rv'.list[v] = visit'[v].review
  PROVE  PublishedAsShown'
<1>1. PICK f : Origin("reviews", calls, calls', gone, new, f)
  BY FollowsMap
<1> DEFINE s == At("reviews", calls)
           t == At("reviews", calls')
<1>2. /\ \A j \in t \ new : f[j] \in s \ gone /\ calls'[j] = calls[f[j]]
      /\ \A j, k \in t \ new : j = k <=> f[j] = f[k]
  BY <1>1 DEF Origin
<1>3. SUFFICES ASSUME faults' = 0, ~rv'.doubled
               PROVE  /\ \A j \in t : LoadKnown(calls'[j], visit') /\ ToggleKnown(calls'[j], rv'.list, visit')
                      /\ \A j, k \in t : Toggles(calls'[k], calls'[j].arg.id) /\ calls'[j].kind = "publish" => j = k
  BY DEF PublishedAsShown, LoadKnown, ToggleKnown, Toggles
<1>4. \A j, k \in s : Toggles(calls[k], calls[j].arg.id) /\ calls[j].kind = "publish" => j = k
  BY <1>3 DEF PublishedAsShown
<1> HIDE DEF s, t
<1>5. \A j \in t : LoadKnown(calls'[j], visit') /\ ToggleKnown(calls'[j], rv'.list, visit')
  BY <1>2, <1>3 DEF s
<1>6. ASSUME NEW j \in t, NEW k \in t, Toggles(calls'[k], calls'[j].arg.id), calls'[j].kind = "publish"
      PROVE  j = k
  <2>1. CASE j \in new /\ k \in new
    BY <1>3, <2>1
  <2>2. CASE j \notin new /\ k \in new
    BY <1>2, <1>3, <1>6, <2>2 DEF s
  <2>3. CASE j \in new /\ k \notin new
    BY <1>2, <1>3, <1>6, <2>3 DEF Toggles, s
  <2>4. CASE j \notin new /\ k \notin new
    BY <1>2, <1>4, <1>6, <2>4
  <2> QED BY <2>1, <2>2, <2>3, <2>4
<1> QED BY <1>5, <1>6

\* The list is loaded once, as requests go and come.
LEMMA LoadedMoved ==
  ASSUME LoadedOnce, IsSeqOf(calls), IsSeqOf(calls'),
         NEW gone, NEW new, Follows("reviews", calls, calls', gone, new), rv'.loading = rv.loading,
         \A n \in new : calls'[n].kind # "reviews" /\ ~rv.loading
  PROVE  LoadedOnce'
<1>1. PICK f : Origin("reviews", calls, calls', gone, new, f)
  BY FollowsMap
<1> DEFINE s == At("reviews", calls)
           t == At("reviews", calls')
<1>2. /\ \A j \in t \ new : f[j] \in s \ gone /\ calls'[j] = calls[f[j]]
      /\ \A j, k \in t \ new : j = k <=> f[j] = f[k]
  BY <1>1 DEF Origin
<1>3. \A i \in s : (rv.loading <=> calls[i].kind = "reviews") /\ (rv.loading => \A j \in s : i = j)
  BY DEF LoadedOnce
<1> HIDE DEF s, t
<1>4. \A j \in t : (rv.loading <=> calls'[j].kind = "reviews") /\ (rv.loading => \A k \in t : j = k)
  BY <1>2, <1>3
<1> QED BY <1>4 DEF LoadedOnce, t

\* The steps of the others.
LEMMA ReviewsFrame ==
  ASSUME Types, Types', ReviewInv, Keeps("reviews"), SamePage("reviews"), SameTables("reviews")
  PROVE  ReviewInv'
<1>1. /\ Follows("reviews", calls, calls', {}, {}) /\ IsSeqOf(calls) /\ IsSeqOf(calls')
      /\ rv' = rv /\ (faults' = 0 => faults = 0)
      /\ \A v \in Visit : visit'[v].review = visit[v].review \/ visit[v].review = "none"
  BY DEF Keeps, SamePage, SameTables, Types, CallsType
<1>2. LoadedOnce'
  BY <1>1, LoadedMoved DEF ReviewInv
<1>3. PublishedAsShown'
  <2>1. ASSUME faults = 0, ~rv.doubled, NEW i \in At("reviews", calls)
        PROVE  LoadKnown(calls[i], visit') /\ ToggleKnown(calls[i], rv.list, visit')
    <3>1. LoadKnown(calls[i], visit) /\ ToggleKnown(calls[i], rv.list, visit)
      BY <2>1 DEF ReviewInv, PublishedAsShown
    <3>2. CallType(calls[i])
      BY DEF Types, CallsType, At
    <3>3. LoadKnown(calls[i], visit')
      <4>1. SUFFICES ASSUME calls[i].kind = "reviews", calls[i].pc = "done", calls[i].res.ok,
                            NEW v \in DOMAIN calls[i].res.val
                     PROVE  calls[i].res.val[v] = visit'[v].review
        BY DEF LoadKnown
      <4>2. v \in Visit /\ calls[i].res.val[v] \in Hidden
        BY <3>2, <4>1 DEF CallType, BringsOf
      <4> QED BY <1>1, <3>1, <4>1, <4>2 DEF LoadKnown, Hidden
    <3>4. ToggleKnown(calls[i], rv.list, visit')
      <4> DEFINE v == calls[i].arg.id
      <4>1. SUFFICES ASSUME calls[i].kind = "publish" PROVE visit'[v].review = visit[v].review
        BY <3>1 DEF ToggleKnown
      <4>2. v \in Visit /\ v \in DOMAIN rv.list
        BY <3>1, <3>2, <4>1 DEF CallType, CarriesOf, ToggleKnown
      <4>3. rv.list[v] \in Hidden
        BY <4>2 DEF Types, ReviewType
      <4>4. visit[v].review # "none"
        BY <3>1, <4>1, <4>3 DEF ToggleKnown, Hidden, flipped
      <4> QED BY <1>1, <4>2, <4>4
    <3> QED BY <3>3, <3>4
  <2>2. ASSUME faults = 0, ~rv.doubled, NEW v \in DOMAIN rv.list,
               \A j \in At("reviews", calls') : ~Toggles(calls'[j], v)
        PROVE  rv.list[v] = visit'[v].review
    <3>1. \A i \in At("reviews", calls) : \E j \in At("reviews", calls') : calls'[j] = calls[i]
      BY <1>1, FollowsOld
    <3>2. rv.list[v] = visit[v].review
      BY <2>2, <3>1 DEF ReviewInv, PublishedAsShown
    <3>3. v \in Visit /\ rv.list[v] \in Hidden
      BY DEF Types, ReviewType
    <3> QED BY <1>1, <3>2, <3>3 DEF Hidden
  <2>3. PublishedAsShown
    BY DEF ReviewInv
  <2> QED BY <1>1, <2>1, <2>2, <2>3, PublishedMoved
<1> QED BY <1>2, <1>3 DEF ReviewInv

\* The server's answers to the page, and what is lost of them.
LEMMA ReviewsServes ==
  ASSUME Types, ReviewInv, UNCHANGED pages, NEW i \in At("reviews", calls),
         Serve(i) \/ Lose(i) \/ LoseAnswer(i)
  PROVE  ReviewInv'
<1> DEFINE s == At("reviews", calls)
<1>0. /\ rv' = rv /\ i \in s /\ i \in DOMAIN calls /\ CallsType /\ LoadedOnce /\ PublishedAsShown
      /\ visit \in [Visit -> VisitRow] /\ faults \in Nat
  BY DEF Types, TablesType, CallsType, pages, At, ReviewInv
<1>1. Handled("reviews", i)
  BY HandledSo
<1>2. /\ At("reviews", calls') = s
      /\ \A j \in s : /\ j # i => calls'[j] = calls[j]
                      /\ calls'[j].kind = calls[j].kind /\ calls'[j].arg = calls[j].arg
  BY <1>1 DEF Handled
<1>3. CallType(calls[i]) /\ calls[i].from = "reviews"
  BY <1>0 DEF CallsType, At
<1>4. LoadedOnce'
  BY <1>0, <1>2 DEF LoadedOnce
<1>5. ASSUME faults' = 0, ~rv.doubled
      PROVE  /\ faults = 0 /\ Serve(i)
             /\ \A j \in s : LoadKnown(calls[j], visit) /\ ToggleKnown(calls[j], rv.list, visit)
             /\ \A j, k \in s : Toggles(calls[k], calls[j].arg.id) /\ calls[j].kind = "publish" => j = k
             /\ \A v \in DOMAIN rv.list : (\A j \in s : ~Toggles(calls[j], v)) => rv.list[v] = visit[v].review
  <2>1. faults = 0 /\ Serve(i)
    BY <1>0, <1>1, <1>5 DEF Handled, Effects
  <2> QED BY <1>0, <1>5, <2>1 DEF PublishedAsShown
<1>6. ASSUME faults' = 0, ~rv.doubled
      PROVE  /\ \A j \in s : LoadKnown(calls'[j], visit') /\ ToggleKnown(calls'[j], rv.list, visit')
             /\ \A v \in DOMAIN rv.list : (\A j \in s : ~Toggles(calls[j], v)) => rv.list[v] = visit'[v].review
  <2>1. CASE calls[i].kind = "reviews"
    <3> DEFINE val == [v \in {u \in Visit : visit[u].review # "none"} |-> visit[v].review]
    <3>1. Reply(i, Ok(val)) /\ visit' = visit
      BY <1>5, <1>6, <2>1, HandlerOf DEF listReviews, Read, tables
    <3>2. calls'[i].pc = "done" /\ calls'[i].res.val = val
      BY <1>0, <3>1, AnswerIs DEF Ok
    <3>3. \A v \in DOMAIN val : val[v] = visit[v].review
      OBVIOUS
    <3> HIDE DEF val
    <3>4. \A j \in s : i = j
      BY <1>0, <2>1 DEF LoadedOnce
    <3>5. LoadKnown(calls'[i], visit) /\ ToggleKnown(calls'[i], rv.list, visit)
      BY <1>0, <1>2, <2>1, <3>2, <3>3 DEF LoadKnown, ToggleKnown
    <3> QED BY <1>5, <1>6, <3>1, <3>4, <3>5
  <2>2. CASE calls[i].kind = "publish"
    <3> DEFINE v == calls[i].arg.id
               row == [visit[v] EXCEPT !.review = calls[i].arg.to]
    <3>1. Reply(i, Ok(Nothing)) /\ Write(v, row) /\ calls[i].pc = "sent"
      BY <1>5, <1>6, <2>2, HandlerOf DEF updateReview, Is
    <3>2. calls'[i].pc = "done" /\ calls'[i].res.ok
      BY <1>0, <3>1, AnswerIs DEF Ok
    <3>3. v \in Visit /\ calls[i].arg.to \in Hidden
      BY <1>3, <2>2 DEF CallType, CarriesOf
    <3>4. row \in VisitRow /\ row.review = calls[i].arg.to /\ visit[v].ver + 1 \in Nat
      BY <1>0, <3>3 DEF VisitRow, Hidden
    <3>5. /\ \A u \in Visit \ {v} : visit'[u] = visit[u]
          /\ visit'[v].review = calls[i].arg.to
      <4> HIDE DEF row
      <4>1. PICK u : visit' = [visit EXCEPT ![v] = [row EXCEPT !.ver = visit[v].ver + 1, !.undone = u]]
        BY <3>1 DEF Write
      <4>2. [row EXCEPT !.ver = visit[v].ver + 1, !.undone = u].review = row.review
        BY <3>4 DEF VisitRow
      <4> QED BY <1>0, <3>3, <3>4, <4>1, <4>2
    <3> HIDE DEF row
    <3>6. v \in DOMAIN rv.list /\ rv.list[v] = visit[v].review /\ calls[i].arg.to = flipped(rv.list[v])
      BY <1>0, <1>5, <1>6, <2>2, <3>1 DEF ToggleKnown
    <3>7. \A j \in s : calls[j].kind # "reviews"
      BY <1>0, <2>2 DEF LoadedOnce
    <3>8. DOMAIN rv.list \subseteq Visit
      BY DEF Types, ReviewType
    <3>9. ASSUME NEW j \in s PROVE LoadKnown(calls'[j], visit') /\ ToggleKnown(calls'[j], rv.list, visit')
      <4>1. LoadKnown(calls'[j], visit')
        BY <1>2, <3>7 DEF LoadKnown
      <4>2. CASE j = i
        BY <1>0, <1>2, <2>2, <3>2, <3>5, <3>6, <4>1, <4>2 DEF ToggleKnown
      <4>3. CASE j # i /\ calls[j].kind = "publish"
        <5>1. calls[j].arg.id # v /\ calls'[j] = calls[j] /\ ToggleKnown(calls[j], rv.list, visit)
          BY <1>0, <1>2, <1>5, <1>6, <2>2, <4>3 DEF Toggles
        <5>2. calls[j].arg.id \in Visit
          BY <3>8, <4>3, <5>1 DEF ToggleKnown
        <5> QED BY <3>5, <4>1, <5>1, <5>2 DEF ToggleKnown
      <4>4. CASE j # i /\ calls[j].kind # "publish"
        BY <1>2, <4>1, <4>4 DEF ToggleKnown
      <4> QED BY <4>2, <4>3, <4>4
    <3>10. ASSUME NEW u \in DOMAIN rv.list, \A j \in s : ~Toggles(calls[j], u) PROVE rv.list[u] = visit'[u].review
      <4>1. u # v
        BY <1>0, <2>2, <3>10 DEF Toggles
      <4> QED BY <1>5, <1>6, <3>5, <3>8, <3>10, <4>1
    <3> QED BY <3>9, <3>10
  <2> QED BY <1>3, <2>1, <2>2 DEF CallType, KindsOf, ReviewKinds
<1>7. PublishedAsShown'
  <2>1. SUFFICES ASSUME faults' = 0, ~rv.doubled
                 PROVE  /\ \A j \in s : LoadKnown(calls'[j], visit') /\ ToggleKnown(calls'[j], rv.list, visit')
                        /\ \A j, k \in s : Toggles(calls'[k], calls'[j].arg.id) /\ calls'[j].kind = "publish" => j = k
                        /\ \A v \in DOMAIN rv.list :
                             (\A j \in s : ~Toggles(calls'[j], v)) => rv.list[v] = visit'[v].review
    BY <1>0, <1>2 DEF PublishedAsShown, LoadKnown, ToggleKnown, Toggles
  <2> HIDE DEF s
  <2>2. \A j \in s : \A v : Toggles(calls'[j], v) <=> Toggles(calls[j], v)
    BY <1>2 DEF Toggles
  <2> QED BY <1>2, <1>5, <1>6, <2>1, <2>2
<1> QED BY <1>4, <1>7 DEF ReviewInv

\* The page's own steps.
LEMMA ReviewsActs ==
  ASSUME Types, Types', ReviewInv, Untouched, PageSteps("reviews")
  PROVE  ReviewInv'
<1> DEFINE s == At("reviews", calls)
<1>0. /\ IsSeqOf(calls) /\ IsSeqOf(calls') /\ CallsType /\ faults' = faults /\ visit' = visit
      /\ LoadedOnce /\ PublishedAsShown
  BY DEF Types, CallsType, Untouched, tables, ReviewInv
<1>1. rv = [list |-> rv.list, loading |-> rv.loading, toggling |-> rv.toggling, doubled |-> rv.doubled]
      /\ rv.loading \in BOOLEAN /\ rv.doubled \in BOOLEAN
  BY DEF Types, ReviewType
<1>2. ASSUME faults = 0, ~rv.doubled
      PROVE  /\ \A j \in s : LoadKnown(calls[j], visit) /\ ToggleKnown(calls[j], rv.list, visit)
             /\ \A j, k \in s : Toggles(calls[k], calls[j].arg.id) /\ calls[j].kind = "publish" => j = k
             /\ \A v \in DOMAIN rv.list : (\A j \in s : ~Toggles(calls[j], v)) => rv.list[v] = visit[v].review
  BY <1>0, <1>2 DEF PublishedAsShown
<1>3. ASSUME NEW v \in DOMAIN rv.list, togglePublished(v) PROVE ReviewInv'
  <2> DEFINE c == Call("reviews", "publish", [id |-> v, to |-> flipped(rv.list[v])], "")
  <2>1. /\ ~rv.loading /\ calls' = Append(calls, c) /\ rv'.list = rv.list /\ rv'.loading = rv.loading
        /\ ~rv'.doubled => ~rv.doubled /\ \A i \in DOMAIN calls : ~Toggles(calls[i], v)
    <3> DEFINE k == rv.doubled \/ \E i \in DOMAIN calls : calls[i].kind = "publish" /\ calls[i].arg.id = v
    <3>1. rv' = [rv EXCEPT !.toggling = v, !.doubled = k]
      BY <1>3, Zenon DEF togglePublished
    <3>2. ~k => ~rv.doubled /\ \A i \in DOMAIN calls : ~Toggles(calls[i], v)
      BY DEF Toggles
    <3> HIDE DEF k
    <3>3. rv'.list = rv.list /\ rv'.loading = rv.loading /\ rv'.doubled = k
      BY <1>1, <3>1
    <3> QED BY <1>3, <3>2, <3>3 DEF togglePublished
  <2>2. c.from = "reviews" /\ c.kind = "publish" /\ c.pc = "sent" /\ c.arg.id = v /\ c.arg.to = flipped(rv.list[v])
    BY DEF Call
  <2> HIDE DEF c
  <2>3. PICK new : Follows("reviews", calls, calls', {}, new) /\ OneNew(new, c)
    BY <1>0, <2>1, <2>2, Sent
  <2>4. LoadedOnce'
    BY <1>0, <2>1, <2>2, <2>3, LoadedMoved DEF OneNew
  <2>5. ASSUME faults' = 0, ~rv'.doubled
        PROVE  /\ \A i \in s \ {} :
                    /\ LoadKnown(calls[i], visit') /\ ToggleKnown(calls[i], rv'.list, visit')
                    /\ \A n \in new : calls[i].kind = "publish" => ~Toggles(calls'[n], calls[i].arg.id)
               /\ \A n \in new : /\ LoadKnown(calls'[n], visit') /\ ToggleKnown(calls'[n], rv'.list, visit')
                                 /\ \A m \in new : m = n
               /\ \A u \in DOMAIN rv'.list :
                    (\A j \in At("reviews", calls') : ~Toggles(calls'[j], u)) => rv'.list[u] = visit'[u].review
    <3>1. faults = 0 /\ ~rv.doubled /\ \A i \in s : ~Toggles(calls[i], v)
      BY <1>0, <2>1, <2>5 DEF At
    <3>2. rv.list[v] = visit[v].review
      BY <1>2, <3>1
    <3>3. \A n \in new : calls'[n] = c /\ \A m \in new : m = n
      BY <2>3 DEF OneNew
    <3>4. \A i \in s : \E j \in At("reviews", calls') : calls'[j] = calls[i]
      BY <2>3, FollowsOld
    <3> HIDE DEF s
    <3>5. \A i \in s : /\ LoadKnown(calls[i], visit') /\ ToggleKnown(calls[i], rv'.list, visit')
                       /\ \A n \in new : calls[i].kind = "publish" => ~Toggles(calls'[n], calls[i].arg.id)
      BY <1>0, <1>2, <2>1, <2>2, <3>1, <3>3 DEF Toggles
    <3>6. LoadKnown(c, visit) /\ ToggleKnown(c, rv.list, visit)
      BY <2>2, <3>2 DEF LoadKnown, ToggleKnown
    <3>7. ASSUME NEW u \in DOMAIN rv.list, \A j \in At("reviews", calls') : ~Toggles(calls'[j], u)
          PROVE  rv.list[u] = visit[u].review
      <4>1. \A i \in s : ~Toggles(calls[i], u)
        BY <3>4, <3>7
      <4> QED BY <1>2, <3>1, <4>1
    <3> QED BY <1>0, <2>1, <3>3, <3>5, <3>6, <3>7
  <2>6. PublishedAsShown'
    <3> HIDE DEF s
    <3>1. faults' = 0 /\ ~rv'.doubled => faults = 0 /\ ~rv.doubled
      BY <1>0, <2>1
    <3> QED BY <1>0, <2>3, <2>5, <3>1, PublishedMoved DEF s
  <2> QED BY <2>4, <2>6 DEF ReviewInv
<1>4. ASSUME NEW i \in DOMAIN calls, ReviewsReply(i) PROVE ReviewInv'
  <2> DEFINE l == IF calls[i].res.ok THEN calls[i].res.val ELSE rv.list
  <2>1. /\ i \in s /\ calls[i].kind = "reviews" /\ calls[i].pc = "done" /\ calls' = Others(i)
        /\ rv'.list = l /\ ~rv'.loading /\ rv'.doubled = rv.doubled
    <3>1. rv' = [rv EXCEPT !.loading = FALSE, !.list = l]
      BY <1>4, Zenon DEF ReviewsReply
    <3> HIDE DEF l
    <3>2. rv'.list = l /\ ~rv'.loading /\ rv'.doubled = rv.doubled
      BY <1>1, <3>1
    <3> QED BY <1>4, <3>2 DEF ReviewsReply, Answers, At
  <2>2. Follows("reviews", calls, calls', {i}, {})
    BY <1>0, <2>1, OwnTake
  <2>3. \A j \in s : j = i
    BY <1>0, <2>1 DEF LoadedOnce
  <2>4. At("reviews", calls') = {}
    BY <2>2, <2>3, FollowsOld
  <2>5. LoadedOnce'
    BY <2>4 DEF LoadedOnce
  <2>6. ASSUME faults = 0, ~rv.doubled, NEW v \in DOMAIN l PROVE l[v] = visit[v].review
    <3>1. LoadKnown(calls[i], visit)
      BY <1>2, <2>1, <2>6
    <3>2. CASE calls[i].res.ok
      BY <2>1, <2>6, <3>1, <3>2 DEF LoadKnown
    <3>3. CASE ~calls[i].res.ok
      BY <1>2, <2>1, <2>3, <2>6, <3>3 DEF Toggles
    <3> QED BY <3>2, <3>3
  <2> HIDE DEF l
  <2>7. PublishedAsShown'
    BY <1>0, <2>1, <2>4, <2>6 DEF PublishedAsShown
  <2> QED BY <2>5, <2>7 DEF ReviewInv
<1>5. ASSUME NEW i \in DOMAIN calls, PublishReply(i) PROVE ReviewInv'
  <2> DEFINE v == calls[i].arg.id
             l == IF calls[i].res.ok THEN [rv.list EXCEPT ![v] = flipped(@)] ELSE rv.list
  <2>1. /\ i \in s /\ calls[i].kind = "publish" /\ calls[i].pc = "done" /\ calls' = Others(i)
        /\ rv'.list = l /\ rv'.loading = rv.loading /\ rv'.doubled = rv.doubled
    <3>1. rv' = [rv EXCEPT !.toggling = Nothing, !.list = l]
      BY <1>5, Zenon DEF PublishReply
    <3> HIDE DEF l
    <3>2. rv'.list = l /\ rv'.loading = rv.loading /\ rv'.doubled = rv.doubled
      BY <1>1, <3>1
    <3> QED BY <1>5, <3>2 DEF PublishReply, Answers, At
  <2>2. Follows("reviews", calls, calls', {i}, {})
    BY <1>0, <2>1, OwnTake
  <2>3. LoadedOnce'
    BY <1>0, <2>1, <2>2, LoadedMoved
  <2>4. ASSUME faults = 0, ~rv.doubled
        PROVE  /\ \A j \in s \ {i} : LoadKnown(calls[j], visit) /\ ToggleKnown(calls[j], l, visit)
               /\ \A u \in DOMAIN l :
                    (\A j \in At("reviews", calls') : ~Toggles(calls'[j], u)) => l[u] = visit[u].review
    <3>1. \A j \in s : LoadKnown(calls[j], visit) /\ ToggleKnown(calls[j], rv.list, visit)
      BY <1>2, <2>4
    <3>2. v \in DOMAIN rv.list /\ calls[i].res.ok /\ visit[v].review = flipped(rv.list[v])
      BY <2>1, <3>1 DEF ToggleKnown
    <3>3. DOMAIN l = DOMAIN rv.list /\ l[v] = visit[v].review /\ \A u \in DOMAIN rv.list \ {v} : l[u] = rv.list[u]
      BY <3>2
    <3>4. \A j \in s \ {i} : calls[j].kind = "publish" => calls[j].arg.id # v
      BY <1>2, <2>1, <2>4 DEF Toggles
    <3> HIDE DEF l
    <3>5. \A j \in s \ {i} : LoadKnown(calls[j], visit) /\ ToggleKnown(calls[j], l, visit)
      BY <3>1, <3>3, <3>4 DEF ToggleKnown
    <3>6. ASSUME NEW u \in DOMAIN rv.list, u # v, \A j \in At("reviews", calls') : ~Toggles(calls'[j], u)
          PROVE  rv.list[u] = visit[u].review
      <4>1. \A j \in s \ {i} : \E k \in At("reviews", calls') : calls'[k] = calls[j]
        BY <2>2, FollowsOld
      <4>2. \A j \in s : ~Toggles(calls[j], u)
        <5> HIDE DEF s
        <5> QED BY <3>6, <4>1 DEF Toggles
      <4> QED BY <1>2, <2>4, <3>6, <4>2
    <3> QED BY <3>3, <3>5, <3>6
  <2> HIDE DEF l
  <2>5. PublishedAsShown'
    <3>1. faults' = 0 /\ ~rv'.doubled =>
           /\ faults = 0 /\ ~rv.doubled
           /\ \A j \in At("reviews", calls) \ {i} :
                /\ LoadKnown(calls[j], visit') /\ ToggleKnown(calls[j], rv'.list, visit')
                /\ \A n \in {} : calls[j].kind = "publish" => ~Toggles(calls'[n], calls[j].arg.id)
           /\ \A n \in {} : /\ LoadKnown(calls'[n], visit') /\ ToggleKnown(calls'[n], rv'.list, visit')
                            /\ \A m \in {} : m = n
           /\ \A u \in DOMAIN rv'.list :
                (\A j \in At("reviews", calls') : ~Toggles(calls'[j], u)) => rv'.list[u] = visit'[u].review
      BY <1>0, <2>1, <2>4
    <3> QED BY <1>0, <2>2, <3>1, PublishedMoved
  <2> QED BY <2>3, <2>5 DEF ReviewInv
<1> QED BY <1>3, <1>4, <1>5 DEF PageSteps, ReviewClick

\* The page's invariant holds at the start
LEMMA ReviewsStart ==
  ASSUME Init
  PROVE  ReviewInv
<1>1. rv.loading = isOpen("reviews") /\ rv.list = <<>>
  BY DEF Init, AgendaInit
<1>2. ASSUME NEW i \in At("reviews", calls)
      PROVE  calls[i].kind = "reviews" /\ calls[i].pc = "sent" /\ isOpen("reviews")
             /\ \A j \in At("reviews", calls) : i = j
  <2>1. StartCall(calls[i]) /\ calls[i].from = "reviews" /\ \A j \in At("reviews", calls) : i = j
    BY StartCalls DEF Starts, At
  <2>2. calls[i].kind \in ReviewKinds
    BY <2>1 DEF StartCall, CallType, KindsOf
  <2> QED BY <2>1, <2>2 DEF StartCall, ReviewKinds
<1>3. LoadedOnce
  BY <1>1, <1>2 DEF LoadedOnce
<1>4. DOMAIN rv.list = {}
  BY <1>1
<1>5. PublishedAsShown
  BY <1>2, <1>4 DEF PublishedAsShown, LoadKnown, ToggleKnown
<1> QED BY <1>3, <1>5 DEF ReviewInv

\* and is kept by every step.
LEMMA ReviewsStay ==
  ASSUME Types, Types', ReviewInv, [Next]_vars
  PROVE  ReviewInv'
<1>1. "reviews" \in PageNames
  BY DEF PageNames
<1> QED BY <1>1, Frame, ReviewsFrame, ReviewsServes, ReviewsActs

--------------------------------------------------------------------------------
(* The settings.                                                           *)

\* What the answers bring is known as requests go and come.
LEMMA AnswersMoved ==
  ASSUME FormsKnown, IsSeqOf(calls), IsSeqOf(calls'),
         NEW gone, NEW new, Follows("settings", calls, calls', gone, new),
         limits' = limits, tenant' = tenant, \A n \in new : calls'[n].pc = "sent",
         faults' = 0 /\ ~limits.reorder =>
           /\ faults = 0 /\ FormKnown'
           /\ \A i \in gone : \A j \in At("settings", calls) : i <= j
  PROVE  FormsKnown'
<1>1. PICK f : Origin("settings", calls, calls', gone, new, f)
  BY FollowsMap
<1> DEFINE s == At("settings", calls)
           t == At("settings", calls')
<1>2. /\ \A j \in t \ new : f[j] \in s \ gone /\ calls'[j] = calls[f[j]]
      /\ \A i \in s \ gone : \E j \in t \ new : f[j] = i
      /\ \A j, k \in t \ new : j < k <=> f[j] < f[k]
      /\ s \subseteq Nat /\ t \subseteq Nat
  BY <1>1 DEF Origin
<1>3. SUFFICES ASSUME faults' = 0, ~limits.reorder PROVE AnswersKnown'
  BY DEF FormsKnown
<1>4. \A i \in s : calls[i].pc = "done" /\ calls[i].res.ok =>
        \A g \in Forms : \/ calls[i].res.val[g] = tenant[g]
                         \/ \E j \in s : j > i /\ Saves(calls[j], g)
  BY <1>3 DEF FormsKnown, AnswersKnown, Brings
<1>5. \A i \in gone : \A j \in s : i <= j
  BY <1>3
<1> HIDE DEF s, t
<1>6. ASSUME NEW j \in t, calls'[j].pc = "done", calls'[j].res.ok, NEW g \in Forms, calls'[j].res.val[g] # tenant[g]
      PROVE  \E k \in t : k > j /\ Saves(calls'[k], g)
  <2>1. j \notin new /\ f[j] \in s \ gone /\ calls'[j] = calls[f[j]]
    BY <1>2, <1>6
  <2>2. PICK i \in s : i > f[j] /\ Saves(calls[i], g)
    BY <1>4, <1>6, <2>1
  <2>3. i \notin gone
    <3>1. i \in Nat /\ f[j] \in Nat
      BY <1>2, <2>1, <2>2
    <3>2. \A a, b \in Nat : a > b => ~(a <= b)
      OBVIOUS
    <3>3. ~(i <= f[j])
      BY <2>2, <3>1, <3>2
    <3> QED BY <1>5, <2>1, <3>3
  <2>4. PICK k \in t \ new : f[k] = i
    BY <1>2, <2>3
  <2>5. j < k
    BY <1>2, <2>1, <2>2, <2>4
  <2> QED BY <1>2, <2>2, <2>4, <2>5
<1>7. AnswersKnown'
  BY <1>6 DEF AnswersKnown, Brings, Saves, t
<1> QED BY <1>7

\* A form stays known while its saves do.
LEMMA FormMoved ==
  ASSUME FormKnown, NEW gone, NEW new, Follows("settings", calls, calls', gone, new), tenant' = tenant,
         \A i \in gone, f \in Forms : ~Saves(calls[i], f),
         sp'.form # Nothing => /\ sp.form # Nothing /\ sp.typed \subseteq sp'.typed
                               /\ \A f \in Forms \ sp'.typed : sp'.form[f] = sp.form[f]
  PROVE  FormKnown'
<1>1. \A i \in At("settings", calls) \ gone : \E j \in At("settings", calls') : calls'[j] = calls[i]
  BY FollowsOld
<1>2. ASSUME sp'.form # Nothing, NEW f \in Forms, f \notin sp'.typed, sp'.form[f] # tenant[f]
      PROVE  \E j \in At("settings", calls') : Saves(calls'[j], f)
  <2>1. PICK i \in At("settings", calls) : Saves(calls[i], f)
    BY <1>2 DEF FormKnown
  <2>2. i \notin gone
    BY <2>1
  <2> QED BY <1>1, <2>1, <2>2
<1> QED BY <1>2 DEF FormKnown, Saves

\* The steps of the others.
LEMMA SettingsFrame ==
  ASSUME Types, Types', SettingsInv, Keeps("settings"), SamePage("settings"), SameTables("settings")
  PROVE  SettingsInv'
<1>1. /\ Follows("settings", calls, calls', {}, {}) /\ IsSeqOf(calls) /\ IsSeqOf(calls')
      /\ sp' = sp /\ limits' = limits /\ (faults' = 0 => faults = 0) /\ tenant' = tenant
  BY DEF Keeps, SamePage, SameTables, Types, CallsType
<1>2. InOrder("settings")'
  BY <1>1, OrderMoved DEF SettingsInv
<1>3. FormsKnown'
  <2>1. FormKnown => FormKnown'
    BY <1>1, FormMoved
  <2> QED BY <1>1, <2>1, AnswersMoved DEF SettingsInv, FormsKnown
<1> QED BY <1>2, <1>3 DEF SettingsInv

\* The server's answers to the page, and what is lost of them.
LEMMA SettingsServes ==
  ASSUME Types, SettingsInv, UNCHANGED pages, NEW i \in At("settings", calls),
         Serve(i) \/ Lose(i) \/ LoseAnswer(i)
  PROVE  SettingsInv'
<1> DEFINE s == At("settings", calls)
<1>0. /\ sp' = sp /\ i \in s /\ i \in DOMAIN calls /\ CallsType /\ IsSeqOf(calls)
      /\ tenant \in [Forms -> Nat] /\ faults \in Nat /\ sp.form \in [Forms -> Nat] \cup {Nothing}
  BY DEF Types, TablesType, CallsType, pages, At, SettingsType
<1>1. Handled("settings", i)
  BY HandledSo
<1>2. /\ At("settings", calls') = s /\ limits' = limits
      /\ \A j \in s : /\ j # i => calls'[j] = calls[j]
                      /\ calls'[j].kind = calls[j].kind /\ calls'[j].arg = calls[j].arg
  BY <1>1 DEF Handled
<1>3. InOrder("settings") /\ FormsKnown /\ InOrder("settings")'
  BY <1>0, <1>1, OrderHandled DEF SettingsInv
<1>4. CallType(calls[i]) /\ calls[i].from = "settings" /\ calls[i].kind \in SettingsKinds
  <2>1. CallType(calls[i]) /\ calls[i].from = "settings"
    BY <1>0 DEF CallsType, At
  <2> QED BY <2>1 DEF CallType, KindsOf
<1>5. s \subseteq Nat /\ \A j \in s : j >= 1 /\ calls[j].from = "settings"
  <2>1. DOMAIN calls = 1..Len(calls) /\ Len(calls) \in Nat
    BY <1>0, OwnElements DEF IsSeqOf
  <2> QED BY <2>1 DEF At
<1>6. SUFFICES ASSUME faults' = 0, ~limits.reorder PROVE AnswersKnown' /\ FormKnown'
  BY <1>2, <1>3 DEF SettingsInv, FormsKnown
<1>7. faults = 0 /\ Serve(i) /\ Served(i)
  BY <1>0, <1>1, <1>6 DEF Handled, Effects
<1>8. /\ \A j \in s : calls[j].pc = "done" /\ calls[j].res.ok =>
           \A f \in Forms : \/ calls[j].res.val[f] = tenant[f]
                            \/ \E k \in s : k > j /\ Saves(calls[k], f)
      /\ sp.form # Nothing => \A f \in Forms \ sp.typed : \/ sp.form[f] = tenant[f]
                                                          \/ \E j \in s : Saves(calls[j], f)
  BY <1>3, <1>6, <1>7 DEF FormsKnown, AnswersKnown, FormKnown, Brings
<1>9. \A j \in s : calls[j].pc # "sent" /\ (calls[j].pc = "done" => calls[j].res.ok)
        => \A k \in s : k < j => calls[k].pc = "done"
  BY <1>3, <1>6 DEF InOrder
<1>10. SUFFICES
         /\ \A j \in s : calls'[j].pc = "done" /\ calls'[j].res.ok =>
              \A f \in Forms : \/ calls'[j].res.val[f] = tenant'[f]
                               \/ \E k \in s : k > j /\ Saves(calls'[k], f)
         /\ sp.form # Nothing => \A f \in Forms \ sp.typed : \/ sp.form[f] = tenant'[f]
                                                             \/ \E j \in s : Saves(calls'[j], f)
  <2> HIDE DEF s
  <2> QED BY <1>0, <1>2 DEF AnswersKnown, FormKnown, Brings, Saves
<1> HIDE DEF s
\* An answer that says what the row holds.
<1>11. CASE getSettings(i)
  <2>1. Reply(i, Ok(tenant)) /\ tenant' = tenant
    BY <1>11 DEF getSettings, tables
  <2>2. calls'[i].pc = "done" /\ calls'[i].res.ok /\ calls'[i].res.val = tenant
    BY <1>0, <2>1, AnswerIs DEF Ok
  <2>3. calls[i].kind = "save" => calls[i].pc = "written"
    BY <1>11 DEF getSettings
  <2>4. \A j \in s : \A f : Saves(calls[j], f) => Saves(calls'[j], f)
    BY <1>2, <2>2 DEF Saves
  <2> QED BY <1>2, <1>8, <2>1, <2>2, <2>4
\* A save refused.
<1>12. CASE updateSettings(i) /\ calls[i].arg.refused
  <2>1. Reply(i, Error(400)) /\ tenant' = tenant /\ calls[i].pc = "sent"
    BY <1>12 DEF updateSettings, Is
  <2>2. ~calls'[i].res.ok
    BY <1>0, <2>1, AnswerIs DEF Error
  <2>3. \A j \in s : \A f : Saves(calls[j], f) => Saves(calls'[j], f)
    BY <1>2, <2>1 DEF Saves
  <2> QED BY <1>2, <1>8, <2>1, <2>2, <2>3
\* A save that changes one form: what was answered before has it to come.
<1>13. CASE updateSettings(i) /\ ~calls[i].arg.refused
  <2> DEFINE c == calls[i].arg
  <2>1. /\ calls[i].kind = "save" /\ calls[i].pc = "sent"
        /\ tenant' = IF c.skipped THEN tenant ELSE [tenant EXCEPT ![c.form] = c.value]
        /\ calls' = [calls EXCEPT ![i].pc = "written"]
    BY <1>13 DEF updateSettings, Is
  <2>2. \A f \in Forms : f # c.form => tenant'[f] = tenant[f]
    BY <1>0, <2>1
  <2>3. calls'[i].pc = "written"
    <3>1. calls' = [calls EXCEPT ![i] = [calls[i] EXCEPT !.pc = "written"]]
      BY <2>1
    <3> DEFINE d == [calls[i] EXCEPT !.pc = "written"]
    <3>2. d.pc = "written"
      <4>1. calls[i] = [from |-> calls[i].from, kind |-> calls[i].kind, arg |-> calls[i].arg,
                        then |-> calls[i].then, pc |-> calls[i].pc, res |-> calls[i].res]
        BY <1>4, Zenon DEF CallType
      <4> QED BY <4>1
    <3> HIDE DEF d
    <3>3. calls'[i] = d
      BY <1>0, <3>1, ExceptFacts DEF d
    <3> QED BY <3>2, <3>3
  <2>4. Saves(calls'[i], c.form)
    BY <1>0, <1>2, <2>1, <2>3 DEF Saves
  <2>5. \A j \in s : \A f : Saves(calls[j], f) => Saves(calls'[j], f)
    BY <1>2, <2>1 DEF Saves
  <2>6. ASSUME NEW j \in s, calls[j].pc = "done", calls[j].res.ok PROVE i > j
    <3>1. j # i /\ ~(i < j)
      BY <1>0, <1>9, <2>1, <2>6
    <3>2. i \in Nat /\ j \in Nat
      BY <1>0, <1>5
    <3> QED BY <3>1, <3>2
  <2> HIDE DEF c
  <2>7. ASSUME NEW j \in s, calls'[j].pc = "done", calls'[j].res.ok, NEW f \in Forms
        PROVE  \/ calls'[j].res.val[f] = tenant'[f]
               \/ \E k \in s : k > j /\ Saves(calls'[k], f)
    <3>1. j # i /\ calls'[j] = calls[j] /\ i > j
      BY <1>2, <2>3, <2>6, <2>7
    <3>2. CASE f = c.form
      BY <1>0, <2>4, <3>1, <3>2
    <3>3. CASE f # c.form
      BY <1>8, <2>2, <2>5, <2>7, <3>1, <3>3
    <3> QED BY <3>2, <3>3
  <2>8. ASSUME sp.form # Nothing, NEW f \in Forms, f \notin sp.typed
        PROVE  sp.form[f] = tenant'[f] \/ \E j \in s : Saves(calls'[j], f)
    <3>1. CASE f = c.form
      BY <1>0, <2>4, <3>1
    <3>2. CASE f # c.form
      BY <1>8, <2>2, <2>5, <2>8, <3>2
    <3> QED BY <3>1, <3>2
  <2> QED BY <2>7, <2>8
<1> QED BY <1>4, <1>7, <1>11, <1>12, <1>13, HandlerOf

\* The page's own steps.
LEMMA SettingsActs ==
  ASSUME Types, Types', SettingsInv, Untouched, PageSteps("settings")
  PROVE  SettingsInv'
<1> DEFINE s == At("settings", calls)
<1>0. /\ IsSeqOf(calls) /\ IsSeqOf(calls') /\ CallsType /\ limits' = limits /\ faults' = faults /\ tenant' = tenant
      /\ InOrder("settings") /\ FormsKnown /\ SettingsType
  BY DEF Types, CallsType, Untouched, tables, SettingsInv
<1>1. formShown => sp.form \in [Forms -> Nat] /\ sp.form # Nothing
  BY <1>0 DEF SettingsType, formShown
<1>2. ASSUME NEW gone, NEW new, Follows("settings", calls, calls', gone, new),
             \A n \in new : calls'[n].pc = "sent",
             faults = 0 /\ ~limits.reorder => FormKnown' /\ \A i \in gone : \A j \in s : i <= j
      PROVE  SettingsInv'
  <2>1. InOrder("settings")'
    BY <1>0, <1>2, OrderMoved
  <2>2. FormsKnown'
    BY <1>0, <1>2, AnswersMoved
  <2> QED BY <2>1, <2>2 DEF SettingsInv
<1>3. ASSUME NEW f \in Forms, NEW x \in limits.values, Type(f, x) PROVE SettingsInv'
  <2> DEFINE g == [sp.form EXCEPT ![f] = x]
  <2>1. sp' = [sp EXCEPT !.form = g, !.typed = @ \cup {f}] /\ UNCHANGED calls
    BY <1>3 DEF Type
  <2>2. sp.form # Nothing /\ \A h \in Forms : h # f => g[h] = sp.form[h]
    BY <1>1, <1>3 DEF Type
  <2> HIDE DEF g
  <2>3. sp'.form = g /\ sp'.typed = sp.typed \cup {f}
    BY <1>0, <2>1 DEF SettingsType
  <2>4. Follows("settings", calls, calls', {}, {})
    BY <2>1, FollowsSame
  <2>5. FormKnown => FormKnown'
    BY <1>0, <2>2, <2>3, <2>4, FormMoved
  <2> QED BY <1>0, <1>2, <2>4, <2>5 DEF FormsKnown
<1>4. ASSUME NEW f \in Forms, SaveForm(f) PROVE SettingsInv'
  <2>1. PICK a : calls' = Append(calls, Call("settings", "save", a, ""))
    BY <1>4 DEF SaveForm
  <2> DEFINE c == Call("settings", "save", a, "")
  <2>5. calls' = Append(calls, c) /\ c.from = "settings" /\ c.pc = "sent"
    BY <2>1 DEF Call
  <2> HIDE DEF c
  <2>2. sp'.form = sp.form /\ sp'.typed = sp.typed
    BY <1>0, <1>4 DEF SaveForm, SettingsType
  <2>3. PICK new : Follows("settings", calls, calls', {}, new) /\ OneNew(new, c)
    BY <1>0, <2>5, Sent
  <2>4. FormKnown => FormKnown'
    BY <1>0, <2>2, <2>3, FormMoved
  <2> QED BY <1>0, <1>2, <2>3, <2>4, <2>5 DEF FormsKnown, OneNew
<1>5. ASSUME NEW i \in DOMAIN calls, NEW kind \in SettingsKinds, Answers(i, "settings", kind), calls' = Others(i),
             calls[i].res.ok => sp'.form = calls[i].res.val /\ sp'.typed = {},
             ~calls[i].res.ok => sp'.form = sp.form /\ sp'.typed = sp.typed
      PROVE  SettingsInv'
  <2>1. i \in s /\ calls[i].pc = "done" /\ (~limits.reorder => \A j \in s : i <= j)
    BY <1>0, <1>5, FirstTaken
  <2>2. Follows("settings", calls, calls', {i}, {})
    BY <1>0, <1>5, OwnTake
  <2>3. ASSUME faults = 0, ~limits.reorder PROVE FormKnown'
    <3>1. AnswersKnown /\ FormKnown
      BY <1>0, <2>3 DEF FormsKnown
    <3>2. CASE ~calls[i].res.ok
      <4>1. \A f \in Forms : ~Saves(calls[i], f)
        BY <2>1, <3>2 DEF Saves
      <4> QED BY <1>0, <1>5, <2>2, <3>1, <3>2, <4>1, FormMoved
    <3>3. CASE calls[i].res.ok
      <4>1. \A f \in Forms : \/ calls[i].res.val[f] = tenant[f]
                             \/ \E j \in s : j > i /\ Saves(calls[j], f)
        BY <2>1, <3>1, <3>3 DEF AnswersKnown, Brings
      <4>2. \A j \in s \ {i} : \E k \in At("settings", calls') : calls'[k] = calls[j]
        BY <2>2, FollowsOld
      <4>3. ~(i > i)
        <5>1. i \in Nat
          BY <1>0, OwnElements DEF IsSeqOf
        <5> QED BY <5>1
      <4> HIDE DEF s
      <4>4. \A f \in Forms : \/ calls[i].res.val[f] = tenant[f]
                             \/ \E k \in At("settings", calls') : Saves(calls'[k], f)
        BY <4>1, <4>2, <4>3
      <4> QED BY <1>0, <1>5, <3>3, <4>4 DEF FormKnown, Saves
    <3> QED BY <3>2, <3>3
  <2> QED BY <1>2, <2>1, <2>2, <2>3
<1>6. ASSUME NEW i \in DOMAIN calls, SettingsReply(i) PROVE SettingsInv'
  <2>1. /\ calls[i].res.ok => sp'.form = calls[i].res.val /\ sp'.typed = {}
        /\ ~calls[i].res.ok => sp'.form = sp.form /\ sp'.typed = sp.typed
    BY <1>0, <1>6 DEF SettingsReply, applySettings, SettingsType
  <2> QED BY <1>5, <1>6, <2>1 DEF SettingsReply, SettingsKinds
<1>7. ASSUME NEW i \in DOMAIN calls, SaveFormReply(i) PROVE SettingsInv'
  <2>1. /\ calls[i].res.ok => sp'.form = calls[i].res.val /\ sp'.typed = {}
        /\ ~calls[i].res.ok => sp'.form = sp.form /\ sp'.typed = sp.typed
    BY <1>0, <1>7 DEF SaveFormReply, applySettings, SettingsType
  <2> QED BY <1>5, <1>7, <2>1 DEF SaveFormReply, SettingsKinds
<1> QED BY <1>3, <1>4, <1>6, <1>7 DEF PageSteps, SettingsClicks, SettingsPageReply

\* The page's invariant holds at the start
LEMMA SettingsStarts ==
  ASSUME Init
  PROVE  SettingsInv
<1>1. \A i \in DOMAIN calls : calls[i].pc = "sent"
  BY StartCalls DEF Starts, StartCall
<1>2. sp.form = Nothing
  BY DEF Init, SettingsInit
<1> QED BY <1>1, <1>2 DEF SettingsInv, InOrder, FormsKnown, AnswersKnown, FormKnown, Brings, At

\* and is kept by every step.
LEMMA SettingsStay ==
  ASSUME Types, Types', SettingsInv, [Next]_vars
  PROVE  SettingsInv'
<1>1. "settings" \in PageNames
  BY DEF PageNames
<1> QED BY <1>1, Frame, SettingsFrame, SettingsServes, SettingsActs

--------------------------------------------------------------------------------
(* The agenda.                                                             *)

\* Requests stay those of the filter shown as they go and come.
LEMMA QueriesMoved ==
  ASSUME QueriesAgree, limits' = limits, NEW gone, NEW new, Follows("agenda", calls, calls', gone, new),
         ~ag'.crossed =>
           /\ ~ag.crossed
           /\ Query(ag)' = Query(ag) \/ At("agenda", calls) \ gone = {}
           /\ \A n \in new : OfQuery(calls'[n], Query(ag)')
           /\ isOpen("agenda") /\ At("agenda", calls') = {} /\ ~ag'.error => ag'.of = Query(ag)'
  PROVE  QueriesAgree'
<1>1. SUFFICES ASSUME ~ag'.crossed PROVE \A j \in At("agenda", calls') : OfQuery(calls'[j], Query(ag)')
  BY DEF QueriesAgree, OfQuery, isOpen
<1>2. \A i \in At("agenda", calls) : OfQuery(calls[i], Query(ag))
  BY <1>1 DEF QueriesAgree
<1>3. \A j \in At("agenda", calls') : j \in new \/ \E i \in At("agenda", calls) \ gone : calls'[j] = calls[i]
  BY FollowsOld
<1> DEFINE q == Query(ag)'
<1>4. (q = Query(ag) \/ At("agenda", calls) \ gone = {}) /\ \A n \in new : OfQuery(calls'[n], q)
  BY <1>1
<1> HIDE DEF q
<1>5. \A j \in At("agenda", calls') : OfQuery(calls'[j], q)
  BY <1>2, <1>3, <1>4
<1> QED BY <1>5 DEF q

\* Rows stay as new as the changes answered.
LEMMA RowsMoved ==
  ASSUME CallsType, RowsAreNew, IsSeqOf(calls), IsSeqOf(calls'), limits' = limits,
         NEW gone, NEW new, Follows("agenda", calls, calls', gone, new), \A n \in new : calls'[n].pc = "sent",
         \A v \in Visit : /\ visit[v].ver \in Nat /\ visit'[v].ver \in Nat /\ visit[v].ver <= visit'[v].ver
                          /\ ag'.acked[v] <= visit'[v].ver,
         ~limits.reorder =>
           /\ \A i \in At("agenda", calls) \ gone : Loads(calls[i]) => KnowsAll(calls[i].res.val.items, ag'.acked)
           /\ At("agenda", calls') = {} /\ ~ag'.error => KnowsAll(ag'.items, ag'.acked)
  PROVE  RowsAreNew'
<1>1. PICK f : Origin("agenda", calls, calls', gone, new, f)
  BY FollowsMap
<1> DEFINE s == At("agenda", calls)
           t == At("agenda", calls')
<1>2. /\ \A j \in t \ new : f[j] \in s \ gone /\ calls'[j] = calls[f[j]]
      /\ \A j, k \in t \ new : j < k <=> f[j] < f[k]
  BY <1>1 DEF Origin
<1>3. \A n \in new : ~Changes(calls'[n]) /\ ~Loads(calls'[n])
  BY DEF Changes, Loads
<1>4. \A i \in s : Changes(calls[i]) => /\ calls[i].res.val.ver <= visit'[calls[i].arg.id].ver
  <2> SUFFICES ASSUME NEW i \in s, Changes(calls[i]) PROVE calls[i].res.val.ver <= visit'[calls[i].arg.id].ver
    OBVIOUS
  <2>1. CallType(calls[i])
    BY DEF CallsType, At
  <2>2. calls[i].arg.id \in Visit /\ calls[i].res.val.ver \in Nat
    BY <2>1 DEF Changes, CallType, CarriesOf, BringsOf
  <2>3. calls[i].res.val.ver <= visit[calls[i].arg.id].ver
    BY DEF RowsAreNew
  <2> DEFINE x == calls[i].res.val.ver
             y == visit[calls[i].arg.id].ver
             z == visit'[calls[i].arg.id].ver
  <2>4. x \in Nat /\ y \in Nat /\ z \in Nat /\ x <= y /\ y <= z
    BY <2>2, <2>3
  <2> HIDE DEF x, y, z
  <2>5. x <= z
    BY <2>4
  <2> QED BY <2>5 DEF x, z
<1>5. ~limits.reorder => \A i \in s : Loads(calls[i]) =>
        \A j \in s : j < i /\ Changes(calls[j]) => Knows(calls[i].res.val.items, calls[j].arg.id, calls[j].res.val.ver)
  BY DEF RowsAreNew
<1> HIDE DEF s, t
<1>6. \A j \in t : Changes(calls'[j]) => calls'[j].res.val.ver <= visit'[calls'[j].arg.id].ver
  BY <1>2, <1>3, <1>4
<1>7. ~limits.reorder =>
        \A j \in t : Loads(calls'[j]) =>
          /\ KnowsAll(calls'[j].res.val.items, ag'.acked)
          /\ \A k \in t : k < j /\ Changes(calls'[k])
               => Knows(calls'[j].res.val.items, calls'[k].arg.id, calls'[k].res.val.ver)
  <2> SUFFICES ASSUME ~limits.reorder, NEW j \in t, Loads(calls'[j])
               PROVE  /\ KnowsAll(calls'[j].res.val.items, ag'.acked)
                      /\ \A k \in t : k < j /\ Changes(calls'[k])
                           => Knows(calls'[j].res.val.items, calls'[k].arg.id, calls'[k].res.val.ver)
    OBVIOUS
  <2>1. f[j] \in s \ gone /\ calls'[j] = calls[f[j]] /\ j \notin new
    BY <1>2, <1>3
  <2>2. KnowsAll(calls'[j].res.val.items, ag'.acked)
    BY <2>1 DEF s
  <2>3. ASSUME NEW k \in t, k < j, Changes(calls'[k])
        PROVE  Knows(calls'[j].res.val.items, calls'[k].arg.id, calls'[k].res.val.ver)
    <3>1. f[k] \in s \ gone /\ calls'[k] = calls[f[k]] /\ f[k] < f[j]
      BY <1>2, <1>3, <2>1, <2>3
    <3> QED BY <1>5, <2>1, <2>3, <3>1
  <2> QED BY <2>2, <2>3
<1> QED BY <1>6, <1>7 DEF RowsAreNew, Changes, Loads, KnowsAll, Knows, t

\* The steps of the others.
LEMMA AgendaFrame ==
  ASSUME Types, Types', AgendaInv, Keeps("agenda"), SamePage("agenda"), SameTables("agenda")
  PROVE  AgendaInv'
<1>1. /\ Follows("agenda", calls, calls', {}, {}) /\ IsSeqOf(calls) /\ IsSeqOf(calls') /\ CallsType
      /\ ag' = ag /\ limits' = limits /\ \A v \in Visit : visit[v].ver <= visit'[v].ver
      /\ QueriesAgree /\ InOrder("agenda") /\ RowsAreNew
  BY DEF Keeps, SamePage, SameTables, Types, CallsType, AgendaInv
<1>2. At("agenda", calls') = {} => At("agenda", calls) = {}
  BY <1>1, FollowsOld
<1>3. InOrder("agenda")'
  BY <1>1, OrderMoved
<1>4. QueriesAgree'
  <2>1. Query(ag)' = Query(ag)
    BY <1>1 DEF Query
  <2>2. ~ag.crossed /\ isOpen("agenda") /\ At("agenda", calls') = {} /\ ~ag.error => ag.of = Query(ag)
    BY <1>1, <1>2 DEF QueriesAgree
  <2> QED BY <1>1, <2>1, <2>2, QueriesMoved
<1>5. RowsAreNew'
  <2>1. \A v \in Visit : /\ visit[v].ver \in Nat /\ visit'[v].ver \in Nat /\ visit[v].ver <= visit'[v].ver
                         /\ ag.acked[v] <= visit'[v].ver
    <3> TAKE v \in Visit
    <3>1. visit[v].ver \in Nat /\ visit'[v].ver \in Nat /\ ag.acked[v] \in Nat
      BY DEF Types, TablesType, VisitRow, AgendaType
    <3>2. ag.acked[v] <= visit[v].ver /\ visit[v].ver <= visit'[v].ver
      BY <1>1 DEF RowsAreNew
    <3> QED BY <3>1, <3>2
  <2>2. ~limits.reorder =>
          /\ \A i \in At("agenda", calls) : Loads(calls[i]) => KnowsAll(calls[i].res.val.items, ag.acked)
          /\ At("agenda", calls') = {} /\ ~ag.error => KnowsAll(ag.items, ag.acked)
    BY <1>1, <1>2 DEF RowsAreNew
  <2> QED BY <1>1, <2>1, <2>2, RowsMoved
<1> QED BY <1>3, <1>4, <1>5 DEF AgendaInv

\* What the server says of the rows is what they are.
LEMMA ServedRows ==
  ASSUME Types, NEW i \in DOMAIN calls, Serve(i)
  PROVE  /\ calls[i].kind = "agenda" =>
              \A n \in DOMAIN calls'[i].res.val.items :
                LET row == calls'[i].res.val.items[n] IN row.id \in Visit /\ row.ver = visit[row.id].ver
         /\ Changes(calls'[i]) /\ calls[i].kind = "status" => calls'[i].res.val.ver = visit'[calls[i].arg.id].ver
<1>0. CallsType /\ CallType(calls[i]) /\ visit \in [Visit -> VisitRow]
  BY DEF Types, CallsType, TablesType
<1>1. CASE calls[i].kind = "agenda"
  <2> DEFINE c == calls[i].arg
             V == agendaWhere(c.q)
             row(v) == [id |-> v, status |-> visit[v].status, at |-> visit[v].at,
                        pro |-> visit[v].pro, ver |-> visit[v].ver]
             val(all) == [items |-> [n \in DOMAIN Page(all, c.page) |-> row(Page(all, c.page)[n])],
                          total |-> Len(all)]
  <2>1. listAppointments(i) /\ c.page \in Nat \ {0}
    BY <1>0, <1>1, HandlerOf DEF CallType, CarriesOf
  <2>2. PICK all \in byStart(V) : Reply(i, Ok(val(all)))
    BY <2>1 DEF listAppointments, Read
  <2>3. V \subseteq Visit /\ IsFiniteSet(V) /\ all \in SetToSeqs(V)
    <3>1. V \subseteq Visit
      BY DEF agendaWhere
    <3>2. IsFiniteSet(V)
      BY <3>1, DeskAssumption, FS_Subset, Zenon
    <3> QED BY <3>1, <3>2 DEF byStart
  <2> HIDE DEF V, c
  <2>4. \A n \in DOMAIN Page(all, c.page) : Page(all, c.page)[n] \in Visit
    BY <2>1, <2>3, PageOf
  <2>5. \A n \in DOMAIN val(all).items : val(all).items[n].id \in Visit
                                         /\ val(all).items[n].ver = visit[val(all).items[n].id].ver
    BY <2>4
  <2> HIDE DEF val
  <2>6. calls'[i].res.val = val(all)
    BY <1>0, <2>2, AnswerIs DEF Ok
  <2> QED BY <1>1, <2>5, <2>6
<1>2. CASE calls[i].kind = "status"
  <2> DEFINE v == calls[i].arg.id
             row == [visit[v] EXCEPT !.status = calls[i].arg.to]
  <2>1. (updateStatus(i) \/ statusWrite(i)) /\ v \in Visit /\ calls[i].arg.to \in Status
    BY <1>0, <1>2, HandlerOf DEF CallType, CarriesOf
  <2> DEFINE Told(b) == Write(v, row) /\ Reply(i, Ok([ver |-> visit[v].ver + 1, rebookingSuggested |-> b]))
  <2>2. (\E n : Reply(i, Error(n))) \/ Decide(i, v) \/ \E b : Told(b)
    <3>1. CASE updateStatus(i)
      BY <3>1 DEF updateStatus, Refuse
    <3>2. CASE statusWrite(i)
      <4> DEFINE b == /\ calls[i].arg.to = "COMPLETED" /\ calls[i].res # "COMPLETED"
                      /\ ~hasUpcoming(visit[v].client, v)
      <4>1. Told(b) \/ Refuse(i, 500)
        BY <3>2 DEF statusWrite, ById
      <4> HIDE DEF b, Told
      <4> QED BY <4>1 DEF Refuse
    <3> QED BY <2>1, <3>1, <3>2
  <2>3. row \in VisitRow /\ visit[v].ver + 1 \in Nat
    BY <1>0, <2>1 DEF VisitRow
  <2> HIDE DEF row
  <2>4. CASE \E n : Reply(i, Error(n))
    <3>1. ~calls'[i].res.ok
      BY <1>0, <2>4, AnswerIs DEF Error
    <3> QED BY <1>2, <3>1 DEF Changes
  <2>6. CASE Decide(i, v)
    <3>1. Marks(i, "read", visit[v].status)
      BY <2>6 DEF Decide, Marks
    <3>2. calls'[i].pc = "read"
      BY <1>0, <3>1, MarkedAt
    <3> QED BY <1>2, <3>2 DEF Changes
  <2>5. CASE \E b : Told(b)
    <3>0. PICK b : Told(b)
      BY <2>5
    <3>1. calls'[i].res.val.ver = visit[v].ver + 1
      BY <1>0, <3>0, AnswerIs DEF Ok
    <3>2. visit'[v].ver = visit[v].ver + 1
      BY <1>0, <2>1, <2>3, <3>0 DEF Write, VisitRow
    <3> QED BY <1>2, <3>1, <3>2
  <2> QED BY <2>2, <2>4, <2>5, <2>6
<1> QED BY <1>1, <1>2

\* The server's answers to the page, and what is lost of them.
LEMMA AgendaServes ==
  ASSUME Types, Types', AgendaInv, UNCHANGED pages, NEW i \in At("agenda", calls),
         Serve(i) \/ Lose(i) \/ LoseAnswer(i)
  PROVE  AgendaInv'
<1> DEFINE s == At("agenda", calls)
<1>0. /\ ag' = ag /\ i \in s /\ i \in DOMAIN calls /\ CallsType /\ IsSeqOf(calls)
      /\ QueriesAgree /\ InOrder("agenda") /\ RowsAreNew
  BY DEF Types, CallsType, pages, At, AgendaInv
<1>1. Handled("agenda", i)
  BY HandledSo
<1>2. /\ At("agenda", calls') = s /\ limits' = limits
      /\ \A j \in s : /\ j # i => calls'[j] = calls[j]
                      /\ calls'[j].kind = calls[j].kind /\ calls'[j].arg = calls[j].arg
                      /\ calls'[j].then = calls[j].then
  BY <1>1 DEF Handled
<1>3. InOrder("agenda")'
  BY <1>0, <1>1, OrderHandled
<1>4. QueriesAgree'
  BY <1>0, <1>2 DEF QueriesAgree, OfQuery, Query, isOpen
<1>5. \A v \in Visit : /\ visit[v].ver \in Nat /\ visit'[v].ver \in Nat /\ ag.acked[v] \in Nat
                       /\ visit[v].ver <= visit'[v].ver /\ ag.acked[v] <= visit[v].ver
                       /\ ag.acked[v] <= visit'[v].ver
  <2> TAKE v \in Visit
  <2>1. visit[v].ver \in Nat /\ visit'[v].ver \in Nat /\ ag.acked[v] \in Nat
    BY DEF Types, TablesType, VisitRow, AgendaType
  <2>2. visit[v].ver <= visit'[v].ver
    <3>1. CASE Effects(i)
      BY <3>1 DEF Effects
    <3>2. CASE UNCHANGED tables
      BY <2>1, <3>2 DEF tables
    <3> QED BY <1>1, <3>1, <3>2 DEF Handled
  <2>3. ag.acked[v] <= visit[v].ver
    BY <1>0 DEF RowsAreNew
  <2> QED BY <2>1, <2>2, <2>3
<1>6. \A j \in s : CallType(calls[j])
  BY <1>0 DEF CallsType, At
<1>7. \A j \in s : Changes(calls[j]) => /\ calls[j].arg.id \in Visit /\ calls[j].res.val.ver \in Nat
                                        /\ calls[j].res.val.ver <= visit[calls[j].arg.id].ver
  BY <1>0, <1>6 DEF RowsAreNew, Changes, CallType, CarriesOf, BringsOf
<1>8. (Serve(i) /\ Served(i)) \/ (~Loads(calls'[i]) /\ ~Changes(calls'[i]))
  BY <1>1 DEF Handled, Loads, Changes
<1>9. s \subseteq Nat /\ \A j \in s : j >= 1 /\ calls[j].from = "agenda"
  <2>1. DOMAIN calls = 1..Len(calls) /\ Len(calls) \in Nat
    BY <1>0, OwnElements DEF IsSeqOf
  <2> QED BY <2>1 DEF At
<1>10. CallType(calls[i]) /\ calls[i].kind \in AgendaKinds /\ (Serve(i) => calls[i].pc # "done")
  <2>1. CallType(calls[i]) /\ calls[i].from = "agenda"
    BY <1>0, <1>6, <1>9
  <2>2. calls[i].kind \in AgendaKinds
    BY <2>1 DEF CallType, KindsOf
  <2> QED BY <2>1, <2>2, HandlerOf DEF AgendaKinds, SettingsKinds
<1>11. ASSUME NEW j \in s, Changes(calls'[j])
       PROVE  calls'[j].res.val.ver <= visit'[calls'[j].arg.id].ver
  <2>1. CASE j = i
    <3>1. /\ calls[i].kind = "status" /\ Changes(calls'[i]) /\ Serve(i) /\ calls[i].arg.id \in Visit
      BY <1>2, <1>8, <1>10, <1>11, <2>1 DEF Changes, CallType, CarriesOf
    <3>2. calls'[i].res.val.ver = visit'[calls[i].arg.id].ver
      BY <1>0, <3>1, ServedRows
    <3>3. visit'[calls[i].arg.id].ver <= visit'[calls[i].arg.id].ver
      BY <1>5, <3>1
    <3> QED BY <1>2, <2>1, <3>2, <3>3
  <2>2. CASE j # i
    <3>1. calls'[j] = calls[j] /\ Changes(calls[j])
      BY <1>2, <1>11, <2>2
    <3> DEFINE x == calls[j].res.val.ver
               y == visit[calls[j].arg.id].ver
               z == visit'[calls[j].arg.id].ver
    <3>2. x \in Nat /\ y \in Nat /\ z \in Nat /\ x <= y /\ y <= z
      BY <1>5, <1>7, <3>1
    <3> HIDE DEF x, y, z
    <3>3. x <= z
      BY <3>2
    <3> QED BY <3>1, <3>3 DEF x, z
  <2> QED BY <2>1, <2>2
<1>12. ASSUME ~limits.reorder, NEW j \in s, Loads(calls'[j])
       PROVE  /\ KnowsAll(calls'[j].res.val.items, ag.acked)
              /\ \A k \in s : k < j /\ Changes(calls'[k])
                   => Knows(calls'[j].res.val.items, calls'[k].arg.id, calls'[k].res.val.ver)
  <2>1. CASE j = i
    <3> DEFINE items == calls'[i].res.val.items
    <3>1. calls[i].kind = "agenda" /\ Serve(i)
      BY <1>2, <1>8, <1>12, <2>1 DEF Loads, Changes
    <3>2. \A n \in DOMAIN items : items[n].id \in Visit /\ items[n].ver = visit[items[n].id].ver
      BY <1>0, <3>1, ServedRows
    <3> HIDE DEF items
    <3>3. KnowsAll(items, ag.acked)
      <4>1. \A n \in DOMAIN items : items[n].ver >= ag.acked[items[n].id]
        BY <1>5, <3>2
      <4> QED BY <4>1 DEF KnowsAll, Knows
    <3>4. ASSUME NEW k \in s, k < j, Changes(calls'[k])
          PROVE  Knows(items, calls'[k].arg.id, calls'[k].res.val.ver)
      <4>1. k # i
        BY <1>9, <2>1, <3>4
      <4>2. calls'[k] = calls[k] /\ Changes(calls[k])
        BY <1>2, <3>4, <4>1
      <4>3. \A n \in DOMAIN items : items[n].id = calls[k].arg.id => items[n].ver >= calls[k].res.val.ver
        BY <1>5, <1>7, <3>2, <4>2
      <4> QED BY <4>2, <4>3 DEF Knows
    <3> QED BY <2>1, <3>3, <3>4 DEF items
  <2>2. CASE j # i
    <3>1. calls'[j] = calls[j] /\ Loads(calls[j])
      BY <1>2, <1>12, <2>2
    <3>2. /\ KnowsAll(calls[j].res.val.items, ag.acked)
          /\ \A k \in s : k < j /\ Changes(calls[k])
               => Knows(calls[j].res.val.items, calls[k].arg.id, calls[k].res.val.ver)
      BY <1>0, <1>12, <3>1 DEF RowsAreNew
    <3>3. Serve(i) => ~(i < j)
      BY <1>0, <1>10, <1>12, <3>1 DEF InOrder, Loads
    <3>4. ASSUME NEW k \in s, k < j, Changes(calls'[k])
          PROVE  Knows(calls[j].res.val.items, calls'[k].arg.id, calls'[k].res.val.ver)
      <4>1. k # i
        BY <1>8, <3>3, <3>4
      <4>2. calls'[k] = calls[k]
        BY <1>2, <4>1
      <4> QED BY <3>2, <3>4, <4>2
    <3> QED BY <3>1, <3>2, <3>4
  <2> QED BY <2>1, <2>2
<1>13. RowsAreNew'
  <2>1. ~limits.reorder /\ s = {} /\ ~ag.error => KnowsAll(ag.items, ag.acked)
    BY <1>0
  <2> HIDE DEF s
  <2> QED BY <1>0, <1>2, <1>5, <1>11, <1>12, <2>1 DEF RowsAreNew, Changes, Loads, KnowsAll, Knows
<1> QED BY <1>3, <1>4, <1>13 DEF AgendaInv

\* The filter and the page of the query are those of the page's state.
LEMMA QueryIs ==
  ASSUME limits' = limits, NEW a, ag'.applied = a.applied, ag'.page = a.page
  PROVE  Query(ag)' = Query(a)
BY DEF Query

\* What is left to show of a step of the page: what it sends, what it shows.
LEMMA AgendaMoved ==
  ASSUME Types, Types', AgendaInv, Untouched,
         NEW gone, NEW new, Follows("agenda", calls, calls', gone, new), \A n \in new : calls'[n].pc = "sent",
         ~ag'.crossed =>
           /\ ~ag.crossed
           /\ Query(ag)' = Query(ag) \/ At("agenda", calls) \ gone = {}
           /\ \A n \in new : OfQuery(calls'[n], Query(ag)')
           /\ isOpen("agenda") /\ At("agenda", calls') = {} /\ ~ag'.error => ag'.of = Query(ag)',
         \A v \in Visit : ag'.acked[v] <= visit[v].ver,
         ~limits.reorder =>
           /\ \A i \in At("agenda", calls) \ gone : Loads(calls[i]) => KnowsAll(calls[i].res.val.items, ag'.acked)
           /\ At("agenda", calls') = {} /\ ~ag'.error => KnowsAll(ag'.items, ag'.acked)
  PROVE  AgendaInv'
<1>1. /\ IsSeqOf(calls) /\ IsSeqOf(calls') /\ CallsType /\ limits' = limits /\ visit' = visit
      /\ QueriesAgree /\ InOrder("agenda") /\ RowsAreNew
  BY DEF Types, CallsType, Untouched, tables, AgendaInv
<1>2. \A v \in Visit : visit[v].ver \in Nat /\ visit[v].ver <= visit[v].ver
  BY DEF Types, TablesType, VisitRow
<1>3. \A v \in Visit : /\ visit[v].ver \in Nat /\ visit'[v].ver \in Nat /\ visit[v].ver <= visit'[v].ver
                       /\ ag'.acked[v] <= visit'[v].ver
  BY <1>1, <1>2
<1>4. InOrder("agenda")'
  BY <1>1, OrderMoved
<1>5. QueriesAgree'
  BY <1>1, QueriesMoved
<1>6. RowsAreNew'
  BY <1>1, <1>3, RowsMoved
<1> QED BY <1>4, <1>5, <1>6 DEF AgendaInv

\* What the page knows while it does not change its list.
SameItems(a) == a.items = ag.items /\ a.of = ag.of /\ a.acked = ag.acked /\ a.crossed = ag.crossed

\* A step that sends nothing and asks for nothing else.
LEMMA AgendaIdles ==
  ASSUME Types, Types', AgendaInv, Untouched, UNCHANGED calls,
         SameItems(ag'), ag'.error = ag.error, Query(ag)' = Query(ag)
  PROVE  AgendaInv'
<1>1. Follows("agenda", calls, calls', {}, {})
  BY FollowsSame
<1>2. (\A v \in Visit : ag.acked[v] <= visit[v].ver) /\ QueriesAgree /\ RowsAreNew
  BY DEF AgendaInv, RowsAreNew
<1>3. ~ag'.crossed =>
        /\ ~ag.crossed
        /\ Query(ag)' = Query(ag) \/ At("agenda", calls) \ {} = {}
        /\ \A n \in {} : OfQuery(calls'[n], Query(ag)')
        /\ isOpen("agenda") /\ At("agenda", calls') = {} /\ ~ag'.error => ag'.of = Query(ag)'
  BY <1>2 DEF SameItems, QueriesAgree
<1>4. ~limits.reorder =>
        /\ \A i \in At("agenda", calls) \ {} : Loads(calls[i]) => KnowsAll(calls[i].res.val.items, ag'.acked)
        /\ At("agenda", calls') = {} /\ ~ag'.error => KnowsAll(ag'.items, ag'.acked)
  BY <1>2 DEF SameItems, RowsAreNew
<1>5. \A v \in Visit : ag'.acked[v] <= visit[v].ver
  BY <1>2 DEF SameItems
<1> QED BY <1>1, <1>3, <1>4, <1>5, AgendaMoved

\* A click that sends a request of the filter shown by then.
LEMMA AgendaSendsOne ==
  ASSUME Types, Types', AgendaInv, Untouched, NEW c, c.from = "agenda", c.pc = "sent", calls' = Append(calls, c),
         ag'.acked = ag.acked,
         ~ag'.crossed => /\ ~ag.crossed /\ OfQuery(c, Query(ag)')
                         /\ Query(ag)' = Query(ag) \/ Quiet("agenda")
  PROVE  AgendaInv'
<1>1. CallsType /\ (\A v \in Visit : ag.acked[v] <= visit[v].ver) /\ RowsAreNew
  BY DEF Types, AgendaInv, RowsAreNew
<1>2. PICK new : Follows("agenda", calls, calls', {}, new) /\ OneNew(new, c)
  BY <1>1, Sent
<1>3. At("agenda", calls') # {} /\ \A n \in new : calls'[n] = c
  BY <1>2 DEF Follows, OneNew
<1>4. Quiet("agenda") => At("agenda", calls) \ {} = {}
  BY DEF Quiet, At
<1>5. ~ag'.crossed =>
        /\ ~ag.crossed
        /\ Query(ag)' = Query(ag) \/ At("agenda", calls) \ {} = {}
        /\ \A n \in new : OfQuery(calls'[n], Query(ag)')
        /\ isOpen("agenda") /\ At("agenda", calls') = {} /\ ~ag'.error => ag'.of = Query(ag)'
  BY <1>3, <1>4
<1>6. ~limits.reorder =>
        /\ \A i \in At("agenda", calls) \ {} : Loads(calls[i]) => KnowsAll(calls[i].res.val.items, ag'.acked)
        /\ At("agenda", calls') = {} /\ ~ag'.error => KnowsAll(ag'.items, ag'.acked)
  BY <1>1, <1>3 DEF RowsAreNew
<1>7. \A v \in Visit : ag'.acked[v] <= visit[v].ver
  BY <1>1
<1>8. \A n \in new : calls'[n].pc = "sent"
  BY <1>3
<1> QED BY <1>2, <1>5, <1>6, <1>7, <1>8, AgendaMoved

\* The effect of a click on the filter or the pager.
LEMMA AgendaEffects ==
  ASSUME Types, Types', AgendaInv, Untouched, NEW a, SameRows(a), SameItems(a), a.error = ag.error,
         AgendaEffect(a)
  PROVE  AgendaInv'
<1>1. limits' = limits
  BY DEF Untouched
<1>2. CASE Query(a) = Query(ag)
  <2>1. ag' = a /\ UNCHANGED calls
    BY <1>2 DEF AgendaEffect
  <2>2. Query(ag)' = Query(ag)
    BY <1>1, <1>2, <2>1, QueryIs
  <2> QED BY <2>1, <2>2, AgendaIdles
<1>3. CASE Query(a) # Query(ag)
  <2> DEFINE c == AgendaCall(Query(a), "effect")
             k == a.crossed \/ ~Quiet("agenda")
  <2>1. ag' = [a EXCEPT !.loading = TRUE, !.error = FALSE, !.crossed = k] /\ calls' = Append(calls, c)
    BY <1>3 DEF AgendaEffect
  <2>2. c.from = "agenda" /\ c.pc = "sent" /\ c.kind = "agenda" /\ c.arg = Query(a)
    BY DEF AgendaCall, Call
  <2>3. ~k => ~ag.crossed /\ Quiet("agenda")
    BY DEF SameItems
  <2> HIDE DEF c, k
  <2>4. ag'.applied = a.applied /\ ag'.page = a.page /\ ag'.acked = a.acked /\ ag'.crossed = k
    BY <2>1 DEF SameRows
  <2>5. Query(ag)' = Query(a)
    BY <1>1, <2>4, QueryIs
  <2>6. OfQuery(c, Query(a))
    BY <2>2 DEF OfQuery
  <2>7. ag'.acked = ag.acked
    BY <2>4 DEF SameItems
  <2>8. ~ag'.crossed => /\ ~ag.crossed /\ OfQuery(c, Query(ag)')
                        /\ Query(ag)' = Query(ag) \/ Quiet("agenda")
    BY <2>3, <2>4, <2>5, <2>6
  <2> QED BY <2>1, <2>2, <2>7, <2>8, AgendaSendsOne
<1> QED BY <1>2, <1>3

\* The clicks on the agenda.
LEMMA AgendaClicked ==
  ASSUME Types, Types', AgendaInv, Untouched, AgendaClick
  PROVE  AgendaInv'
<1>0. AgendaType /\ limits' = limits
  BY DEF Types, Untouched
<1>1. CASE dismissHint \/ \E f \in DOMAIN limits.filters : ChooseFilter(f)
  <2>1. UNCHANGED calls /\ ((\E f : ag' = [ag EXCEPT !.form = f]) \/ ag' = [ag EXCEPT !.hint = Nothing])
    BY <1>1 DEF dismissHint, ChooseFilter
  <2>2. SameItems(ag') /\ ag'.error = ag.error /\ ag'.applied = ag.applied /\ ag'.page = ag.page
    BY <1>0, <2>1 DEF AgendaType, SameItems
  <2>3. Query(ag)' = Query(ag)
    BY <1>0, <2>2, QueryIs
  <2> QED BY <2>1, <2>2, <2>3, AgendaIdles
<1>2. CASE applyFilter
  <2> DEFINE a == [ag EXCEPT !.applied = ag.form, !.page = 1]
  <2>1. AgendaEffect(a)
    BY <1>2 DEF applyFilter
  <2>2. a.form = ag.form /\ a.applied = ag.form /\ SameItems(a) /\ a.error = ag.error
    BY <1>0 DEF AgendaType, SameItems
  <2>3. SameRows(a)
    <3> DEFINE R == [form : {ag.form}, applied : {ag.form}, page : Nat \ {0}, items : {ag.items},
                     of : {ag.of}, total : Nat, loading : BOOLEAN, error : BOOLEAN,
                     updating : Visit \cup {Nothing}, hint : Visit \cup {Nothing},
                     acked : [Visit -> Nat], crossed : BOOLEAN]
    <3>1. a \in R
      <4>1. ASSUME NEW n \in Nat \ {0} PROVE [ag EXCEPT !.applied = ag.form, !.page = n] \in R
        BY <1>0 DEF AgendaType
      <4>2. 1 \in Nat \ {0}
        OBVIOUS
      <4> HIDE DEF R
      <4> QED BY <4>1, <4>2, Zenon
    <3> HIDE DEF a
    <3> QED BY <2>2, <3>1 DEF SameRows
  <2> HIDE DEF a
  <2> QED BY <2>1, <2>2, <2>3, AgendaEffects
<1>3. CASE \E by \in {-1, 1} : TurnPage(by)
  <2>1. PICK by \in {-1, 1} : TurnPage(by)
    BY <1>3
  <2> DEFINE a == [ag EXCEPT !.page = @ + by]
  <2>2. AgendaEffect(a) /\ ag.page + by \in 1..totalPages
    BY <2>1 DEF TurnPage
  <2>3. ag.page + by \in Nat \ {0}
    BY <1>0, <2>1, <2>2 DEF AgendaType
  <2>4. SameRows(a) /\ SameItems(a) /\ a.error = ag.error
    BY <1>0, <2>3 DEF AgendaType, SameRows, SameItems
  <2> HIDE DEF a
  <2> QED BY <2>2, <2>4, AgendaEffects
<1>4. CASE \E n \in DOMAIN ag.items, to \in limits.statuses : updateStatus_Click(ag.items[n], to)
  <2>1. PICK n \in DOMAIN ag.items, to \in limits.statuses : updateStatus_Click(ag.items[n], to)
    BY <1>4
  <2> DEFINE v == ag.items[n].id
             c == Call("agenda", "status", [id |-> v, to |-> to], [query |-> Query(ag), hint |-> ag.hint])
  <2>2. ag' = [ag EXCEPT !.updating = v, !.error = FALSE] /\ calls' = Append(calls, c)
    BY <2>1 DEF updateStatus_Click
  <2>3. c.from = "agenda" /\ c.pc = "sent" /\ c.kind = "status" /\ c.then.query = Query(ag)
    BY DEF Call
  <2> HIDE DEF v, c
  <2>4. ag'.acked = ag.acked /\ ag'.crossed = ag.crossed /\ ag'.applied = ag.applied /\ ag'.page = ag.page
    BY <1>0, <2>2 DEF AgendaType
  <2>5. Query(ag)' = Query(ag)
    BY <1>0, <2>4, QueryIs
  <2>6. OfQuery(c, Query(ag))
    BY <2>3 DEF OfQuery
  <2>7. ~ag'.crossed => /\ ~ag.crossed /\ OfQuery(c, Query(ag)')
                        /\ Query(ag)' = Query(ag) \/ Quiet("agenda")
    BY <2>4, <2>5, <2>6
  <2> QED BY <2>2, <2>3, <2>4, <2>7, AgendaSendsOne
<1> QED BY <1>1, <1>2, <1>3, <1>4 DEF AgendaClick

\* The answers to a change of status and to a load.
LEMMA AgendaAnswered ==
  ASSUME Types, Types', AgendaInv, Untouched, NEW i \in DOMAIN calls, StatusReply(i) \/ AgendaReply(i)
  PROVE  AgendaInv'
<1> DEFINE s == At("agenda", calls)
           c == calls[i]
<1>0. /\ AgendaType /\ CallsType /\ CallType(c) /\ limits' = limits /\ visit \in [Visit -> VisitRow]
      /\ QueriesAgree /\ RowsAreNew /\ \A v \in Visit : ag.acked[v] <= visit[v].ver
  BY DEF Types, TablesType, CallsType, Untouched, AgendaInv, RowsAreNew
<1>1. /\ i \in s /\ c.pc = "done" /\ c.kind \in AgendaKinds
      /\ ~limits.reorder => \A j \in s : i <= j
  BY <1>0, FirstTaken DEF StatusReply, AgendaReply, AgendaKinds
<1>2. s \subseteq Nat
  BY <1>0, OwnElements DEF CallsType, IsSeqOf, At
<1>3. ~ag.crossed => OfQuery(c, Query(ag))
  BY <1>0, <1>1 DEF QueriesAgree
<1>4. ~limits.reorder => \A j \in s : Loads(calls[j]) =>
        /\ KnowsAll(calls[j].res.val.items, ag.acked)
        /\ Changes(c) /\ j # i => Knows(calls[j].res.val.items, c.arg.id, c.res.val.ver)
  <2> SUFFICES ASSUME ~limits.reorder, NEW j \in s, Loads(calls[j])
               PROVE  /\ KnowsAll(calls[j].res.val.items, ag.acked)
                      /\ Changes(c) /\ j # i => Knows(calls[j].res.val.items, c.arg.id, c.res.val.ver)
    OBVIOUS
  <2>1. j # i => i < j
    BY <1>1, <1>2
  <2> QED BY <1>0, <1>1, <2>1 DEF RowsAreNew
<1>5. ASSUME AgendaReply(i) PROVE AgendaInv'
  <2> DEFINE d == IF c.then = "effect" THEN [ag EXCEPT !.loading = FALSE] ELSE [ag EXCEPT !.updating = Nothing]
  <2>1. /\ calls' = Others(i) /\ c.kind = "agenda"
        /\ ag' = IF c.res.ok
                 THEN [d EXCEPT !.items = c.res.val.items, !.total = c.res.val.total, !.of = c.arg]
                 ELSE [d EXCEPT !.error = TRUE]
    BY <1>5 DEF AgendaReply, Answers
  <2>2. SameRows(d) /\ SameItems(d) /\ d.error = ag.error /\ d.applied = ag.applied /\ d.page = ag.page
    BY <1>0 DEF AgendaType, SameRows, SameItems
  <2> HIDE DEF d
  <2>3. /\ ag'.applied = d.applied /\ ag'.page = d.page /\ ag'.acked = d.acked /\ ag'.crossed = d.crossed
        /\ c.res.ok => ag'.items = c.res.val.items /\ ag'.of = c.arg
        /\ ~c.res.ok => ag'.error
    BY <2>1, <2>2 DEF SameRows
  <2>4. Query(ag)' = Query(ag)
    BY <1>0, <2>2, <2>3, QueryIs
  <2>5. ag'.acked = ag.acked /\ ag'.crossed = ag.crossed
    BY <2>2, <2>3 DEF SameItems
  <2>6. Follows("agenda", calls, calls', {i}, {})
    BY <1>0, <2>1, OwnTake
  <2>7. ~ag'.crossed =>
          /\ ~ag.crossed
          /\ Query(ag)' = Query(ag) \/ s \ {i} = {}
          /\ \A n \in {} : OfQuery(calls'[n], Query(ag)')
          /\ isOpen("agenda") /\ At("agenda", calls') = {} /\ ~ag'.error => ag'.of = Query(ag)'
    BY <1>3, <2>1, <2>3, <2>4, <2>5 DEF OfQuery
  <2>8. ~limits.reorder =>
          /\ \A j \in s \ {i} : Loads(calls[j]) => KnowsAll(calls[j].res.val.items, ag'.acked)
          /\ At("agenda", calls') = {} /\ ~ag'.error => KnowsAll(ag'.items, ag'.acked)
    BY <1>1, <1>4, <2>1, <2>3, <2>5 DEF Loads
  <2>9. \A v \in Visit : ag'.acked[v] <= visit[v].ver
    BY <1>0, <2>5
  <2> QED BY <2>6, <2>7, <2>8, <2>9, AgendaMoved
<1>6. ASSUME StatusReply(i), ~c.res.ok PROVE AgendaInv'
  <2>1. calls' = Others(i) /\ ag' = [ag EXCEPT !.error = TRUE, !.updating = Nothing]
    BY <1>6 DEF StatusReply
  <2>2. SameItems(ag') /\ ag'.error /\ ag'.applied = ag.applied /\ ag'.page = ag.page
    BY <1>0, <2>1 DEF AgendaType, SameItems
  <2>3. Query(ag)' = Query(ag)
    BY <1>0, <2>2, QueryIs
  <2>4. Follows("agenda", calls, calls', {i}, {})
    BY <1>0, <2>1, OwnTake
  <2>5. ~ag'.crossed =>
          /\ ~ag.crossed
          /\ Query(ag)' = Query(ag) \/ s \ {i} = {}
          /\ \A n \in {} : OfQuery(calls'[n], Query(ag)')
          /\ isOpen("agenda") /\ At("agenda", calls') = {} /\ ~ag'.error => ag'.of = Query(ag)'
    BY <2>2, <2>3 DEF SameItems
  <2>6. ~limits.reorder =>
          /\ \A j \in s \ {i} : Loads(calls[j]) => KnowsAll(calls[j].res.val.items, ag'.acked)
          /\ At("agenda", calls') = {} /\ ~ag'.error => KnowsAll(ag'.items, ag'.acked)
    BY <1>4, <2>2 DEF SameItems
  <2>7. \A v \in Visit : ag'.acked[v] <= visit[v].ver
    BY <1>0, <2>2 DEF SameItems
  <2> QED BY <2>4, <2>5, <2>6, <2>7, AgendaMoved
<1>7. ASSUME StatusReply(i), c.res.ok PROVE AgendaInv'
  <2> DEFINE h == hintAfter(c)
             v == c.arg.id
             m == c.res.val.ver
             k == Acked(v, m)
             d == AgendaCall(c.then.query, "update")
  <2>1. ag' = [ag EXCEPT !.hint = h, !.error = FALSE, !.acked = k] /\ calls' = Append(Others(i), d)
    BY <1>7 DEF StatusReply
  <2>2. c.kind = "status" /\ Changes(c)
    BY <1>1, <1>7 DEF StatusReply, Answers, Changes
  <2>3. v \in Visit /\ m \in Nat /\ m <= visit[v].ver
    BY <1>0, <1>1, <1>7, <2>2 DEF CallType, CarriesOf, BringsOf, RowsAreNew
  <2>4. d.from = "agenda" /\ d.pc = "sent" /\ d.kind = "agenda" /\ d.arg = c.then.query
    BY DEF AgendaCall, Call
  <2>5. /\ ag.acked \in [Visit -> Nat] /\ k \in [Visit -> Nat] /\ \A u \in Visit : u # v => k[u] = ag.acked[u]
        /\ k[v] \in {ag.acked[v], m}
    <3> DEFINE x == Max({ag.acked[v], m})
    <3>1. ag.acked \in [Visit -> Nat]
      BY <1>0 DEF AgendaType
    <3>2. ag.acked[v] \in Nat
      BY <2>3, <3>1
    <3>3. ag.acked[v] \in Int /\ m \in Int
      BY <2>3, <3>2
    <3>4. x \in {ag.acked[v], m}
      BY <3>3, MaxOfTwo, Zenon
    <3>5. k = [ag.acked EXCEPT ![v] = x]
      BY DEF Acked
    <3> HIDE DEF x, k
    <3>6. x \in Nat
      BY <2>3, <3>2, <3>4
    <3> QED BY <2>3, <3>1, <3>4, <3>5, <3>6
  <2> HIDE DEF h, k, d
  <2>6. PICK new : Follows("agenda", calls, calls', {i}, new) /\ OneNew(new, d)
    BY <1>0, <2>1, <2>4, SentFor
  <2>7. At("agenda", calls') # {} /\ \A n \in new : calls'[n] = d
    BY <2>6 DEF Follows, OneNew
  <2>8. ag'.acked = k /\ ag'.crossed = ag.crossed /\ ag'.applied = ag.applied /\ ag'.page = ag.page
    BY <1>0, <2>1 DEF AgendaType
  <2>9. Query(ag)' = Query(ag)
    BY <1>0, <2>8, QueryIs
  <2>10. ~ag'.crossed =>
          /\ ~ag.crossed
          /\ Query(ag)' = Query(ag) \/ s \ {i} = {}
          /\ \A n \in new : OfQuery(calls'[n], Query(ag)')
          /\ isOpen("agenda") /\ At("agenda", calls') = {} /\ ~ag'.error => ag'.of = Query(ag)'
    BY <1>3, <2>2, <2>4, <2>7, <2>8, <2>9 DEF OfQuery
  <2>11. ASSUME NEW items, KnowsAll(items, ag.acked), Knows(items, v, m) PROVE KnowsAll(items, k)
    <3> SUFFICES ASSUME NEW u \in Visit, NEW n \in DOMAIN items, items[n].id = u PROVE items[n].ver >= k[u]
      BY DEF KnowsAll, Knows
    <3>1. items[n].ver >= ag.acked[u] /\ (u = v => items[n].ver >= m)
      BY <2>11 DEF KnowsAll, Knows
    <3> QED BY <2>5, <3>1
  <2>12. ~limits.reorder => \A j \in s \ {i} : Loads(calls[j]) => KnowsAll(calls[j].res.val.items, k)
    BY <1>4, <2>2, <2>11
  <2>13. ~limits.reorder =>
          /\ \A j \in s \ {i} : Loads(calls[j]) => KnowsAll(calls[j].res.val.items, ag'.acked)
          /\ At("agenda", calls') = {} /\ ~ag'.error => KnowsAll(ag'.items, ag'.acked)
    BY <2>7, <2>8, <2>12
  <2>14. \A u \in Visit : ag'.acked[u] <= visit[u].ver
    BY <1>0, <2>3, <2>5, <2>8
  <2>15. \A n \in new : calls'[n].pc = "sent"
    BY <2>4, <2>7
  <2> HIDE DEF s, c
  <2> QED BY <2>6, <2>10, <2>13, <2>14, <2>15, AgendaMoved DEF s
<1> QED BY <1>5, <1>6, <1>7

\* The page's own steps.
LEMMA AgendaActs ==
  ASSUME Types, Types', AgendaInv, Untouched, PageSteps("agenda")
  PROVE  AgendaInv'
BY AgendaClicked, AgendaAnswered DEF PageSteps

\* The page's invariant holds at the start
LEMMA AgendaStarts ==
  ASSUME Init
  PROVE  AgendaInv
<1>1. /\ \A i \in DOMAIN calls : StartCall(calls[i])
      /\ isOpen("agenda") => \E i \in DOMAIN calls : calls[i].from = "agenda"
  BY StartCalls DEF Starts, PageNames
<1>2. /\ ag.applied = 1 /\ ag.page = 1 /\ ag.items = <<>> /\ ag.acked = [v \in Visit |-> 0]
      /\ visit = limits.visits /\ limits \in Limits
  BY DEF Init, AgendaInit
<1>3. Query(ag) = [q |-> limits.filters[1], page |-> 1]
  BY <1>2 DEF Query
<1>4. \A i \in At("agenda", calls) : OfQuery(calls[i], Query(ag)) /\ calls[i].pc = "sent"
  BY <1>1, <1>3 DEF At, StartCall, OfQuery
<1>5. QueriesAgree /\ InOrder("agenda")
  BY <1>1, <1>4 DEF QueriesAgree, InOrder, At
<1>6. \A v \in Visit : ag.acked[v] <= visit[v].ver
  <2>1. \A v \in Visit : visit[v].ver \in Nat
    BY <1>2, LimitsAssumption DEF VisitRow
  <2> QED BY <1>2, <2>1
<1>7. KnowsAll(ag.items, ag.acked)
  BY <1>2 DEF KnowsAll, Knows
<1>8. RowsAreNew
  BY <1>4, <1>6, <1>7 DEF RowsAreNew, Changes, Loads
<1> QED BY <1>5, <1>8 DEF AgendaInv

\* and is kept by every step.
LEMMA AgendaStay ==
  ASSUME Types, Types', AgendaInv, [Next]_vars
  PROVE  AgendaInv'
<1>1. "agenda" \in PageNames
  BY DEF PageNames
<1> QED BY <1>1, Frame, AgendaFrame, AgendaServes, AgendaActs

--------------------------------------------------------------------------------
(* What the pages show at rest.                                            *)

PagesInv == AgendaInv /\ ReviewInv /\ ClientsInv /\ SettingsInv

\* A page at rest has no request anywhere.
LEMMA AtRestNone ==
  ASSUME NEW page, Quiet(page)
  PROVE  At(page, calls) = {}
BY DEF Quiet, At

\* The pages' invariants hold throughout.
LEMMA PagesKept == Spec => [](Types /\ PagesInv)
<1>1. Init => Types /\ PagesInv
  BY TypesInit, AgendaStarts, ReviewsStart, ClientsStarts, SettingsStarts DEF PagesInv
<1>2. Types /\ PagesInv /\ [Next]_vars => (Types /\ PagesInv)'
  <2> SUFFICES ASSUME Types, PagesInv, [Next]_vars PROVE Types' /\ PagesInv'
    OBVIOUS
  <2>1. Types'
    BY TypesStay
  <2> QED BY <2>1, AgendaStay, ReviewsStay, ClientsStay, SettingsStay DEF PagesInv
<1> QED BY <1>1, <1>2, PTL DEF Spec

\* A list at rest is that of the filters above it, for the agenda (appointments/page.tsx:256-325)
\* and for the clients (clients/page.tsx:97-124), however fast they are changed.
THEOREM ListsFollowFilters == Spec => []ListsAreOfFilters
<1>1. Types /\ PagesInv => ListsAreOfFilters
  <2> SUFFICES ASSUME PagesInv PROVE ListsAreOfFilters
    OBVIOUS
  <2>1. isOpen("agenda") /\ Quiet("agenda") /\ ~ag.error /\ ~ag.crossed => ag.of = Query(ag)
    BY AtRestNone DEF PagesInv, AgendaInv, QueriesAgree
  <2>2. isOpen("clients") /\ Quiet("clients") /\ ~cp.failed /\ ~limits.reorder => cp.of = ListQuery(cp)
    BY AtRestNone DEF PagesInv, ClientsInv, LastIsAsked
  <2> QED BY <2>1, <2>2 DEF ListsAreOfFilters
<1> QED BY <1>1, PagesKept, PTL

\* What a page shows at rest is what is stored: the agenda's own changes of status, a review's
\* publication, a client's consent, a form that was not touched (appointments/page.tsx:300-325,
\* reviews/page.tsx:33-52, clients/page.tsx:165-220, settings/page.tsx:57-163).
THEOREM RestShowsTheStored == Spec => []ShownIsStored
<1>1. Types /\ PagesInv => ShownIsStored
  <2> SUFFICES ASSUME Types, PagesInv PROVE ShownIsStored
    OBVIOUS
  <2>1. ASSUME Quiet("agenda"), ~ag.error, ~limits.reorder, NEW n \in DOMAIN ag.items
        PROVE  ag.items[n].ver >= ag.acked[ag.items[n].id]
    <3>1. KnowsAll(ag.items, ag.acked)
      BY <2>1, AtRestNone DEF PagesInv, AgendaInv, RowsAreNew
    <3>2. ag.items[n].id \in Visit
      BY DEF Types, AgendaType
    <3> QED BY <3>1, <3>2 DEF KnowsAll, Knows
  <2>2. ASSUME Quiet("reviews"), ~rv.doubled, faults = 0, NEW v \in DOMAIN rv.list
        PROVE  rv.list[v] = visit[v].review
    BY <2>2, AtRestNone DEF PagesInv, ReviewInv, PublishedAsShown
  <2>3. ASSUME cardShown, Quiet("clients"), faults = 0, ~limits.reorder, ~cp.mixed, ~cp.overlapped
        PROVE  cp.detail.consent = card[cp.selected].consent
    BY <2>3, AtRestNone DEF PagesInv, ClientsInv, ConsentKnown, Calm, ShownKnown
  <2>4. ASSUME formShown, Quiet("settings"), faults = 0, ~limits.reorder, NEW f \in Forms \ sp.typed
        PROVE  sp.form[f] = tenant[f]
    <3>1. At("settings", calls) = {}
      BY <2>4, AtRestNone
    <3>2. sp.form # Nothing
      BY <2>4 DEF formShown
    <3> QED BY <2>4, <3>1, <3>2 DEF PagesInv, SettingsInv, FormsKnown, FormKnown
  <2> QED BY <2>1, <2>2, <2>3, <2>4 DEF ShownIsStored
<1> QED BY <1>1, PagesKept, PTL
--------------------------------------------------------------------------------
(* Sums over finite sets.                                                 *)

\* The element that a sum over s takes first, and the sum over a set: g is the function
\* by which MapThenSumSet adds up f over the subsets of S.
Picked(s) == CHOOSE x \in s : TRUE
Sums(g, f, S) ==
  g = [s \in SUBSET S |-> IF s = {} THEN 0 ELSE f[Picked(s)] + g[s \ {Picked(s)}]]
SumOf(f, S) == (CHOOSE g : Sums(g, f, S))[S]

\* Induction over the subsets of a finite set, for a set of them.
LEMMA SubsetsAll ==
  ASSUME NEW S, IsFiniteSet(S), NEW Good,
         \A s \in SUBSET S : (\A x \in s : s \ {x} \in Good) => s \in Good
  PROVE  \A s \in SUBSET S : s \in Good
<1> DEFINE Bad == (SUBSET S) \ Good
<1> SUFFICES ASSUME Bad # {} PROVE FALSE
  OBVIOUS
<1>1. IsWellFoundedOn(StrictSubsetOrdering(S), SUBSET S)
  <2>1. FiniteSubsetsOf(S) = SUBSET S
    BY FS_FiniteSubsetsOfFinite
  <2>2. IsWellFoundedOn(StrictSubsetOrdering(S), FiniteSubsetsOf(S))
    BY FS_StrictSubsetOrderingWellFounded
  <2> QED BY <2>1, <2>2
<1>2. PICK s \in Bad : \A t \in Bad : <<t, s>> \notin StrictSubsetOrdering(S)
  <2>1. Bad \subseteq SUBSET S
    OBVIOUS
  <2> HIDE DEF Bad
  <2> QED BY <1>1, <2>1, WFMin
<1>3. ASSUME NEW x \in s PROVE s \ {x} \in Good
  <2>1. <<s \ {x}, s>> \in StrictSubsetOrdering(S)
    BY <1>2 DEF StrictSubsetOrdering
  <2> QED BY <1>2, <2>1
<1> QED BY <1>2, <1>3

\* What is picked is in the set.
LEMMA PickedIn ==
  ASSUME NEW s, s # {}
  PROVE  Picked(s) \in s
BY DEF Picked

\* What the sum of a subset is.
LEMMA SumsAt ==
  ASSUME NEW g, NEW f, NEW S, Sums(g, f, S), NEW s \in SUBSET S
  PROVE  g[s] = IF s = {} THEN 0 ELSE f[Picked(s)] + g[s \ {Picked(s)}]
BY DEF Sums

\* There is one sum only.
LEMMA SumsAgree ==
  ASSUME NEW S, IsFiniteSet(S), NEW f, NEW g, NEW T, Sums(g, f, T), S \subseteq T,
         NEW e, NEW h, NEW U, Sums(h, e, U), S \subseteq U, \A x \in S : f[x] = e[x]
  PROVE  g[S] = h[S]
<1> DEFINE Good == {s \in SUBSET S : g[s] = h[s]}
<1>1. ASSUME NEW s \in SUBSET S, \A x \in s : s \ {x} \in Good PROVE s \in Good
  <2>1. /\ g[s] = IF s = {} THEN 0 ELSE f[Picked(s)] + g[s \ {Picked(s)}]
        /\ h[s] = IF s = {} THEN 0 ELSE e[Picked(s)] + h[s \ {Picked(s)}]
    <3>1. s \in SUBSET T /\ s \in SUBSET U
      OBVIOUS
    <3>2. g[s] = IF s = {} THEN 0 ELSE f[Picked(s)] + g[s \ {Picked(s)}]
      BY <3>1, SumsAt
    <3>3. h[s] = IF s = {} THEN 0 ELSE e[Picked(s)] + h[s \ {Picked(s)}]
      BY <3>1, SumsAt
    <3> QED BY <3>2, <3>3
  <2>2. s # {} => f[Picked(s)] = e[Picked(s)] /\ g[s \ {Picked(s)}] = h[s \ {Picked(s)}]
    <3> SUFFICES ASSUME s # {} PROVE f[Picked(s)] = e[Picked(s)] /\ s \ {Picked(s)} \in Good
      OBVIOUS
    <3>1. Picked(s) \in s /\ Picked(s) \in S
      BY PickedIn
    <3> HIDE DEF Good
    <3> QED BY <1>1, <3>1, Zenon
  <2> QED BY <2>1, <2>2
<1>2. \A s \in SUBSET S : s \in Good
  <2> HIDE DEF Good
  <2> QED BY <1>1, SubsetsAll, Zenon
<1>3. S \in SUBSET S
  OBVIOUS
<1> QED BY <1>2, <1>3

\* The sums over a set are those over its subsets.
LEMMA SumsBelow ==
  ASSUME NEW g, NEW f, NEW S, Sums(g, f, S), NEW U \in SUBSET S
  PROVE  Sums([s \in SUBSET U |-> g[s]], f, U)
<1> DEFINE h == [s \in SUBSET U |-> g[s]]
<1>1. ASSUME NEW s \in SUBSET U
      PROVE  h[s] = IF s = {} THEN 0 ELSE f[Picked(s)] + h[s \ {Picked(s)}]
  <2>1. g[s] = IF s = {} THEN 0 ELSE f[Picked(s)] + g[s \ {Picked(s)}]
    BY SumsAt
  <2>2. h[s] = g[s] /\ h[s \ {Picked(s)}] = g[s \ {Picked(s)}]
    OBVIOUS
  <2> QED BY <2>1, <2>2
<1>2. h = [s \in SUBSET U |-> h[s]]
  OBVIOUS
<1> HIDE DEF h
<1>3. h = [s \in SUBSET U |-> IF s = {} THEN 0 ELSE f[Picked(s)] + h[s \ {Picked(s)}]]
  BY <1>1, <1>2
<1> QED BY <1>3 DEF Sums, h

\* A finite set has sums.
LEMMA SumsExist ==
  ASSUME NEW S, IsFiniteSet(S), NEW f
  PROVE  Sums(CHOOSE g : Sums(g, f, S), f, S)
<1> DEFINE Good == {s \in SUBSET S : \E g : Sums(g, f, s)}
<1>1. ASSUME NEW s \in SUBSET S, \A x \in s : s \ {x} \in Good PROVE s \in Good
  <2> DEFINE h == [t \in SUBSET s |-> IF t = {} THEN 0 ELSE f[Picked(t)] + SumOf(f, t \ {Picked(t)})]
  <2>1. ASSUME NEW u \in SUBSET s, u # s PROVE Sums(CHOOSE g : Sums(g, f, u), f, u)
    <3>1. PICK x \in s : u \subseteq s \ {x}
      BY <2>1
    <3>2. PICK g : Sums(g, f, s \ {x})
      BY <1>1
    <3>3. \E k : Sums(k, f, u)
      BY <3>1, <3>2, SumsBelow
    <3> QED BY <3>3, Zenon
  <2>2. ASSUME NEW u \in SUBSET s, u # s PROVE h[u] = SumOf(f, u)
    <3> DEFINE g == CHOOSE g : Sums(g, f, u)
               w == u \ {Picked(u)}
               k == CHOOSE k : Sums(k, f, w)
    <3>1. Sums(g, f, u)
      BY <2>2, <2>1
    <3>2. g[u] = IF u = {} THEN 0 ELSE f[Picked(u)] + g[w]
      <4> HIDE DEF g
      <4> QED BY <3>1, SumsAt
    <3>3. CASE u = {}
      BY <3>2, <3>3 DEF SumOf
    <3>4. CASE u # {}
      <4>1. w \in SUBSET s /\ w # s /\ w \subseteq u /\ w \subseteq w
        BY <2>2
      <4>2. Sums(k, f, w)
        BY <2>1, <4>1
      <4>3. IsFiniteSet(w)
        BY <4>1, FS_Subset
      <4>4. g[w] = k[w]
        <5> HIDE DEF g, k, w
        <5> QED BY <3>1, <4>1, <4>2, <4>3, SumsAgree
      <4>5. k[w] = SumOf(f, w) /\ g[u] = SumOf(f, u)
        BY DEF SumOf
      <4>6. h[u] = f[Picked(u)] + SumOf(f, w)
        BY <3>4
      <4> HIDE DEF g, k, w, h
      <4> QED BY <3>2, <3>4, <4>4, <4>5, <4>6
    <3> QED BY <3>3, <3>4
  <2>3. ASSUME NEW t \in SUBSET s
        PROVE  h[t] = IF t = {} THEN 0 ELSE f[Picked(t)] + h[t \ {Picked(t)}]
    <3>1. t # {} => t \ {Picked(t)} \in SUBSET s /\ t \ {Picked(t)} # s
      BY PickedIn
    <3>2. h[t] = IF t = {} THEN 0 ELSE f[Picked(t)] + SumOf(f, t \ {Picked(t)})
      OBVIOUS
    <3> HIDE DEF h
    <3> QED BY <2>2, <3>1, <3>2
  <2>4. h = [t \in SUBSET s |-> h[t]]
    OBVIOUS
  <2> HIDE DEF h
  <2>5. Sums(h, f, s)
    BY <2>3, <2>4 DEF Sums
  <2> QED BY <2>5
<1>2. \A s \in SUBSET S : s \in Good
  <2> HIDE DEF Good
  <2> QED BY <1>1, SubsetsAll, Zenon
<1>3. S \in SUBSET S
  OBVIOUS
<1>4. \E g : Sums(g, f, S)
  BY <1>2, <1>3, Zenon
<1> QED BY <1>4, Zenon

\* Sums depend on what is added up.
LEMMA SumSame ==
  ASSUME NEW S, IsFiniteSet(S), NEW f, NEW e, \A x \in S : f[x] = e[x]
  PROVE  SumOf(f, S) = SumOf(e, S)
<1> DEFINE g == CHOOSE g : Sums(g, f, S)
           h == CHOOSE h : Sums(h, e, S)
<1>1. Sums(g, f, S) /\ Sums(h, e, S)
  BY SumsExist, Zenon
<1>2. g[S] = h[S]
  <2> HIDE DEF g, h
  <2> QED BY <1>1, SumsAgree
<1> QED BY <1>2 DEF SumOf

\* The first element, and the rest.
LEMMA SumFirst ==
  ASSUME NEW S, IsFiniteSet(S), NEW f
  PROVE  SumOf(f, S) = IF S = {} THEN 0 ELSE f[Picked(S)] + SumOf(f, S \ {Picked(S)})
<1> DEFINE R == S \ {Picked(S)}
           g == CHOOSE g : Sums(g, f, S)
           h == CHOOSE h : Sums(h, f, R)
<1>1. IsFiniteSet(R) /\ R \subseteq S /\ R \subseteq R
  BY FS_Subset
<1>2. Sums(g, f, S) /\ Sums(h, f, R)
  <2> HIDE DEF R
  <2> QED BY <1>1, SumsExist, Zenon
<1>3. g[S] = IF S = {} THEN 0 ELSE f[Picked(S)] + g[R]
  <2> HIDE DEF g
  <2> QED BY <1>2, SumsAt
<1>4. g[R] = h[R]
  <2> HIDE DEF g, h, R
  <2> QED BY <1>1, <1>2, SumsAgree
<1> QED BY <1>3, <1>4 DEF SumOf

\* Sums of what is natural are natural.
LEMMA SumNat ==
  ASSUME NEW S, IsFiniteSet(S), NEW f, \A x \in S : f[x] \in Nat
  PROVE  SumOf(f, S) \in Nat
<1> DEFINE Good == {s \in SUBSET S : SumOf(f, s) \in Nat}
<1>1. ASSUME NEW s \in SUBSET S, \A x \in s : s \ {x} \in Good PROVE s \in Good
  <2>1. SumOf(f, s) = IF s = {} THEN 0 ELSE f[Picked(s)] + SumOf(f, s \ {Picked(s)})
    <3>1. IsFiniteSet(s)
      BY FS_Subset
    <3> QED BY <3>1, SumFirst
  <2>2. s # {} => f[Picked(s)] \in Nat /\ SumOf(f, s \ {Picked(s)}) \in Nat
    BY <1>1, PickedIn
  <2> QED BY <2>1, <2>2
<1>2. \A s \in SUBSET S : s \in Good
  <2> HIDE DEF Good
  <2> QED BY <1>1, SubsetsAll, Zenon
<1>3. S \in SUBSET S
  OBVIOUS
<1> QED BY <1>2, <1>3

\* Any element may be taken first.
LEMMA SumWithout ==
  ASSUME NEW S, IsFiniteSet(S), NEW f, \A x \in S : f[x] \in Nat, NEW a \in S
  PROVE  SumOf(f, S) = f[a] + SumOf(f, S \ {a})
<1> DEFINE Good == {s \in SUBSET S : \A x \in s : SumOf(f, s) = f[x] + SumOf(f, s \ {x})}
<1>0. \A s \in SUBSET S : IsFiniteSet(s) /\ SumOf(f, s) \in Nat
  <2> TAKE s \in SUBSET S
  <2>1. IsFiniteSet(s)
    BY FS_Subset
  <2> QED BY <2>1, SumNat
<1>1. ASSUME NEW s \in SUBSET S, \A x \in s : s \ {x} \in Good PROVE s \in Good
  <2> SUFFICES ASSUME NEW x \in s PROVE SumOf(f, s) = f[x] + SumOf(f, s \ {x})
    OBVIOUS
  <2> DEFINE y == Picked(s)
  <2>1. y \in s
    BY PickedIn
  <2>2. SumOf(f, s) = f[y] + SumOf(f, s \ {y})
    <3>1. SumOf(f, s) = IF s = {} THEN 0 ELSE f[Picked(s)] + SumOf(f, s \ {Picked(s)})
      BY <1>0, SumFirst
    <3> QED BY <3>1
  <2> HIDE DEF y
  <2>3. CASE x = y
    BY <2>2, <2>3
  <2>4. CASE x # y
    <3> DEFINE r == (s \ {y}) \ {x}
               q == SumOf(f, r)
    <3>1. SumOf(f, s \ {y}) = f[x] + q
      <4>1. s \ {y} \in Good /\ x \in s \ {y}
        BY <1>1, <2>1, <2>4
      <4> QED BY <4>1
    <3>2. SumOf(f, s \ {x}) = f[y] + q
      <4>1. s \ {x} \in Good /\ y \in s \ {x} /\ (s \ {x}) \ {y} = r
        BY <1>1, <2>1, <2>4
      <4> QED BY <4>1
    <3>3. q \in Nat /\ f[x] \in Nat /\ f[y] \in Nat
      BY <1>0, <2>1
    <3> HIDE DEF q
    <3> QED BY <2>2, <3>1, <3>2, <3>3
  <2> QED BY <2>3, <2>4
<1>2. \A s \in SUBSET S : s \in Good
  <2> HIDE DEF Good
  <2> QED BY <1>1, SubsetsAll, Zenon
<1>3. S \in SUBSET S
  OBVIOUS
<1> QED BY <1>2, <1>3

\* A larger set has no smaller sum.
LEMMA SumGrows ==
  ASSUME NEW S, IsFiniteSet(S), NEW f, \A x \in S : f[x] \in Nat, NEW U \in SUBSET S
  PROVE  SumOf(f, U) <= SumOf(f, S)
<1> DEFINE Good == {s \in SUBSET S : U \subseteq s => SumOf(f, U) <= SumOf(f, s)}
<1>0. \A s \in SUBSET S : IsFiniteSet(s) /\ SumOf(f, s) \in Nat
  <2> TAKE s \in SUBSET S
  <2>1. IsFiniteSet(s)
    BY FS_Subset
  <2> QED BY <2>1, SumNat
<1>1. ASSUME NEW s \in SUBSET S, \A x \in s : s \ {x} \in Good PROVE s \in Good
  <2> SUFFICES ASSUME U \subseteq s PROVE SumOf(f, U) <= SumOf(f, s)
    OBVIOUS
  <2>1. CASE U = s
    BY <1>0, <2>1
  <2>2. CASE U # s
    <3>1. PICK x \in s : x \notin U
      BY <2>2
    <3>2. SumOf(f, U) <= SumOf(f, s \ {x})
      <4>1. s \ {x} \in Good /\ U \subseteq s \ {x}
        BY <1>1, <3>1
      <4> QED BY <4>1
    <3>3. SumOf(f, s) = f[x] + SumOf(f, s \ {x})
      BY <1>0, SumWithout
    <3>4. SumOf(f, U) \in Nat /\ SumOf(f, s \ {x}) \in Nat /\ f[x] \in Nat
      BY <1>0
    <3> QED BY <3>2, <3>3, <3>4
  <2> QED BY <2>1, <2>2
<1>2. \A s \in SUBSET S : s \in Good
  <2> HIDE DEF Good
  <2> QED BY <1>1, SubsetsAll, Zenon
<1>3. S \in SUBSET S
  OBVIOUS
<1> QED BY <1>2, <1>3

\* Nothing adds up to nothing.
LEMMA SumZero ==
  ASSUME NEW S, IsFiniteSet(S), NEW f, \A x \in S : f[x] = 0
  PROVE  SumOf(f, S) = 0
<1> DEFINE Good == {s \in SUBSET S : SumOf(f, s) = 0}
<1>1. ASSUME NEW s \in SUBSET S, \A x \in s : s \ {x} \in Good PROVE s \in Good
  <2>1. SumOf(f, s) = IF s = {} THEN 0 ELSE f[Picked(s)] + SumOf(f, s \ {Picked(s)})
    <3>1. IsFiniteSet(s)
      BY FS_Subset
    <3> QED BY <3>1, SumFirst
  <2>2. s # {} => f[Picked(s)] = 0 /\ SumOf(f, s \ {Picked(s)}) = 0
    BY <1>1, PickedIn
  <2> QED BY <2>1, <2>2
<1>2. \A s \in SUBSET S : s \in Good
  <2> HIDE DEF Good
  <2> QED BY <1>1, SubsetsAll, Zenon
<1>3. S \in SUBSET S
  OBVIOUS
<1> QED BY <1>2, <1>3

\* The elements of one class, and the sum of each class.
Class(S, k, p) == {x \in S : k[x] = p}
ByClass(f, S, k, P) == [p \in P |-> SumOf(f, Class(S, k, p))]

\* The classes add up to the whole.
LEMMA SumOfClasses ==
  ASSUME NEW S, IsFiniteSet(S), NEW f, \A x \in S : f[x] \in Nat,
         NEW P, IsFiniteSet(P), NEW k, \A x \in S : k[x] \in P
  PROVE  SumOf(ByClass(f, S, k, P), P) = SumOf(f, S)
<1> DEFINE Good == {s \in SUBSET S : SumOf(ByClass(f, s, k, P), P) = SumOf(f, s)}
<1>0. \A s \in SUBSET S : IsFiniteSet(s) /\ SumOf(f, s) \in Nat
  <2> TAKE s \in SUBSET S
  <2>1. IsFiniteSet(s)
    BY FS_Subset
  <2> QED BY <2>1, SumNat
<1>1. ASSUME NEW s \in SUBSET S, \A x \in s : s \ {x} \in Good PROVE s \in Good
  <2> DEFINE c == ByClass(f, s, k, P)
  <2>0. \A p \in P : c[p] = SumOf(f, Class(s, k, p))
    BY DEF ByClass
  <2>1. CASE s = {}
    <3>1. SumOf(f, {}) = 0
      BY FS_EmptySet, SumFirst
    <3>2. \A p \in P : c[p] = 0
      BY <2>0, <2>1, <3>1 DEF Class
    <3> HIDE DEF c
    <3>3. SumOf(c, P) = 0
      BY <3>2, SumZero
    <3> QED BY <2>1, <3>1, <3>3 DEF c
  <2>2. CASE s # {}
    <3>1. PICK x \in s : TRUE
      BY <2>2
    <3> DEFINE r == s \ {x}
               d == ByClass(f, r, k, P)
               a == k[x]
    <3>2. \A p \in P : d[p] = SumOf(f, Class(r, k, p))
      BY DEF ByClass
    <3>3. /\ a \in P
          /\ \A p \in P : Class(s, k, p) \in SUBSET S /\ Class(r, k, p) \in SUBSET S
          /\ \A p \in P : p # a => Class(r, k, p) = Class(s, k, p)
          /\ Class(r, k, a) = Class(s, k, a) \ {x} /\ x \in Class(s, k, a)
      BY <3>1 DEF Class
    <3>4. SumOf(d, P) = SumOf(f, r)
      BY <1>1, <3>1
    <3>5. SumOf(f, s) = f[x] + SumOf(f, r)
      BY <1>0, SumWithout
    <3> HIDE DEF c, d, r, a
    <3>6. \A p \in P : c[p] \in Nat /\ d[p] \in Nat
      BY <1>0, <2>0, <3>2, <3>3
    <3>7. c[a] = f[x] + d[a]
      <4>1. IsFiniteSet(Class(s, k, a)) /\ \A y \in Class(s, k, a) : f[y] \in Nat
        BY <1>0, <3>3
      <4>2. SumOf(f, Class(s, k, a)) = f[x] + SumOf(f, Class(s, k, a) \ {x})
        BY <3>3, <4>1, SumWithout
      <4> QED BY <2>0, <3>2, <3>3, <4>2
    <3>8. SumOf(c, P \ {a}) = SumOf(d, P \ {a})
      <4>1. \A p \in P \ {a} : c[p] = d[p]
        BY <2>0, <3>2, <3>3
      <4>2. IsFiniteSet(P \ {a})
        BY FS_Subset
      <4> QED BY <4>1, <4>2, SumSame
    <3>9. SumOf(c, P) = c[a] + SumOf(c, P \ {a}) /\ SumOf(d, P) = d[a] + SumOf(d, P \ {a})
      <4>1. SumOf(c, P) = c[a] + SumOf(c, P \ {a})
        BY <3>3, <3>6, SumWithout
      <4>2. SumOf(d, P) = d[a] + SumOf(d, P \ {a})
        BY <3>3, <3>6, SumWithout
      <4> QED BY <4>1, <4>2
    <3>10. SumOf(d, P \ {a}) \in Nat /\ d[a] \in Nat /\ f[x] \in Nat
      <4>1. IsFiniteSet(P \ {a}) /\ \A p \in P \ {a} : d[p] \in Nat
        BY <3>6, FS_Subset
      <4> QED BY <3>3, <3>6, <4>1, SumNat
    <3> DEFINE w == SumOf(d, P \ {a})
    <3>11. SumOf(c, P) = (f[x] + d[a]) + w /\ SumOf(d, P) = d[a] + w
      BY <3>7, <3>8, <3>9
    <3> HIDE DEF w
    <3>12. SumOf(c, P) = SumOf(f, s)
      <4>1. w \in Nat
        BY <3>10 DEF w
      <4> QED BY <3>4, <3>5, <3>10, <3>11, <4>1
    <3> QED BY <3>12 DEF c
  <2> QED BY <2>1, <2>2
<1>2. \A s \in SUBSET S : s \in Good
  <2> HIDE DEF Good
  <2> QED BY <1>1, SubsetsAll, Zenon
<1>3. S \in SUBSET S
  OBVIOUS
<1> QED BY <1>2, <1>3

\* The prices of the rows.
Prices(rows) == [v \in Visit |-> rows[v].price]

\* What some visits brought in is the sum of their prices.
LEMMA SpentIs ==
  ASSUME NEW V \in SUBSET Visit
  PROVE  Spent(V) = SumOf(Prices(visit), V)
<1> DEFINE First(s) == CHOOSE x \in s : TRUE
           sums == CHOOSE g : g = [s \in SUBSET V |-> IF s = {} THEN 0
                                      ELSE visit[First(s)].price + g[s \ {First(s)}]]
<1>1. Spent(V) = sums[V]
  BY DEF Spent, MapThenSumSet, MapThenFoldSet
<1>2. IsFiniteSet(V)
  BY FS_Subset, DeskAssumption
<1>3. \A s \in SUBSET V : s # {} => Prices(visit)[First(s)] = visit[First(s)].price
  BY DEF Prices
<1>4. ASSUME NEW g
      PROVE  Sums(g, Prices(visit), V)
               <=> g = [s \in SUBSET V |-> IF s = {} THEN 0
                           ELSE visit[First(s)].price + g[s \ {First(s)}]]
  BY <1>3 DEF Sums, Picked
<1>5. \E g : Sums(g, Prices(visit), V)
  BY <1>2, SumsExist, Zenon
<1>6. Sums(sums, Prices(visit), V)
  BY <1>4, <1>5, Zenon
<1>7. sums[V] = SumOf(Prices(visit), V)
  <2> HIDE DEF sums
  <2>1. Sums(CHOOSE g : Sums(g, Prices(visit), V), Prices(visit), V) /\ V \subseteq V
    BY <1>2, SumsExist, Zenon
  <2> QED BY <1>2, <1>6, <2>1, SumsAgree DEF SumOf
<1> QED BY <1>1, <1>7

--------------------------------------------------------------------------------
(* The report: each of its figures counts visits that were over, or that   *)
(* a write has taken out again.                                            *)

\* What every step leaves of the visits: price and professional, and all there is to count
\* of one that is over, unless it is undone, as it then stays.
RowsStand ==
  /\ limits' = limits
  /\ \A v \in Visit : /\ visit'[v].price = visit[v].price /\ visit'[v].pro = visit[v].pro
                      /\ visit[v].undone => visit'[v].undone
                      /\ visit[v].status \in Ended /\ ~visit'[v].undone
                           => visit'[v].status = visit[v].status /\ visit'[v].at = visit[v].at

\* A changed row, for one.
LEMMA WriteStands ==
  ASSUME TablesType, limits' = limits, NEW v \in Visit, NEW row \in VisitRow, Write(v, row),
         row.price = visit[v].price, row.pro = visit[v].pro
  PROVE  RowsStand
<1> DEFINE b == visit[v].undone \/ (visit[v].status \in Ended /\ Moved(v, row))
           new == [row EXCEPT !.ver = visit[v].ver + 1, !.undone = b]
<1>1. new.price = row.price /\ new.pro = row.pro /\ new.status = row.status /\ new.at = row.at
      /\ new.undone = b
  BY DEF VisitRow
<1>2. \A u \in Visit : visit'[u] = IF u = v THEN new ELSE visit[u]
  BY DEF Write, TablesType
<1>3. /\ visit[v].undone => b
      /\ visit[v].status \in Ended /\ ~b => row.status = visit[v].status /\ row.at = visit[v].at
  BY DEF Moved
<1> HIDE DEF new, b
<1> QED BY <1>1, <1>2, <1>3 DEF RowsStand

\* So do the rows the server writes.
LEMMA ServeStands ==
  ASSUME Types, NEW i \in DOMAIN calls, Serve(i)
  PROVE  RowsStand
<1>0. TablesType /\ visit \in [Visit -> VisitRow] /\ Mine \in Visit /\ CallType(calls[i])
  BY DeskAssumption DEF Types, TablesType, CallsType
<1>1. limits' = limits
  BY ServeEffects DEF Effects
<1>2. CASE UNCHANGED visit
  BY <1>1, <1>2 DEF RowsStand
<1>3. ASSUME NEW kind, NEW v \in Visit, NEW s \in Status, NEW n, NEW val,
             ById(i, kind, v, [visit[v] EXCEPT !.status = s], n, val)
      PROVE  RowsStand
  <2> DEFINE row == [visit[v] EXCEPT !.status = s]
  <2>1. UNCHANGED visit \/ Write(v, row)
    BY <1>3 DEF ById, Refuse
  <2>2. row \in VisitRow /\ row.price = visit[v].price /\ row.pro = visit[v].pro
    BY <1>0 DEF VisitRow
  <2> HIDE DEF row
  <2> QED BY <1>0, <1>1, <1>2, <2>1, <2>2, WriteStands
<1>4. CASE confirmWrite(i) \/ cancelWrite(i)
  <2>1. "CONFIRMED" \in Status /\ "CANCELLED" \in Status
    BY DEF Status
  <2>2. CASE confirmWrite(i)
    BY <1>0, <1>3, <2>1, <2>2 DEF confirmWrite
  <2>3. CASE cancelWrite(i)
    BY <1>0, <1>3, <2>1, <2>3 DEF cancelWrite
  <2> QED BY <1>4, <2>2, <2>3
<1>5. CASE rescheduleWrite(i)
  <2> DEFINE to == calls[i].arg.to
             row == [visit[Mine] EXCEPT !.at = to, !.status = afterMove(calls[i].res)]
  <2>1. calls[i].kind = "reschedule" /\ (UNCHANGED visit \/ Write(Mine, row))
    BY <1>5 DEF rescheduleWrite, ById, Refuse
  <2>2. to \in Nat
    BY <1>0, <2>1 DEF CallType, CarriesOf
  <2>3. afterMove(calls[i].res) \in Status
    BY DEF afterMove, Status
  <2>4. row \in VisitRow /\ row.price = visit[Mine].price /\ row.pro = visit[Mine].pro
    BY <1>0, <2>2, <2>3 DEF VisitRow
  <2> HIDE DEF row
  <2> QED BY <1>0, <1>1, <1>2, <2>1, <2>4, WriteStands
<1>6. CASE reviewWrite(i)
  <2> DEFINE row == [visit[Mine] EXCEPT !.review = "shown"]
  <2>1. UNCHANGED visit \/ Write(Mine, row)
    BY <1>6 DEF reviewWrite, Refuse
  <2>2. row \in VisitRow /\ row.price = visit[Mine].price /\ row.pro = visit[Mine].pro
    BY <1>0 DEF VisitRow
  <2> HIDE DEF row
  <2> QED BY <1>0, <1>1, <1>2, <2>1, <2>2, WriteStands
<1>7. CASE statusWrite(i)
  <2>1. calls[i].kind = "status"
    BY <1>7 DEF statusWrite, ById
  <2>2. calls[i].arg.id \in Visit /\ calls[i].arg.to \in Status
    BY <1>0, <2>1 DEF CallType, CarriesOf
  <2> QED BY <1>3, <1>7, <2>2 DEF statusWrite
<1>8. CASE updateReview(i)
  <2> DEFINE v == calls[i].arg.id
             row == [visit[v] EXCEPT !.review = calls[i].arg.to]
  <2>1. calls[i].kind = "publish" /\ Write(v, row)
    BY <1>8 DEF updateReview, Is
  <2>2. v \in Visit /\ calls[i].arg.to \in Hidden
    BY <1>0, <2>1 DEF CallType, CarriesOf
  <2>3. row \in VisitRow /\ row.price = visit[v].price /\ row.pro = visit[v].pro
    BY <1>0, <2>2 DEF VisitRow, Hidden
  <2> HIDE DEF v, row
  <2> QED BY <1>0, <1>1, <2>1, <2>2, <2>3, WriteStands
<1>9. CASE getByManageToken(i) \/ getPublicSlots(i) \/ listReviews(i) \/ getSettings(i)
  BY <1>2, <1>9 DEF getByManageToken, getPublicSlots, listReviews, getSettings, Read, tables
<1>10. CASE listAppointments(i) \/ listClients(i) \/ clientDetail(i)
  <2>1. UNCHANGED <<limits, tables, counters>> /\ \E r : Reply(i, r)
    BY <1>10 DEF listAppointments, listClients, clientDetail, Read
  <2> QED BY <1>2, <2>1 DEF tables
<1>11. CASE updateNotes(i) \/ updateMarketingConsent(i) \/ updateProfile(i) \/ updateSettings(i)
  BY <1>2, <1>11 DEF updateNotes, updateMarketingConsent, updateProfile, WriteCard, updateSettings
<1>12. CASE confirmByToken(i) \/ cancelByToken(i) \/ rescheduleByToken(i) \/ reviewByToken(i) \/ updateStatus(i)
  BY <1>2, <1>12 DEF confirmByToken, cancelByToken, rescheduleByToken, reviewByToken, updateStatus, Refuse, Decide
<1> QED BY <1>4, <1>5, <1>6, <1>7, <1>8, <1>9, <1>10, <1>11, <1>12 DEF Serve

\* And those of every other step.
LEMMA StepStands ==
  ASSUME Types, [Next]_vars
  PROVE  RowsStand
<1>0. TablesType /\ visit \in [Visit -> VisitRow] /\ decided \subseteq Decision
  BY DEF Types, TablesType
<1>1. CASE UNCHANGED <<limits, visit>>
  BY <1>1 DEF RowsStand
<1>2. ASSUME NEW own, PageSteps(own) PROVE RowsStand
  BY <1>1, <1>2, PageStepsTouch DEF Untouched, tables
<1>3. ASSUME NEW i \in DOMAIN calls, Lose(i) \/ LoseAnswer(i) PROVE RowsStand
  BY <1>1, <1>3 DEF Lose, LoseAnswer, Fault, tables
<1>4. ASSUME NEW x \in decided, WriteElsewhere(x) PROVE RowsStand
  <2> DEFINE row == [visit[x.id] EXCEPT !.status = x.status, !.at = IF x.at = NoTime THEN @ ELSE x.at]
  <2>1. limits' = limits /\ (UNCHANGED visit \/ Write(x.id, row))
    BY <1>4 DEF WriteElsewhere
  <2>2. x.id \in Visit /\ x.status \in Status /\ x.at \in Nat \cup {NoTime} /\ visit[x.id] \in VisitRow
    BY <1>0 DEF Decision
  <2>3. row \in VisitRow /\ row.price = visit[x.id].price /\ row.pro = visit[x.id].pro
    BY <2>2 DEF VisitRow
  <2> HIDE DEF row
  <2> QED BY <1>0, <1>1, <2>1, <2>2, <2>3, WriteStands
<1> QED BY <1>1, <1>2, <1>3, <1>4, ServeStands, StepCases

\* The figures of a set of visits are sums of prices, of all and of each professional's.
Pros(rows) == [v \in Visit |-> rows[v].pro]
FiguresAdd ==
  \A C \in SUBSET Visit :
    /\ CountsOf(C) = [completed |-> Cardinality(C), revenue |-> SumOf(Prices(visit), C)]
    /\ PerPro(C) = ByClass(Prices(visit), C, Pros(visit), Pro)

\* They are in every state.
LEMMA FiguresAreSums == FiguresAdd
<1> SUFFICES ASSUME NEW C \in SUBSET Visit
             PROVE  /\ CountsOf(C) = [completed |-> Cardinality(C), revenue |-> SumOf(Prices(visit), C)]
                    /\ PerPro(C) = ByClass(Prices(visit), C, Pros(visit), Pro)
  BY DEF FiguresAdd
<1>1. CountsOf(C) = [completed |-> Cardinality(C), revenue |-> SumOf(Prices(visit), C)]
  BY SpentIs DEF CountsOf
<1>2. ASSUME NEW p \in Pro
      PROVE  Spent({v \in C : visit[v].pro = p}) = SumOf(Prices(visit), Class(C, Pros(visit), p))
  <2>1. {v \in C : visit[v].pro = p} = Class(C, Pros(visit), p)
    BY DEF Class, Pros
  <2>2. Class(C, Pros(visit), p) \in SUBSET Visit
    BY DEF Class
  <2> QED BY <2>1, <2>2, SpentIs
<1>3. PerPro(C) = ByClass(Prices(visit), C, Pros(visit), Pro)
  BY <1>2 DEF PerPro, ByClass
<1> QED BY <1>1, <1>3

\* So they are after a step.
LEMMA FiguresStaySums == FiguresAdd'
BY FiguresAreSums, PTL

\* Sets of visits count as much as before, and what is over stays counted.
LEMMA CountsStand ==
  ASSUME RowsStand
  PROVE  /\ \A C \in SUBSET Visit : CountsOf(C)' = CountsOf(C) /\ PerPro(C)' = PerPro(C)
         /\ Done \cup Undone \subseteq Done' \cup Undone' /\ Undone \subseteq Undone'
         /\ Missed \cup Undone \subseteq Missed' \cup Undone'
<1>1. Prices(visit') = Prices(visit) /\ Pros(visit') = Pros(visit)
  BY DEF Prices, Pros, RowsStand
<1>2. ASSUME NEW C \in SUBSET Visit PROVE CountsOf(C)' = CountsOf(C) /\ PerPro(C)' = PerPro(C)
  BY <1>1, FiguresAreSums, FiguresStaySums DEF FiguresAdd
<1>3. /\ Done \cup Undone \subseteq Done' \cup Undone' /\ Undone \subseteq Undone'
      /\ Missed \cup Undone \subseteq Missed' \cup Undone'
  BY DEF Done, Missed, Undone, within, inPeriod, RowsStand, Ended
<1> QED BY <1>2, <1>3

\* The steps of the report, and the others.
LEMMA ReportSteps ==
  ASSUME [Next]_vars
  PROVE  rp' = rp \/ loadReport \/ \E q \in rp.want : RunQuery(q)
<1>1. CASE UNCHANGED vars \/ UNCHANGED pages
  BY <1>1 DEF vars, pages
<1>2. CASE User
  BY <1>2 DEF User, Manage, Agenda, Clients, Settings
<1>3. CASE Answer
  BY <1>3 DEF Answer, Manage, Agenda, Clients, Settings
<1>4. CASE Server \/ World
  BY <1>1, <1>4 DEF Server, World
<1>5. CASE Timer \/ Queries
  BY <1>5 DEF Timer, Queries, Clients
<1> QED BY <1>1, <1>2, <1>3, <1>4, <1>5 DEF Next, System

\* What a step may do to the report's figures: leave them, or count anew.
FigureSteps ==
  /\ rp'.asked = rp.asked /\ rp'.since = rp.since
  /\ \/ rp'.totals = rp.totals /\ ("completedAgg" \in rp.want => "completedAgg" \in rp'.want)
     \/ rp'.totals = CountsOf(Done)
  /\ \/ rp'.byPro = rp.byPro /\ ("byProfessional" \in rp.want => "byProfessional" \in rp'.want)
     \/ rp'.byPro = PerPro(Done)
  /\ \/ rp'.noShow = rp.noShow /\ ("byStatus" \in rp.want => "byStatus" \in rp'.want)
     \/ rp'.noShow = Cardinality(Missed)

\* What was counted is still there to count.
LEMMA CountedStands ==
  ASSUME RowsStand, Counted, FigureSteps
  PROVE  Counted'
<1> SUFFICES ASSUME rp.asked PROVE Counted'
  BY DEF Counted, FigureSteps
<1> DEFINE D0 == Done \cup Undone
           N0 == Missed \cup Undone
<1>0. D0 \subseteq Visit /\ N0 \subseteq Visit /\ Done \subseteq D0 /\ Missed \subseteq N0
  BY DEF Done, Missed, Undone, within, inPeriod
<1>1. /\ rp.since \subseteq D0
      /\ "completedAgg" \in rp.want \/ \E D \in SUBSET D0 : rp.since \ Undone \subseteq D /\ rp.totals = CountsOf(D)
      /\ "byProfessional" \in rp.want \/ \E D \in SUBSET D0 : rp.since \ Undone \subseteq D /\ rp.byPro = PerPro(D)
      /\ "byStatus" \in rp.want \/ \E N \in SUBSET N0 : rp.noShow = Cardinality(N)
  BY DEF Counted
<1>2. /\ \A D \in SUBSET D0 : D \in SUBSET D0' /\ CountsOf(D)' = CountsOf(D) /\ PerPro(D)' = PerPro(D)
      /\ \A N \in SUBSET N0 : N \in SUBSET N0'
      /\ Undone \subseteq Undone'
  BY <1>0, CountsStand
<1>3. rp'.since = rp.since /\ rp'.since \subseteq D0'
  BY <1>1, <1>2 DEF FigureSteps
<1>7. rp.since \ Undone \subseteq Done
  BY <1>1
<1> HIDE DEF D0, N0
<1>4. "completedAgg" \in rp'.want
      \/ \E D \in SUBSET D0' : rp'.since \ Undone' \subseteq D /\ rp'.totals = CountsOf(D)'
  <2>1. "completedAgg" \in rp'.want \/ \E D \in SUBSET D0 : rp.since \ Undone \subseteq D /\ rp'.totals = CountsOf(D)
    BY <1>0, <1>1, <1>7 DEF FigureSteps
  <2>2. \A D \in SUBSET D0 : rp.since \ Undone \subseteq D => rp'.since \ Undone' \subseteq D
    BY <1>2, <1>3
  <2> QED BY <1>2, <2>1, <2>2
<1>5. "byProfessional" \in rp'.want
      \/ \E D \in SUBSET D0' : rp'.since \ Undone' \subseteq D /\ rp'.byPro = PerPro(D)'
  <2>1. "byProfessional" \in rp'.want \/ \E D \in SUBSET D0 : rp.since \ Undone \subseteq D /\ rp'.byPro = PerPro(D)
    BY <1>0, <1>1, <1>7 DEF FigureSteps
  <2>2. \A D \in SUBSET D0 : rp.since \ Undone \subseteq D => rp'.since \ Undone' \subseteq D
    BY <1>2, <1>3
  <2> QED BY <1>2, <2>1, <2>2
<1>6. "byStatus" \in rp'.want \/ \E N \in SUBSET N0' : rp'.noShow = Cardinality(N)
  <2>1. "byStatus" \in rp'.want \/ \E N \in SUBSET N0 : rp'.noShow = Cardinality(N)
    BY <1>0, <1>1 DEF FigureSteps
  <2> QED BY <1>2, <2>1
<1> QED BY <1>3, <1>4, <1>5, <1>6 DEF Counted, D0, N0

\* Each query counts what is completed, or missed, as it runs.
LEMMA QueryCounts ==
  ASSUME ReportType, NEW q \in rp.want, RunQuery(q)
  PROVE  ReportType' /\ FigureSteps
<1>1. rp' = [Query1(q) EXCEPT !.want = @ \ {q}]
  BY DEF RunQuery
<1>2. CASE q = "byStatus"
  <2>1. rp' = [byStatus EXCEPT !.want = @ \ {q}]
    BY <1>1, <1>2 DEF Query1
  <2>2. rp' = [want |-> rp.want \ {q}, asked |-> rp.asked, appointments |-> Cardinality(inPeriod),
               noShow |-> Cardinality(Missed), totals |-> rp.totals, byPro |-> rp.byPro, since |-> rp.since]
    BY <2>1 DEF ReportType, byStatus, Missed
  <2> QED BY <1>2, <2>2 DEF ReportType, FigureSteps
<1>3. CASE q = "completedAgg"
  <2>1. rp' = [completedAgg EXCEPT !.want = @ \ {q}]
    BY <1>1, <1>3 DEF Query1
  <2>2. Figures = CountsOf(Done)
    BY DEF Figures, CountsOf, Done
  <2>3. rp' = [want |-> rp.want \ {q}, asked |-> rp.asked, appointments |-> rp.appointments,
               noShow |-> rp.noShow, totals |-> CountsOf(Done), byPro |-> rp.byPro, since |-> rp.since]
    BY <2>1, <2>2 DEF ReportType, completedAgg
  <2> QED BY <1>3, <2>3 DEF ReportType, FigureSteps
<1>4. CASE q = "byProfessional"
  <2>1. rp' = [byProfessional EXCEPT !.want = @ \ {q}]
    BY <1>1, <1>4 DEF Query1
  <2>2. rp' = [want |-> rp.want \ {q}, asked |-> rp.asked, appointments |-> rp.appointments,
               noShow |-> rp.noShow, totals |-> rp.totals, byPro |-> PerPro(Done), since |-> rp.since]
    BY <2>1 DEF ReportType, byProfessional, PerPro, Done
  <2> QED BY <1>4, <2>2 DEF ReportType, FigureSteps
<1> QED BY <1>2, <1>3, <1>4 DEF ReportType

\* A report that is asked for waits for all of its figures.
LEMMA ReportAsked ==
  ASSUME ReportType, RowsStand, loadReport
  PROVE  ReportInv'
<1>1. rp' = [want |-> {"byStatus", "completedAgg", "byProfessional"}, asked |-> TRUE,
             appointments |-> rp.appointments, noShow |-> rp.noShow,
             totals |-> rp.totals, byPro |-> rp.byPro, since |-> Done]
  BY DEF ReportType, loadReport, Done
<1>2. Done \subseteq Done' \cup Undone'
  BY CountsStand
<1>3. Counted'
  BY <1>1, <1>2 DEF Counted
<1>4. ReportType'
  BY <1>1 DEF ReportType
<1> QED BY <1>3, <1>4 DEF ReportInv

\* The report's invariant holds throughout.
LEMMA ReportKept == Spec => []ReportInv
<1>1. Init => ReportInv
  BY DEF Init, ReportInit, ReportInv, ReportType, Counted
<1>2. Types /\ ReportInv /\ [Next]_vars => ReportInv'
  <2> SUFFICES ASSUME Types, ReportInv, [Next]_vars PROVE ReportInv'
    OBVIOUS
  <2>1. RowsStand /\ ReportType /\ Counted
    BY StepStands DEF ReportInv
  <2>2. CASE rp' = rp
    <3>1. FigureSteps /\ ReportType'
      BY <2>1, <2>2 DEF FigureSteps, ReportType
    <3> QED BY <2>1, <3>1, CountedStands DEF ReportInv
  <2>3. CASE loadReport
    BY <2>1, <2>3, ReportAsked
  <2>4. CASE \E q \in rp.want : RunQuery(q)
    <3>1. FigureSteps /\ ReportType'
      BY <2>1, <2>4, QueryCounts
    <3> QED BY <2>1, <3>1, CountedStands DEF ReportInv
  <2> QED BY <2>2, <2>3, <2>4, ReportSteps
<1>3. Spec => []Types
  BY TypesInit, TypesStay, PTL DEF Spec
<1> QED BY <1>1, <1>2, <1>3, PTL DEF Spec

\* More visits, higher figures.
LEMMA MoreCounts ==
  ASSUME TablesType, NEW D \in SUBSET Visit, NEW C \in SUBSET D
  PROVE  /\ Cardinality(C) \in Nat /\ Cardinality(D) \in Nat /\ Cardinality(C) <= Cardinality(D)
         /\ Spent(C) \in Nat /\ Spent(D) \in Nat /\ Spent(C) <= Spent(D)
<1>1. IsFiniteSet(C) /\ IsFiniteSet(D) /\ C \in SUBSET Visit
  BY DeskAssumption, FS_Subset
<1>2. \A v \in Visit : Prices(visit)[v] \in Nat
  BY DEF Prices, TablesType, VisitRow
<1>3. Spent(C) = SumOf(Prices(visit), C) /\ Spent(D) = SumOf(Prices(visit), D)
  BY <1>1, SpentIs
<1>4. Spent(C) \in Nat /\ Spent(D) \in Nat
  BY <1>1, <1>2, <1>3, SumNat
<1>5. Spent(C) <= Spent(D)
  <2>1. \A v \in D : Prices(visit)[v] \in Nat
    BY <1>2
  <2> QED BY <1>1, <1>3, <2>1, SumGrows
<1>6. Cardinality(C) \in Nat /\ Cardinality(D) \in Nat /\ Cardinality(C) <= Cardinality(D)
  BY <1>1, FS_CardinalityType, FS_Subset
<1> QED BY <1>4, <1>5, <1>6

\* The professionals' figures add up to that of all.
LEMMA ProsAddUp ==
  ASSUME TablesType, NEW D \in SUBSET Visit, rp.byPro = PerPro(D)
  PROVE  MapThenSumSet(LAMBDA p : rp.byPro[p], Pro) = Spent(D)
<1>1. MapThenSumSet(LAMBDA p : rp.byPro[p], Pro) = SumOf(rp.byPro, Pro)
  BY DEF MapThenSumSet, MapThenFoldSet, SumOf, Sums, Picked
<1>2. rp.byPro = ByClass(Prices(visit), D, Pros(visit), Pro)
  BY FiguresAreSums DEF FiguresAdd
<1>3. IsFiniteSet(D) /\ IsFiniteSet(Pro)
  BY DeskAssumption, FS_Subset
<1>4. \A v \in D : Prices(visit)[v] \in Nat /\ Pros(visit)[v] \in Pro
  BY DEF Prices, Pros, TablesType, VisitRow
<1>5. SumOf(ByClass(Prices(visit), D, Pros(visit), Pro), Pro) = SumOf(Prices(visit), D)
  BY <1>3, <1>4, SumOfClasses
<1> QED BY <1>1, <1>2, <1>5, SpentIs

\* Whatever is booked, moved, finished or missed while its queries run, no figure of a
\* report is below what was completed when it was asked for or above what is completed
\* when it is read, by total and by professional, and nobody is counted both as served
\* and as missed (reports.service.ts:29-68); but for the visits that a handler which had
\* read them before they ended wrote by id afterwards, one by one.
THEOREM ReportsStayWithin == Spec => []ReportWithinBounds
<1>1. Types /\ ReportInv => ReportWithinBounds
  <2> SUFFICES ASSUME Types, ReportInv, summaryReady PROVE ReportWithinBounds
    BY DEF ReportWithinBounds
  <2> DEFINE least == rp.since \ Undone
             most == Done \cup Undone
             all == inPeriod \cup Undone
  <2>1. /\ TablesType /\ most \in SUBSET Visit /\ Missed \cup Undone \in SUBSET Visit
        /\ all \in SUBSET Visit /\ Undone \in SUBSET Visit
    BY DEF Types, Done, Missed, Undone, within, inPeriod
  <2>2. /\ rp.since \subseteq most
        /\ \E D \in SUBSET most : least \subseteq D /\ rp.totals = CountsOf(D)
        /\ \E D \in SUBSET most : least \subseteq D /\ rp.byPro = PerPro(D)
        /\ \E N \in SUBSET (Missed \cup Undone) : rp.noShow = Cardinality(N)
    BY DEF ReportInv, Counted, summaryReady
  <2>3. PICK D \in SUBSET most : least \subseteq D /\ rp.totals = CountsOf(D)
    BY <2>2
  <2>4. rp.totals.completed = Cardinality(D) /\ rp.totals.revenue = Spent(D)
    BY <2>3 DEF CountsOf
  <2>9. PICK N \in SUBSET (Missed \cup Undone) : rp.noShow = Cardinality(N)
    BY <2>2
  <2>5. D \cap N \subseteq Undone /\ D \cup N \subseteq all
    BY <2>1, <2>3, <2>9 DEF Done, Missed, within
  <2> HIDE DEF least, most, all
  <2>6. /\ rp.totals.completed \in Cardinality(least)..Cardinality(most)
        /\ rp.totals.revenue \in Spent(least)..Spent(most)
    <3>1. Cardinality(D) \in Cardinality(least)..Cardinality(most) /\ Spent(D) \in Spent(least)..Spent(most)
      BY <2>1, <2>3, MoreCounts
    <3> QED BY <2>4, <3>1
  <2>7. MapThenSumSet(LAMBDA p : rp.byPro[p], Pro) \in Spent(least)..Spent(most)
    <3>1. PICK E \in SUBSET most : least \subseteq E /\ rp.byPro = PerPro(E)
      BY <2>2
    <3>2. MapThenSumSet(LAMBDA p : rp.byPro[p], Pro) = Spent(E)
      BY <2>1, <3>1, ProsAddUp
    <3>3. Spent(E) \in Spent(least)..Spent(most)
      BY <2>1, <3>1, MoreCounts
    <3> QED BY <3>2, <3>3
  <2>8. rp.totals.completed + rp.noShow <= Cardinality(all) + Cardinality(Undone)
    <3>1. IsFiniteSet(D) /\ IsFiniteSet(N) /\ IsFiniteSet(all) /\ IsFiniteSet(Undone)
      BY <2>1, <2>3, <2>9, DeskAssumption, FS_Subset
    <3>2. Cardinality(D \cup N) = Cardinality(D) + Cardinality(N) - Cardinality(D \cap N)
      BY <3>1, FS_Union
    <3>3. Cardinality(D \cup N) <= Cardinality(all) /\ Cardinality(D \cap N) <= Cardinality(Undone)
          /\ IsFiniteSet(D \cup N) /\ IsFiniteSet(D \cap N)
      BY <2>5, <3>1, FS_Subset
    <3>4. \A S : IsFiniteSet(S) => Cardinality(S) \in Nat
      BY FS_CardinalityType
    <3>5. /\ Cardinality(D) \in Nat /\ Cardinality(N) \in Nat /\ Cardinality(D \cup N) \in Nat
          /\ Cardinality(D \cap N) \in Nat /\ Cardinality(all) \in Nat /\ Cardinality(Undone) \in Nat
      BY <3>1, <3>3, <3>4
    <3> QED BY <2>4, <2>9, <3>2, <3>3, <3>5
  <2> QED BY <2>6, <2>7, <2>8 DEF ReportWithinBounds, least, most, all, Done, Undone
<1>2. Spec => []Types
  BY TypesInit, TypesStay, PTL DEF Spec
<1> QED BY <1>1, <1>2, ReportKept, PTL

--------------------------------------------------------------------------------
(* What a page shows as under way.                                         *)

\* A request is still what it was when it was sent.
SameRequest(c, d) == c.kind = d.kind /\ c.arg = d.arg /\ c.then = d.then
Remain(page, gone) ==
  \A i \in At(page, calls) \ gone : \E j \in At(page, calls') : SameRequest(calls'[j], calls[i])
Sends(page, c) == \E j \in At(page, calls') : calls'[j] = c

\* Requests that are not gone remain,
LEMMA FollowsRemain ==
  ASSUME NEW page, NEW gone, NEW new, Follows(page, calls, calls', gone, new)
  PROVE  Remain(page, gone)
BY FollowsOld DEF Remain, SameRequest

\* also when they are served or lost,
LEMMA HandledRemain ==
  ASSUME NEW page, NEW i, Handled(page, i)
  PROVE  Remain(page, {})
BY DEF Handled, Remain, SameRequest

\* when one is sent,
LEMMA SentRemain ==
  ASSUME CallsType, NEW c, NEW page, c.from = page, calls' = Append(calls, c)
  PROVE  Remain(page, {}) /\ Sends(page, c)
<1>1. PICK new : Follows(page, calls, calls', {}, new) /\ OneNew(new, c)
  BY Sent
<1>2. new \subseteq At(page, calls')
  BY <1>1 DEF Follows
<1> QED BY <1>1, <1>2, FollowsRemain DEF OneNew, Sends

\* when an answer is taken,
LEMMA TakenRemain ==
  ASSUME CallsType, NEW i \in DOMAIN calls, calls' = Others(i), NEW page
  PROVE  Remain(page, {i})
BY OwnTake, FollowsRemain

\* and when the next request is sent for it.
LEMMA NextRemain ==
  ASSUME CallsType, NEW i \in DOMAIN calls, NEW c, NEW page, c.from = page, calls' = Append(Others(i), c)
  PROVE  Remain(page, {i}) /\ Sends(page, c)
<1>1. PICK new : Follows(page, calls, calls', {i}, new) /\ OneNew(new, c)
  BY SentFor
<1>2. new \subseteq At(page, calls')
  BY <1>1 DEF Follows
<1> QED BY <1>1, <1>2, FollowsRemain DEF OneNew, Sends

\* Nothing is sent or taken.
LEMMA SameRemain ==
  ASSUME UNCHANGED calls, NEW page
  PROVE  Remain(page, {})
BY DEF Remain, SameRequest

\* A step of another page, of the server or of the network leaves a page with what it
\* waits for.
LEMMA OtherRemain ==
  ASSUME Types, [Next]_vars, NEW page \in PageNames
  PROVE  \/ PageSteps(page) /\ Untouched
         \/ Remain(page, {}) /\ SamePage(page) /\ limits' = limits
<1>1. UNCHANGED pages => SamePage(page)
  BY DEF pages, SamePage
<1>2. ASSUME NEW i \in At(page, calls), Serve(i) \/ Lose(i) \/ LoseAnswer(i)
      PROVE  Remain(page, {}) /\ limits' = limits
  BY <1>2, HandledSo, HandledRemain DEF Handled
<1>3. Keeps(page) /\ SameTables(page) => Remain(page, {}) /\ limits' = limits
  BY FollowsRemain DEF Keeps, SameTables
<1> QED BY <1>1, <1>2, <1>3, Frame

--------------------------------------------------------------------------------

\* The manage link waits for no more than before, or for a request sent.
LEMMA ManageWaitsMoved ==
  ASSUME ManageWaits, NEW gone, Remain("manage", gone), limits' = limits,
         mp'.phase = "loading" => mp.phase = "loading" /\ \A i \in gone : calls[i].kind # "get",
         Named(mp'.busy) => \/ mp'.busy = mp.busy /\ \A i \in gone : ButtonOf(calls[i]) # mp.busy
                          \/ \E c : Sends("manage", c) /\ ButtonOf(c) = mp'.busy,
         mp'.slotsLoading => \/ mp.slotsLoading /\ \A i \in gone : calls[i].kind # "slots"
                             \/ \E c : Sends("manage", c) /\ c.kind = "slots"
  PROVE  ManageWaits'
<1>1. ASSUME isOpen("manage"), mp'.phase = "loading"
      PROVE  \E j \in At("manage", calls') : calls'[j].kind = "get"
  BY <1>1 DEF ManageWaits, Remain, SameRequest
<1>2. ASSUME Named(mp'.busy)
      PROVE  \E j \in At("manage", calls') : ButtonOf(calls'[j]) = mp'.busy
  <2>1. CASE \E c : Sends("manage", c) /\ ButtonOf(c) = mp'.busy
    BY <2>1 DEF Sends
  <2>2. CASE mp'.busy = mp.busy /\ \A i \in gone : ButtonOf(calls[i]) # mp.busy
    <3>1. PICK i \in At("manage", calls) \ gone : ButtonOf(calls[i]) = mp.busy
      BY <1>2, <2>2 DEF ManageWaits
    <3> QED BY <2>2, <3>1 DEF Remain, SameRequest, ButtonOf
  <2> QED BY <1>2, <2>1, <2>2
<1>3. ASSUME mp'.slotsLoading
      PROVE  \E j \in At("manage", calls') : calls'[j].kind = "slots"
  BY <1>3 DEF ManageWaits, Remain, SameRequest, Sends
<1> QED BY <1>1, <1>2, <1>3 DEF ManageWaits, isOpen, ButtonOf

\* The clicks on a manage link: a button is busy once its request is sent.
LEMMA ManageWaitsClicked ==
  ASSUME Types, ManageWaits, ManageClicks, limits' = limits
  PROVE  ManageWaits'
<1>0. CallsType /\ ManageType /\ mp \in ManagePages
  BY DEF Types, ManageType, ManagePages
<1>1. ASSUME NEW kind, NEW arg, NEW then
      PROVE  /\ Send(kind, arg, then).from = "manage" /\ Send(kind, arg, then).kind = kind
             /\ Send(kind, arg, then).then = then
  BY DEF Send, Call
<1>2. ASSUME NEW kind \in {"confirm", "cancel", "reschedule", "review"}, NEW arg, Submit(kind, arg)
      PROVE  ManageWaits'
  <2> DEFINE c == Send(kind, arg, "")
  <2>1. mp' = [mp EXCEPT !.busy = kind] /\ calls' = Append(calls, c)
    BY <1>2 DEF Submit
  <2>2. c.from = "manage" /\ c.kind = kind
    BY DEF Send, Call
  <2> HIDE DEF c
  <2>5. ButtonOf(c) = kind
    BY <2>2 DEF ButtonOf
  <2>3. mp'.phase = mp.phase /\ mp'.busy = kind /\ mp'.slotsLoading = mp.slotsLoading
    BY <1>0, <2>1 DEF ManageType
  <2>4. Remain("manage", {}) /\ Sends("manage", c)
    BY <1>0, <2>1, <2>2, SentRemain
  <2> QED BY <2>3, <2>4, <2>5, ManageWaitsMoved
<1>3. ASSUME NEW p \in ManagePages, Effect(p, calls), p.phase = mp.phase, p.busy = mp.busy,
             p.slotsLoading = mp.slotsLoading
      PROVE  ManageWaits'
  <2>1. CASE mp' = p /\ calls' = calls
    BY <1>3, <2>1, SameRemain, ManageWaitsMoved
  <2>2. CASE loadSlots(p, calls, p.date, "")
    <3> DEFINE c == Send("slots", p.date, "")
    <3>1. mp' = [p EXCEPT !.slotsLoading = TRUE, !.pick = NoTime] /\ calls' = Append(calls, c)
      BY <2>2 DEF loadSlots
    <3>2. c.from = "manage" /\ c.kind = "slots"
      BY DEF Send, Call
    <3> HIDE DEF c
    <3>3. mp'.phase = p.phase /\ mp'.busy = p.busy
      BY <3>1 DEF ManagePages
    <3>4. Remain("manage", {}) /\ Sends("manage", c)
      BY <1>0, <3>1, <3>2, SentRemain
    <3> QED BY <1>3, <3>2, <3>3, <3>4, ManageWaitsMoved
  <2> QED BY <1>3, <2>1, <2>2 DEF Effect
<1>4. CASE confirmPresence \/ cancelAppointment \/ reschedule \/ submitReview
  BY <1>2, <1>4 DEF confirmPresence, cancelAppointment, reschedule, submitReview
<1>5. ASSUME NEW m \in {"", "cancel", "reschedule"}, Effect([mp EXCEPT !.open = m], calls) PROVE ManageWaits'
  <2> DEFINE p == [mp EXCEPT !.open = m]
  <2>1. p \in ManagePages /\ p.phase = mp.phase /\ p.busy = mp.busy /\ p.slotsLoading = mp.slotsLoading
    BY <1>0 DEF ManagePages
  <2> QED BY <1>3, <1>5, <2>1
<1>6. CASE CloseModal \/ \E m \in {"cancel", "reschedule"} : Toggle(m)
  BY <1>5, <1>6 DEF CloseModal, Toggle
<1>7. ASSUME NEW d \in limits.days \cup {NoTime}, ChangeDate(d) PROVE ManageWaits'
  <2> DEFINE h == IF d = NoTime THEN mp.hurried ELSE inFlight("slots") \/ inFlight("reschedule")
             p == [mp EXCEPT !.date = d, !.hurried = h]
  <2>1. d \in Day /\ h \in BOOLEAN
    BY <1>0, LimitsAssumption DEF Types, TablesType, ManageType, Day
  <2>3. Effect(p, calls)
    BY <1>7 DEF ChangeDate
  <2> HIDE DEF h
  <2>2. p \in ManagePages /\ p.phase = mp.phase /\ p.busy = mp.busy /\ p.slotsLoading = mp.slotsLoading
    BY <1>0, <2>1 DEF ManagePages
  <2> QED BY <1>3, <2>2, <2>3
<1>8. ASSUME NEW d \in limits.days, PickSlot(d) PROVE ManageWaits'
  <2>1. mp'.phase = mp.phase /\ mp'.busy = mp.busy /\ mp'.slotsLoading = mp.slotsLoading /\ UNCHANGED calls
    BY <1>0, <1>8 DEF PickSlot, ManageType
  <2> QED BY <2>1, SameRemain, ManageWaitsMoved
<1> QED BY <1>4, <1>6, <1>7, <1>8 DEF ManageClicks

\* Its answers: a button stays busy only if the next request is sent for it.
LEMMA ManageWaitsAnswered ==
  ASSUME Types, ManageInv, ManageWaits, NEW i \in DOMAIN calls, ManageReply(i), limits' = limits
  PROVE  ManageWaits'
<1>0. CallsType /\ ManageType /\ OneMain /\ ~Named("")
  BY DEF Types, ManageInv, Named
<1>1. ASSUME NEW kind, Answers(i, "manage", kind) PROVE i \in At("manage", calls) /\ calls[i].kind = kind
  BY <1>1 DEF Answers, At
<1>2. CASE LoadReply(i)
  <2> DEFINE d == IF calls[i].res.ok THEN calls[i].res.val ELSE mp.data
             ph == IF calls[i].res.ok \/ mp.data # Nothing THEN "ready" ELSE "lost"
  <2>1. calls[i].kind = "get" /\ calls' = Others(i) /\ mp' = [mp EXCEPT !.data = d, !.busy = "", !.phase = ph]
    BY <1>1, <1>2 DEF LoadReply
  <2>2. ph # "loading"
    OBVIOUS
  <2> HIDE DEF d, ph
  <2>3. mp'.phase = ph /\ mp'.busy = "" /\ mp'.slotsLoading = mp.slotsLoading
    BY <1>0, <2>1 DEF ManageType
  <2>4. ~Named(mp'.busy)
    BY <1>0, <2>3, Zenon
  <2>5. Remain("manage", {i})
    BY <1>0, <2>1, TakenRemain
  <2>6. mp'.phase # "loading" /\ mp'.slotsLoading = mp.slotsLoading
    BY <2>2, <2>3
  <2> QED BY <2>1, <2>4, <2>5, <2>6, ManageWaitsMoved
<1>3. CASE SlotsReply(i)
  <2> DEFINE v == IF calls[i].res.ok THEN calls[i].res.val ELSE {}
             b == IF calls[i].then = "" THEN mp.busy ELSE ""
  <2>1. calls[i].kind = "slots" /\ calls' = Others(i)
        /\ mp' = [mp EXCEPT !.slots = v, !.slotsLoading = FALSE, !.busy = b]
    BY <1>1, <1>3 DEF SlotsReply
  <2>2. Named(b) => b = mp.busy /\ ~Named(calls[i].then)
    BY DEF Named
  <2> HIDE DEF v, b
  <2>3. mp'.phase = mp.phase /\ mp'.busy = b /\ ~mp'.slotsLoading
    BY <1>0, <2>1 DEF ManageType
  <2>4. Remain("manage", {i})
    BY <1>0, <2>1, TakenRemain
  <2>5. Named(b) => ButtonOf(calls[i]) # b
    BY <2>1, <2>2 DEF ButtonOf
  <2> QED BY <2>1, <2>2, <2>3, <2>4, <2>5, ManageWaitsMoved
<1>4. ASSUME NEW kind \in {"confirm", "cancel", "reschedule", "review"}, MutationReply(i, kind) PROVE ManageWaits'
  <2> DEFINE m == IF kind \in {"cancel", "reschedule"} THEN [mp EXCEPT !.open = ""] ELSE mp
             g == Send("get", Nothing, kind)
             q == Send("slots", calls[i].arg.shown, kind)
  <2>1. calls[i].kind = kind /\ i \in At("manage", calls)
    BY <1>1, <1>4 DEF MutationReply
  <2>2. \/ mp' = m /\ calls' = Append(Others(i), g)
        \/ calls' = Append(Others(i), q) /\ mp' = [mp EXCEPT !.slotsLoading = TRUE, !.pick = NoTime]
        \/ mp' = [mp EXCEPT !.busy = ""] /\ calls' = Others(i)
    BY <1>4, <2>1 DEF MutationReply, Changed, load, loadSlots
  <2>3. Named(mp.busy) => mp.busy = kind
    <3>1. SUFFICES ASSUME Named(mp.busy) PROVE mp.busy = kind
      OBVIOUS
    <3>2. PICK j \in At("manage", calls) : ButtonOf(calls[j]) = mp.busy
      BY <3>1 DEF ManageWaits
    <3>3. IsMain(calls[i])
      BY <2>1 DEF IsMain
    <3>4. IsMain(calls[j])
      <4>1. calls[j].kind \in ManageKinds
        <5>1. CallType(calls[j]) /\ calls[j].from = "manage"
          BY <1>0, <3>2 DEF CallsType, At
        <5> QED BY <5>1 DEF CallType, KindsOf
      <4>2. CASE calls[j].kind = "slots"
        <5>1. calls[j].then # ""
          BY <3>1, <3>2, <4>2 DEF ButtonOf, Named
        <5> QED BY <4>2, <5>1 DEF IsMain
      <4>3. CASE calls[j].kind # "slots"
        BY <4>1, <4>3 DEF ManageKinds, IsMain
      <4> QED BY <4>2, <4>3
    <3>5. i = j
      BY <1>0, <2>1, <3>2, <3>3, <3>4 DEF OneMain
    <3> QED BY <2>1, <3>2, <3>5 DEF ButtonOf
  <2>4. g.from = "manage" /\ g.kind = "get" /\ g.then = kind
        /\ q.from = "manage" /\ q.kind = "slots" /\ q.then = kind
    BY DEF Send, Call
  <2> HIDE DEF g, q
  <2>5. ButtonOf(g) = kind /\ ButtonOf(q) = kind
    BY <2>4 DEF ButtonOf
  <2>6. CASE mp' = m /\ calls' = Append(Others(i), g)
    <3>1. mp'.phase = mp.phase /\ mp'.busy = mp.busy /\ mp'.slotsLoading = mp.slotsLoading
      BY <1>0, <2>6 DEF ManageType
    <3>2. Remain("manage", {i}) /\ Sends("manage", g)
      BY <1>0, <2>4, <2>6, NextRemain
    <3> QED BY <2>1, <2>3, <2>5, <3>1, <3>2, ManageWaitsMoved
  <2>7. CASE calls' = Append(Others(i), q) /\ mp' = [mp EXCEPT !.slotsLoading = TRUE, !.pick = NoTime]
    <3>1. mp'.phase = mp.phase /\ mp'.busy = mp.busy
      BY <1>0, <2>7 DEF ManageType
    <3>2. Remain("manage", {i}) /\ Sends("manage", q)
      BY <1>0, <2>4, <2>7, NextRemain
    <3> QED BY <2>1, <2>3, <2>4, <2>5, <3>1, <3>2, ManageWaitsMoved
  <2>8. CASE mp' = [mp EXCEPT !.busy = ""] /\ calls' = Others(i)
    <3>1. mp'.phase = mp.phase /\ mp'.busy = "" /\ mp'.slotsLoading = mp.slotsLoading
      BY <1>0, <2>8 DEF ManageType
    <3>2. mp'.phase = mp.phase /\ ~Named(mp'.busy) /\ mp'.slotsLoading = mp.slotsLoading
      BY <1>0, <3>1, Zenon
    <3>3. Remain("manage", {i})
      BY <1>0, <2>8, TakenRemain
    <3> QED BY <2>1, <3>2, <3>3, ManageWaitsMoved
  <2> QED BY <2>2, <2>6, <2>7, <2>8
<1> QED BY <1>2, <1>3, <1>4 DEF ManageReply

\* The manage link waits for what is on its way, whatever happens.
LEMMA ManageWaitsStay ==
  ASSUME Types, ManageInv, ManageWaits, [Next]_vars
  PROVE  ManageWaits'
<1>1. CASE PageSteps("manage") /\ Untouched
  BY <1>1, ManageWaitsClicked, ManageWaitsAnswered DEF PageSteps, Untouched
<1>2. CASE Remain("manage", {}) /\ SamePage("manage") /\ limits' = limits
  BY <1>2, ManageWaitsMoved DEF SamePage
<1> QED BY <1>1, <1>2, OtherRemain DEF PageNames

--------------------------------------------------------------------------------

\* The agenda waits for no more than before, or for a request sent.
LEMMA AgendaWaitsMoved ==
  ASSUME AgendaWaits, NEW gone, Remain("agenda", gone),
         ag'.loading => \/ /\ ag.loading /\ Query(ag)' = Query(ag)
                           /\ \A i \in gone : ~Loading(calls[i], Query(ag))
                        \/ \E c : Sends("agenda", c) /\ Loading(c, Query(ag)'),
         ag'.updating # Nothing => \/ /\ ag'.updating = ag.updating
                                      /\ \A i \in gone : ~Updating(calls[i], ag.updating)
                                   \/ \E c : Sends("agenda", c) /\ Updating(c, ag'.updating)
  PROVE  AgendaWaits'
<1>1. ASSUME ag'.loading PROVE \E j \in At("agenda", calls') : Loading(calls'[j], Query(ag)')
  BY <1>1 DEF AgendaWaits, Remain, SameRequest, Sends, Loading
<1>2. ASSUME ag'.updating # Nothing PROVE \E j \in At("agenda", calls') : Updating(calls'[j], ag'.updating)
  BY <1>2 DEF AgendaWaits, Remain, SameRequest, Sends, Updating
<1> QED BY <1>1, <1>2 DEF AgendaWaits, Loading, Updating

\* Its filter and its pager load the list asked for.
LEMMA AgendaWaitsLoad ==
  ASSUME Types, AgendaWaits, limits' = limits, NEW a, SameRows(a), a.loading = ag.loading, a.updating = ag.updating,
         AgendaEffect(a)
  PROVE  AgendaWaits'
<1>0. CallsType
  BY DEF Types
<1>1. CASE Query(a) = Query(ag)
  <2>1. ag' = a /\ UNCHANGED calls
    BY <1>1 DEF AgendaEffect
  <2>2. Query(ag)' = Query(ag)
    BY <1>1, <2>1, QueryIs
  <2> QED BY <2>1, <2>2, SameRemain, AgendaWaitsMoved
<1>2. CASE Query(a) # Query(ag)
  <2> DEFINE c == AgendaCall(Query(a), "effect")
             k == a.crossed \/ ~Quiet("agenda")
  <2>1. ag' = [a EXCEPT !.loading = TRUE, !.error = FALSE, !.crossed = k] /\ calls' = Append(calls, c)
    BY <1>2 DEF AgendaEffect
  <2>2. c.from = "agenda" /\ Loading(c, Query(a))
    BY DEF AgendaCall, Call, Loading
  <2> HIDE DEF c, k
  <2>3. ag'.applied = a.applied /\ ag'.page = a.page /\ ag'.updating = a.updating
    BY <2>1 DEF SameRows
  <2>4. Query(ag)' = Query(a)
    BY <2>3, QueryIs
  <2>5. Remain("agenda", {}) /\ Sends("agenda", c)
    BY <1>0, <2>1, <2>2, SentRemain
  <2> QED BY <2>2, <2>3, <2>4, <2>5, AgendaWaitsMoved
<1> QED BY <1>1, <1>2

\* The clicks on the agenda.
LEMMA AgendaWaitsClicked ==
  ASSUME Types, AgendaWaits, limits' = limits, AgendaClick
  PROVE  AgendaWaits'
<1>0. AgendaType /\ CallsType
  BY DEF Types
<1>1. CASE dismissHint \/ \E f \in DOMAIN limits.filters : ChooseFilter(f)
  <2>1. UNCHANGED calls /\ ((\E f : ag' = [ag EXCEPT !.form = f]) \/ ag' = [ag EXCEPT !.hint = Nothing])
    BY <1>1 DEF dismissHint, ChooseFilter
  <2>2. ag'.loading = ag.loading /\ ag'.updating = ag.updating /\ ag'.applied = ag.applied /\ ag'.page = ag.page
    BY <1>0, <2>1 DEF AgendaType
  <2>3. Query(ag)' = Query(ag)
    BY <2>2, QueryIs
  <2> QED BY <2>1, <2>2, <2>3, SameRemain, AgendaWaitsMoved
<1>2. CASE applyFilter
  <2> DEFINE a == [ag EXCEPT !.applied = ag.form, !.page = 1]
  <2>1. AgendaEffect(a)
    BY <1>2 DEF applyFilter
  <2>2. a.form = ag.form /\ a.applied = ag.form /\ a.loading = ag.loading /\ a.updating = ag.updating
    BY <1>0 DEF AgendaType
  <2>3. SameRows(a)
    <3> DEFINE R == [form : {ag.form}, applied : {ag.form}, page : Nat \ {0}, items : {ag.items},
                     of : {ag.of}, total : Nat, loading : BOOLEAN, error : BOOLEAN,
                     updating : Visit \cup {Nothing}, hint : Visit \cup {Nothing},
                     acked : [Visit -> Nat], crossed : BOOLEAN]
    <3>1. a \in R
      <4>1. ASSUME NEW n \in Nat \ {0} PROVE [ag EXCEPT !.applied = ag.form, !.page = n] \in R
        BY <1>0 DEF AgendaType
      <4>2. 1 \in Nat \ {0}
        OBVIOUS
      <4> HIDE DEF R
      <4> QED BY <4>1, <4>2, Zenon
    <3> HIDE DEF a
    <3> QED BY <2>2, <3>1 DEF SameRows
  <2> HIDE DEF a
  <2> QED BY <2>1, <2>2, <2>3, AgendaWaitsLoad
<1>3. CASE \E by \in {-1, 1} : TurnPage(by)
  <2>1. PICK by \in {-1, 1} : TurnPage(by)
    BY <1>3
  <2> DEFINE a == [ag EXCEPT !.page = @ + by]
  <2>2. AgendaEffect(a) /\ ag.page + by \in 1..totalPages
    BY <2>1 DEF TurnPage
  <2>3. ag.page + by \in Nat \ {0}
    BY <1>0, <2>1, <2>2 DEF AgendaType
  <2>4. SameRows(a) /\ a.loading = ag.loading /\ a.updating = ag.updating
    BY <1>0, <2>3 DEF AgendaType, SameRows
  <2> HIDE DEF a
  <2> QED BY <2>2, <2>4, AgendaWaitsLoad
<1>4. CASE \E n \in DOMAIN ag.items, to \in limits.statuses : updateStatus_Click(ag.items[n], to)
  <2>1. PICK n \in DOMAIN ag.items, to \in limits.statuses : updateStatus_Click(ag.items[n], to)
    BY <1>4
  <2> DEFINE v == ag.items[n].id
             c == Call("agenda", "status", [id |-> v, to |-> to], [query |-> Query(ag), hint |-> ag.hint])
  <2>2. ag' = [ag EXCEPT !.updating = v, !.error = FALSE] /\ calls' = Append(calls, c)
    BY <2>1 DEF updateStatus_Click
  <2>3. c.from = "agenda" /\ Updating(c, v)
    BY DEF Call, Updating
  <2> HIDE DEF v, c
  <2>4. ag'.loading = ag.loading /\ ag'.updating = v /\ ag'.applied = ag.applied /\ ag'.page = ag.page
    BY <1>0, <2>2 DEF AgendaType
  <2>5. Query(ag)' = Query(ag)
    BY <2>4, QueryIs
  <2>6. Remain("agenda", {}) /\ Sends("agenda", c)
    BY <1>0, <2>2, <2>3, SentRemain
  <2> QED BY <2>3, <2>4, <2>5, <2>6, AgendaWaitsMoved
<1> QED BY <1>1, <1>2, <1>3, <1>4 DEF AgendaClick

\* Its answers: a change that was made is loaded before its row is free.
LEMMA AgendaWaitsAnswered ==
  ASSUME Types, AgendaWaits, limits' = limits, NEW i \in DOMAIN calls, StatusReply(i) \/ AgendaReply(i)
  PROVE  AgendaWaits'
<1>0. AgendaType /\ CallsType
  BY DEF Types
<1> DEFINE c == calls[i]
<1>1. CASE StatusReply(i)
  <2> DEFINE h == hintAfter(c)
             k == Acked(c.arg.id, c.res.val.ver)
             g == AgendaCall(c.then.query, "update")
  <2>1. /\ c.kind = "status"
        /\ \/ ag' = [ag EXCEPT !.hint = h, !.error = FALSE, !.acked = k] /\ calls' = Append(Others(i), g)
           \/ ag' = [ag EXCEPT !.error = TRUE, !.updating = Nothing] /\ calls' = Others(i)
    BY <1>1 DEF StatusReply, Answers
  <2>2. g.from = "agenda" /\ \A v : Updating(g, v)
    BY DEF AgendaCall, Call, Updating
  <2> HIDE DEF h, k, g
  <2>3. ag'.loading = ag.loading /\ ag'.applied = ag.applied /\ ag'.page = ag.page
    BY <1>0, <2>1 DEF AgendaType
  <2>4. Query(ag)' = Query(ag) /\ ~Loading(c, Query(ag))
    BY <2>1, <2>3, QueryIs DEF Loading
  <2> HIDE DEF c
  <2>5. CASE ag' = [ag EXCEPT !.hint = h, !.error = FALSE, !.acked = k] /\ calls' = Append(Others(i), g)
    <3>1. Remain("agenda", {i}) /\ Sends("agenda", g)
      BY <1>0, <2>2, <2>5, NextRemain
    <3> QED BY <2>2, <2>3, <2>4, <3>1, AgendaWaitsMoved DEF c
  <2>6. CASE ag' = [ag EXCEPT !.error = TRUE, !.updating = Nothing] /\ calls' = Others(i)
    <3>1. ag'.updating = Nothing
      BY <1>0, <2>6 DEF AgendaType
    <3>2. Remain("agenda", {i})
      BY <1>0, <2>6, TakenRemain
    <3> QED BY <2>3, <2>4, <3>1, <3>2, AgendaWaitsMoved DEF c
  <2> QED BY <2>1, <2>5, <2>6
<1>2. CASE AgendaReply(i)
  <2> DEFINE done == IF c.then = "effect" THEN [ag EXCEPT !.loading = FALSE] ELSE [ag EXCEPT !.updating = Nothing]
  <2>1. /\ c.kind = "agenda" /\ calls' = Others(i)
        /\ \/ ag' = [done EXCEPT !.items = c.res.val.items, !.total = c.res.val.total, !.of = c.arg]
           \/ ag' = [done EXCEPT !.error = TRUE]
    BY <1>2 DEF AgendaReply, Answers
  <2>2. /\ done.applied = ag.applied /\ done.page = ag.page /\ DOMAIN done = DOMAIN ag
        /\ IF c.then = "effect" THEN ~done.loading /\ done.updating = ag.updating
           ELSE done.loading = ag.loading /\ done.updating = Nothing
    BY <1>0 DEF AgendaType
  <2> HIDE DEF done
  <2>3. DOMAIN ag = {"form", "applied", "page", "items", "of", "total", "loading", "error", "updating", "hint",
                     "acked", "crossed"}
    BY <1>0 DEF AgendaType
  <2>4. /\ ag'.applied = done.applied /\ ag'.page = done.page
        /\ ag'.loading = done.loading /\ ag'.updating = done.updating
    BY <2>1, <2>2, <2>3
  <2>5. Query(ag)' = Query(ag)
    BY <2>2, <2>4, QueryIs
  <2>6. Remain("agenda", {i})
    BY <1>0, <2>1, TakenRemain
  <2>7. /\ c.then = "effect" => ~Updating(c, ag.updating)
        /\ c.then # "effect" => ~Loading(c, Query(ag))
    BY <2>1 DEF Updating, Loading
  <2> HIDE DEF c
  <2> QED BY <2>2, <2>4, <2>5, <2>6, <2>7, AgendaWaitsMoved DEF c
<1> QED BY <1>1, <1>2

\* So does the agenda.
LEMMA AgendaWaitsStay ==
  ASSUME Types, AgendaWaits, [Next]_vars
  PROVE  AgendaWaits'
<1>1. CASE PageSteps("agenda") /\ Untouched
  BY <1>1, AgendaWaitsClicked, AgendaWaitsAnswered DEF PageSteps, Untouched
<1>2. CASE Remain("agenda", {}) /\ SamePage("agenda") /\ limits' = limits
  <2>1. ag' = ag /\ Query(ag)' = Query(ag)
    BY <1>2 DEF SamePage, Query
  <2> QED BY <1>2, <2>1, AgendaWaitsMoved
<1> QED BY <1>1, <1>2, OtherRemain DEF PageNames

--------------------------------------------------------------------------------

\* The reviews wait for no more than before, or for a request sent.
LEMMA ReviewWaitsMoved ==
  ASSUME ReviewWaits, NEW gone, Remain("reviews", gone),
         rv'.loading => rv.loading /\ \A i \in gone : calls[i].kind # "reviews",
         rv'.toggling # Nothing => \/ /\ rv'.toggling = rv.toggling
                                      /\ \A i \in gone : ~Toggles(calls[i], rv.toggling)
                                   \/ \E c : Sends("reviews", c) /\ Toggles(c, rv'.toggling)
  PROVE  ReviewWaits'
<1>1. ASSUME rv'.loading PROVE \E j \in At("reviews", calls') : calls'[j].kind = "reviews"
  BY <1>1 DEF ReviewWaits, Remain, SameRequest
<1>2. ASSUME rv'.toggling # Nothing PROVE \E j \in At("reviews", calls') : Toggles(calls'[j], rv'.toggling)
  BY <1>2 DEF ReviewWaits, Remain, SameRequest, Sends, Toggles
<1> QED BY <1>1, <1>2 DEF ReviewWaits, Toggles

\* The reviews wait for what is on its way.
LEMMA ReviewWaitsStay ==
  ASSUME Types, ReviewWaits, [Next]_vars
  PROVE  ReviewWaits'
<1>0. ReviewType /\ CallsType
  BY DEF Types
<1>1. ASSUME NEW v \in DOMAIN rv.list, togglePublished(v) PROVE ReviewWaits'
  <2> DEFINE c == Call("reviews", "publish", [id |-> v, to |-> flipped(rv.list[v])], "")
             k == rv.doubled \/ \E i \in DOMAIN calls : calls[i].kind = "publish" /\ calls[i].arg.id = v
  <2>1. calls' = Append(calls, c) /\ rv' = [rv EXCEPT !.toggling = v, !.doubled = k]
    BY <1>1, Zenon DEF togglePublished
  <2>2. c.from = "reviews" /\ Toggles(c, v)
    BY DEF Call, Toggles
  <2> HIDE DEF c, k
  <2>3. rv'.toggling = v /\ rv'.loading = rv.loading
    BY <1>0, <2>1 DEF ReviewType
  <2>4. Remain("reviews", {}) /\ Sends("reviews", c)
    BY <1>0, <2>1, <2>2, SentRemain
  <2> QED BY <2>2, <2>3, <2>4, ReviewWaitsMoved
<1>2. ASSUME NEW i \in DOMAIN calls, ReviewsReply(i) PROVE ReviewWaits'
  <2> DEFINE l == IF calls[i].res.ok THEN calls[i].res.val ELSE rv.list
  <2>1. rv' = [rv EXCEPT !.loading = FALSE, !.list = l] /\ calls' = Others(i) /\ calls[i].kind = "reviews"
    BY <1>2, Zenon DEF ReviewsReply, Answers
  <2> HIDE DEF l
  <2>2. ~rv'.loading /\ rv'.toggling = rv.toggling /\ ~Toggles(calls[i], rv.toggling)
    BY <1>0, <2>1 DEF ReviewType, Toggles
  <2>3. Remain("reviews", {i})
    BY <1>0, <2>1, TakenRemain
  <2> QED BY <2>2, <2>3, ReviewWaitsMoved
<1>3. ASSUME NEW i \in DOMAIN calls, PublishReply(i) PROVE ReviewWaits'
  <2> DEFINE l == IF calls[i].res.ok THEN [rv.list EXCEPT ![calls[i].arg.id] = flipped(@)] ELSE rv.list
  <2>1. rv' = [rv EXCEPT !.toggling = Nothing, !.list = l] /\ calls' = Others(i) /\ calls[i].kind = "publish"
    BY <1>3, Zenon DEF PublishReply, Answers
  <2> HIDE DEF l
  <2>2. rv'.loading = rv.loading /\ rv'.toggling = Nothing
    BY <1>0, <2>1 DEF ReviewType
  <2>3. Remain("reviews", {i})
    BY <1>0, <2>1, TakenRemain
  <2> QED BY <2>1, <2>2, <2>3, ReviewWaitsMoved
<1>4. CASE PageSteps("reviews") /\ Untouched
  BY <1>1, <1>2, <1>3, <1>4 DEF PageSteps, ReviewClick
<1>5. CASE Remain("reviews", {}) /\ SamePage("reviews")
  BY <1>5, ReviewWaitsMoved DEF SamePage
<1> QED BY <1>4, <1>5, OtherRemain DEF PageNames

--------------------------------------------------------------------------------

\* The clients' page waits for no more than before, or for a request sent.
LEMMA ClientsWaitMoved ==
  ASSUME ClientsWait, NEW gone, Remain("clients", gone),
         cp'.loading => \/ /\ cp.loading /\ ListQuery(cp') = ListQuery(cp)
                           /\ \A i \in gone : ~Listing(calls[i], ListQuery(cp))
                        \/ \E c : Sends("clients", c) /\ Listing(c, ListQuery(cp')),
         cp'.detailLoading => \/ /\ cp.detailLoading /\ cp'.selected \in {cp.selected, Nothing}
                                 /\ \A i \in gone : calls[i].kind # "card"
                              \/ \E c : Sends("clients", c) /\ Opening(c, cp'.selected),
         \A k \in cp'.saving : \/ k \in cp.saving /\ \A i \in gone : calls[i].kind # k
                               \/ \E c : Sends("clients", c) /\ c.kind = k
  PROVE  ClientsWait'
<1>1. ASSUME cp'.loading PROVE \E j \in At("clients", calls') : Listing(calls'[j], ListQuery(cp'))
  BY <1>1 DEF ClientsWait, Remain, SameRequest, Sends, Listing
<1>2. ASSUME cp'.detailLoading PROVE \E j \in At("clients", calls') : Opening(calls'[j], cp'.selected)
  BY <1>2 DEF ClientsWait, Remain, SameRequest, Sends, Opening
<1>3. ASSUME NEW k \in cp'.saving PROVE \E j \in At("clients", calls') : calls'[j].kind = k
  BY <1>3 DEF ClientsWait, Remain, SameRequest, Sends
<1>4. ListQuery(cp)' = ListQuery(cp')
  BY DEF ListQuery
<1> QED BY <1>1, <1>2, <1>3, <1>4 DEF ClientsWait, Listing, Opening

\* Its list: a search loads what it asks for, and the answer ends the loading.
LEMMA ClientsWaitList ==
  ASSUME Types, ClientsWait, UNCHANGED CardPart, ListSteps
  PROVE  ClientsWait'
<1>0. CallsType /\ cp'.selected = cp.selected /\ cp'.detailLoading = cp.detailLoading /\ cp'.saving = cp.saving
  BY DEF Types, CardPart
<1>1. "list" \notin cp.saving /\ "card" \notin cp.saving
  BY DEF Types, ClientsType
<1>2. CASE UNCHANGED <<ListPart, calls>>
  <2>1. ListQuery(cp') = ListQuery(cp) /\ cp'.loading = cp.loading
    BY <1>2 DEF ListPart, ListQuery
  <2> QED BY <1>0, <1>2, <2>1, SameRemain, ClientsWaitMoved
<1>3. CASE Lists
  <2> DEFINE c == ListCall(cp')
  <2>1. calls' = Append(calls, c) /\ c.from = "clients" /\ Listing(c, ListQuery(cp'))
    BY <1>3 DEF Lists, ListCall, Call, Listing
  <2> HIDE DEF c
  <2>2. Remain("clients", {}) /\ Sends("clients", c)
    BY <1>0, <2>1, SentRemain
  <2> QED BY <1>0, <2>1, <2>2, ClientsWaitMoved
<1>4. ASSUME NEW i \in DOMAIN calls, Listed(i) PROVE ClientsWait'
  <2>1. calls[i].kind = "list" /\ calls' = Others(i) /\ ~cp'.loading
    BY <1>4 DEF Listed, Answers
  <2>2. Remain("clients", {i})
    BY <1>0, <2>1, TakenRemain
  <2>3. \A k \in cp'.saving : k \in cp.saving /\ \A j \in {i} : calls[j].kind # k
    BY <1>0, <1>1, <2>1
  <2>4. \A j \in {i} : calls[j].kind # "card"
    BY <2>1
  <2> QED BY <1>0, <2>1, <2>2, <2>3, <2>4, ClientsWaitMoved
<1> QED BY <1>2, <1>3, <1>4 DEF ListSteps

\* Its card: opened, edited and left, and each of its buttons.
LEMMA ClientsWaitCard ==
  ASSUME Types, ClientsWait, UNCHANGED ListPart, CardSteps
  PROVE  ClientsWait'
<1>0. CallsType /\ ListQuery(cp') = ListQuery(cp) /\ cp'.loading = cp.loading
  BY DEF Types, ListPart, ListQuery
<1>1. "card" \notin cp.saving
  BY DEF Types, ClientsType
<1>2. CASE Edits \/ Leaves
  <2>1. UNCHANGED calls /\ cp'.detailLoading = cp.detailLoading /\ cp'.saving = cp.saving
        /\ cp'.selected \in {cp.selected, Nothing}
    BY <1>2 DEF Edits, Leaves, SamePlace
  <2> QED BY <1>0, <2>1, SameRemain, ClientsWaitMoved
<1>3. CASE Opens
  <2>1. PICK x \in Client : cp'.selected = x /\ calls' = Append(calls, Call("clients", "card", x, ""))
    BY <1>3 DEF Opens
  <2> DEFINE c == Call("clients", "card", x, "")
  <2>2. c.from = "clients" /\ Opening(c, x) /\ calls' = Append(calls, c)
    BY <2>1 DEF Call, Opening
  <2> HIDE DEF c
  <2>3. Remain("clients", {}) /\ Sends("clients", c) /\ cp'.saving = cp.saving
    BY <1>0, <1>3, <2>2, SentRemain DEF Opens
  <2> QED BY <1>0, <2>1, <2>2, <2>3, ClientsWaitMoved
<1>4. ASSUME NEW kind \in SaveKinds, Saving(kind) PROVE ClientsWait'
  <2>1. PICK arg : calls' = Append(calls, Call("clients", kind, arg, cp.detail))
    BY <1>4 DEF Saving
  <2> DEFINE c == Call("clients", kind, arg, cp.detail)
  <2>2. c.from = "clients" /\ c.kind = kind /\ calls' = Append(calls, c)
    BY <2>1 DEF Call
  <2> HIDE DEF c
  <2>3. cp'.selected = cp.selected /\ cp'.detailLoading = cp.detailLoading /\ cp'.saving = cp.saving \cup {kind}
    BY <1>4 DEF Saving
  <2>4. Remain("clients", {}) /\ Sends("clients", c)
    BY <1>0, <2>2, SentRemain
  <2>5. \A k \in cp'.saving : k \in cp.saving \/ k = kind
    BY <2>3
  <2> QED BY <1>0, <2>2, <2>3, <2>4, <2>5, ClientsWaitMoved
<1>5. ASSUME NEW i \in DOMAIN calls, Opened(i) PROVE ClientsWait'
  <2>1. calls[i].kind = "card" /\ calls' = Others(i) /\ ~cp'.detailLoading /\ cp'.saving = cp.saving
    BY <1>5 DEF Opened, Answers
  <2>2. Remain("clients", {i})
    BY <1>0, <2>1, TakenRemain
  <2>3. \A k \in cp'.saving : k \in cp.saving /\ \A j \in {i} : calls[j].kind # k
    BY <1>1, <2>1
  <2>4. \A j \in {i} : ~Listing(calls[j], ListQuery(cp))
    BY <2>1 DEF Listing
  <2> QED BY <1>0, <2>1, <2>2, <2>3, <2>4, ClientsWaitMoved
<1>6. ASSUME NEW i \in DOMAIN calls, NEW kind \in SaveKinds, Saved(i, kind) PROVE ClientsWait'
  <2>1. calls[i].kind = kind /\ calls' = Others(i) /\ cp'.detailLoading = cp.detailLoading
        /\ cp'.selected = cp.selected /\ cp'.saving = cp.saving \ {kind}
    BY <1>6 DEF Saved, Answers, SamePlace
  <2>2. Remain("clients", {i})
    BY <1>0, <2>1, TakenRemain
  <2>3. \A k \in cp'.saving : k \in cp.saving /\ \A j \in {i} : calls[j].kind # k
    BY <2>1
  <2>4. \A j \in {i} : ~Listing(calls[j], ListQuery(cp)) /\ calls[j].kind # "card"
    BY <2>1 DEF Listing, SaveKinds
  <2> QED BY <1>0, <2>1, <2>2, <2>3, <2>4, ClientsWaitMoved
<1> QED BY <1>2, <1>3, <1>4, <1>5, <1>6 DEF CardSteps

\* The clients' page waits for what is on its way.
LEMMA ClientsWaitStay ==
  ASSUME Types, ClientsWait, [Next]_vars
  PROVE  ClientsWait'
<1>1. CASE PageSteps("clients") /\ Untouched
  BY <1>1, ClientsSteps, ClientsWaitList, ClientsWaitCard
<1>2. CASE Remain("clients", {}) /\ SamePage("clients")
  BY <1>2, ClientsWaitMoved DEF SamePage
<1> QED BY <1>1, <1>2, OtherRemain DEF PageNames

--------------------------------------------------------------------------------

\* The settings wait for no more than before, or for a request sent.
LEMMA SettingsWaitMoved ==
  ASSUME SettingsWait, NEW gone, Remain("settings", gone),
         sp'.loading => sp.loading /\ \A i \in gone : calls[i].kind # "settings",
         \A f \in sp'.saving : \/ f \in sp.saving /\ \A i \in gone : ~SavingForm(calls[i], f)
                               \/ \E c : Sends("settings", c) /\ SavingForm(c, f)
  PROVE  SettingsWait'
<1>1. ASSUME sp'.loading PROVE \E j \in At("settings", calls') : calls'[j].kind = "settings"
  BY <1>1 DEF SettingsWait, Remain, SameRequest
<1>2. ASSUME NEW f \in sp'.saving PROVE \E j \in At("settings", calls') : SavingForm(calls'[j], f)
  BY <1>2 DEF SettingsWait, Remain, SameRequest, Sends, SavingForm
<1> QED BY <1>1, <1>2 DEF SettingsWait, SavingForm

\* The settings wait for what is on its way.
LEMMA SettingsWaitStay ==
  ASSUME Types, SettingsWait, [Next]_vars
  PROVE  SettingsWait'
<1>0. SettingsType /\ CallsType
  BY DEF Types
<1>1. ASSUME NEW f \in Forms, NEW x, Type(f, x) PROVE SettingsWait'
  <2> DEFINE g == [sp.form EXCEPT ![f] = x]
  <2>1. sp' = [sp EXCEPT !.form = g, !.typed = @ \cup {f}] /\ UNCHANGED calls
    BY <1>1 DEF Type
  <2> HIDE DEF g
  <2>2. sp'.loading = sp.loading /\ sp'.saving = sp.saving
    BY <1>0, <2>1 DEF SettingsType
  <2> QED BY <2>1, <2>2, SameRemain, SettingsWaitMoved
<1>2. ASSUME NEW f \in Forms, SaveForm(f) PROVE SettingsWait'
  <2> DEFINE a == [form |-> f, value |-> sentAs(f, sp.form[f]),
                   skipped |-> tooShort(f, sp.form[f]), refused |-> outOfRange(f, sp.form[f])]
             c == Call("settings", "save", a, "")
  <2>1. sp' = [sp EXCEPT !.saving = @ \cup {f}, !.errors = @ \ {f}] /\ calls' = Append(calls, c)
    BY <1>2, Zenon DEF SaveForm
  <2>2. c.from = "settings" /\ SavingForm(c, f)
    <3>1. a.form = f
      OBVIOUS
    <3> HIDE DEF a
    <3> QED BY <3>1 DEF Call, SavingForm
  <2> HIDE DEF a, c
  <2>3. sp'.loading = sp.loading /\ \A h \in sp'.saving : h \in sp.saving \/ h = f
    BY <1>0, <2>1 DEF SettingsType
  <2>4. Remain("settings", {}) /\ Sends("settings", c)
    BY <1>0, <2>1, <2>2, SentRemain
  <2> QED BY <2>2, <2>3, <2>4, SettingsWaitMoved
<1>3. ASSUME NEW i \in DOMAIN calls, SettingsReply(i) PROVE SettingsWait'
  <2>1. calls[i].kind = "settings" /\ calls' = Others(i)
    BY <1>3 DEF SettingsReply, Answers
  <2>2. ~sp'.loading /\ sp'.saving = sp.saving
    BY <1>0, <1>3 DEF SettingsReply, SettingsType, applySettings
  <2>3. Remain("settings", {i})
    BY <1>0, <2>1, TakenRemain
  <2> QED BY <2>1, <2>2, <2>3, SettingsWaitMoved DEF SavingForm
<1>4. ASSUME NEW i \in DOMAIN calls, SaveFormReply(i) PROVE SettingsWait'
  <2>1. calls[i].kind = "save" /\ calls' = Others(i)
    BY <1>4 DEF SaveFormReply, Answers
  <2>2. sp'.loading = sp.loading /\ sp'.saving = sp.saving \ {calls[i].arg.form}
    BY <1>0, <1>4 DEF SaveFormReply, SettingsType, applySettings
  <2>3. Remain("settings", {i})
    BY <1>0, <2>1, TakenRemain
  <2> QED BY <2>1, <2>2, <2>3, SettingsWaitMoved DEF SavingForm
<1>5. CASE PageSteps("settings") /\ Untouched
  BY <1>1, <1>2, <1>3, <1>4, <1>5 DEF PageSteps, SettingsClicks, SettingsPageReply
<1>6. CASE Remain("settings", {}) /\ SamePage("settings")
  BY <1>6, SettingsWaitMoved DEF SamePage
<1> QED BY <1>5, <1>6, OtherRemain DEF PageNames

--------------------------------------------------------------------------------

\* Each open page starts with the request for what it shows,
LEMMA WaitsStart ==
  ASSUME Init
  PROVE  Waits
<1>1. /\ \A i \in DOMAIN calls : StartCall(calls[i])
      /\ \A page \in PageNames : isOpen(page) => \E i \in DOMAIN calls : calls[i].from = page
  BY StartCalls DEF Starts
<1>2. ASSUME NEW page \in PageNames, isOpen(page)
      PROVE  \E i \in At(page, calls) : StartCall(calls[i]) /\ calls[i].from = page
  BY <1>1, <1>2 DEF At
<1>3. ASSUME NEW c, StartCall(c)
      PROVE  /\ c.from = "manage" => c.kind = "get"
             /\ c.from = "agenda" => Loading(c, [q |-> limits.filters[1], page |-> 1])
             /\ c.from = "reviews" => c.kind = "reviews"
             /\ c.from = "clients" => Listing(c, [q |-> NoFilter, page |-> 1])
             /\ c.from = "settings" => c.kind = "settings"
  <2>1. CallType(c) /\ c.kind \in {"get", "agenda", "reviews", "list", "settings"}
    BY <1>3 DEF StartCall
  <2>2. c.from \in PageNames /\ c.kind \in KindsOf[c.from]
    BY <2>1 DEF CallType
  <2>3. /\ c.from = "manage" => c.kind = "get"
        /\ c.from = "agenda" => c.kind = "agenda"
        /\ c.from = "reviews" => c.kind = "reviews"
        /\ c.from = "clients" => c.kind = "list"
        /\ c.from = "settings" => c.kind = "settings"
    BY <2>1, <2>2 DEF PageNames, KindsOf, ManageKinds, AgendaKinds, ReviewKinds, ClientKinds, SettingsKinds
  <2> QED BY <1>3, <2>3 DEF StartCall, Loading, Listing
<1>4. "manage" \in PageNames /\ "agenda" \in PageNames /\ "reviews" \in PageNames /\ "clients" \in PageNames
      /\ "settings" \in PageNames
  BY DEF PageNames
<1>5. ManageWaits
  <2>1. ~Named(mp.busy) /\ ~mp.slotsLoading
    <3>1. mp.busy = "" /\ ~mp.slotsLoading
      BY Zenon DEF Init, ManageInit
    <3> QED BY <3>1, Zenon DEF Named
  <2> QED BY <1>2, <1>3, <1>4, <2>1 DEF ManageWaits
<1>6. AgendaWaits
  <2>1. ag.loading = isOpen("agenda") /\ ag.updating = Nothing /\ ag.applied = 1 /\ ag.page = 1
    BY DEF Init, AgendaInit
  <2>2. Query(ag) = [q |-> limits.filters[1], page |-> 1]
    BY <2>1 DEF Query
  <2> QED BY <1>2, <1>3, <1>4, <2>1, <2>2 DEF AgendaWaits
<1>7. ReviewWaits
  <2>1. rv.loading = isOpen("reviews") /\ rv.toggling = Nothing
    BY DEF Init, AgendaInit
  <2> QED BY <1>2, <1>3, <1>4, <2>1 DEF ReviewWaits
<1>8. ClientsWait
  <2>1. cp.loading = isOpen("clients") /\ ~cp.detailLoading /\ cp.saving = {}
        /\ ListQuery(cp) = [q |-> NoFilter, page |-> 1]
    BY DEF Init, ClientsInit, ListQuery
  <2> QED BY <1>2, <1>3, <1>4, <2>1 DEF ClientsWait
<1>9. SettingsWait
  <2>1. sp.loading = isOpen("settings") /\ sp.saving = {}
    BY DEF Init, SettingsInit
  <2> QED BY <1>2, <1>3, <1>4, <2>1 DEF SettingsWait
<1> QED BY <1>5, <1>6, <1>7, <1>8, <1>9 DEF Waits

\* and from then on waits only for what is on its way.
LEMMA WaitsKept == Spec => [](Types /\ ManageInv /\ Waits)
<1>1. Init => Types /\ ManageInv /\ Waits
  BY TypesInit, ManageStarts, WaitsStart
<1>2. (Types /\ ManageInv /\ Waits) /\ [Next]_vars => (Types /\ ManageInv /\ Waits)'
  <2>1. SUFFICES ASSUME Types, ManageInv, Waits, [Next]_vars PROVE Types' /\ ManageInv' /\ Waits'
    OBVIOUS
  <2>2. Types' /\ ManageInv'
    BY <2>1, TypesStay, ManageStays
  <2>3. ManageWaits' /\ AgendaWaits' /\ ReviewWaits' /\ ClientsWait' /\ SettingsWait'
    BY <2>1, ManageWaitsStay, AgendaWaitsStay, ReviewWaitsStay, ClientsWaitStay, SettingsWaitStay DEF Waits
  <2> QED BY <2>2, <2>3 DEF Waits
<1> QED BY <1>1, <1>2, PTL DEF Spec

\* A spinner turns and a button is busy only while a request about just that is on its
\* way, whatever is clicked, lost or overtaken meanwhile (agendamento page.tsx:148-290,
\* appointments page.tsx:256-325, reviews page.tsx:20-52, clients page.tsx:97-220,
\* settings page.tsx:57-163).
THEOREM BusyPagesAwait == Spec => []BusyAwaits
<1>1. Waits => BusyAwaits
  <2>1. SUFFICES ASSUME Waits PROVE BusyAwaits
    OBVIOUS
  <2>2. ASSUME NEW page, NEW i \in At(page, calls) PROVE i \in DOMAIN calls /\ calls[i].from = page
    BY <2>2 DEF At
  <2>3. (isOpen("manage") /\ mp.phase = "loading" => inFlight("get")) /\ (mp.slotsLoading => inFlight("slots"))
    BY <2>1, <2>2 DEF Waits, ManageWaits, inFlight
  <2>4. Named(mp.busy) => \E i \in DOMAIN calls : calls[i].from = "manage" /\ mp.busy = ButtonOf(calls[i])
    BY <2>1, <2>2 DEF Waits, ManageWaits
  <2>5. mp.busy # "" => \E i \in DOMAIN calls :
          /\ calls[i].from = "manage"
          /\ mp.busy = IF calls[i].kind \in {"get", "slots"} THEN calls[i].then ELSE calls[i].kind
    BY <2>4, Zenon DEF Named, ButtonOf
  <2>6. /\ ag.loading => \E i \in DOMAIN calls :
             calls[i].kind = "agenda" /\ calls[i].then = "effect" /\ calls[i].arg = Query(ag)
        /\ ag.updating # Nothing => \E i \in DOMAIN calls :
             \/ calls[i].kind = "status" /\ calls[i].arg.id = ag.updating
             \/ calls[i].kind = "agenda" /\ calls[i].then = "update"
    BY <2>1, <2>2 DEF Waits, AgendaWaits, Loading, Updating
  <2>7. /\ rv.loading => inFlight("reviews")
        /\ rv.toggling # Nothing => \E i \in DOMAIN calls :
             calls[i].kind = "publish" /\ calls[i].arg.id = rv.toggling
    BY <2>1, <2>2 DEF Waits, ReviewWaits, Toggles, inFlight
  <2>8. /\ cp.loading => \E i \in DOMAIN calls : calls[i].kind = "list" /\ calls[i].arg = ListQuery(cp)
        /\ cp.detailLoading => \E i \in DOMAIN calls :
             calls[i].kind = "card" /\ cp.selected \in {calls[i].arg, Nothing}
        /\ \A k \in cp.saving : inFlight(k)
    BY <2>1, <2>2 DEF Waits, ClientsWait, Listing, Opening, inFlight
  <2>9. /\ sp.loading => inFlight("settings")
        /\ \A f \in sp.saving : \E i \in DOMAIN calls : calls[i].kind = "save" /\ calls[i].arg.form = f
    BY <2>1, <2>2 DEF Waits, SettingsWait, SavingForm, inFlight
  <2> QED BY <2>3, <2>5, <2>6, <2>7, <2>8, <2>9, Zenon DEF BusyAwaits
<1> QED BY <1>1, WaitsKept, PTL
==============================================================================
