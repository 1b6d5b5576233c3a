------------------------- MODULE KineticBlobProofs -------------------------
(***************************************************************************)
(* Safety of KineticBlob for any operations, drives, sizes of pages and    *)
(* windows, and failures.                                                  *)
(***************************************************************************)
EXTENDS KineticBlob, FiniteSetTheorems, SequenceTheorems, WellFoundedInduction, TLAPS

-----------------------------------------------------------------------------
(* What an operation knows of its calls. *)

Place(x, n) == <<calls[x][n].drive, calls[x][n].key>>
Silent(x, n) == calls[x][n].out = "none"

(* The PUT of an upload come first, then the DELETE of its Abort. *)
Puts(u) == IF verdict[u] = "aborted" THEN Len(plan[u]) ELSE Len(calls[u])
KindOf(x, n) ==
    IF x \in Downloads THEN "get"
    ELSE IF x \in Uploads /\ n <= Puts(x) THEN "put" ELSE "delete"

(* An upload: where it is tells how many PUT it has sent, to one drive, the *)
(* manifest last; what an Abort deletes is what was put.                    *)
UploadInv(u) ==
    /\ target[u] # {}
    /\ step[u] \in {"init", "list"} => calls[u] = <<>> /\ blocks[u] = 0 /\ meta[u] = 0
    /\ step[u] \notin {"init", "list"} => \E d \in Drives : target[u] = {d}
    /\ step[u] \in {"init", "list", "prepared", "commit", "wait"} =>
          plan[u] = <<>> /\ waited[u] = 0 /\ verdict[u] = "none"
    /\ step[u] = "prepared" => Len(calls[u]) = blocks[u] /\ blocks[u] <= MaxBlocks /\ meta[u] = 0
    /\ step[u] = "commit" => Len(calls[u]) = blocks[u] + meta[u]
    /\ step[u] = "roll" => verdict[u] = "aborted"
    /\ step[u] = "done" /\ verdict[u] = "aborted" => waited[u] = Len(plan[u])
    /\ verdict[u] = "aborted" =>
          /\ Len(plan[u]) <= Len(calls[u]) /\ Len(calls[u]) <= 2 * Len(plan[u])
          /\ \A n \in 1 .. Len(plan[u]) : plan[u][n] = Place(u, n)
          /\ \A n \in 1 .. Len(calls[u]) :
                n > Len(plan[u]) => plan[u][n - Len(plan[u])] = Place(u, n)
    /\ \A n \in 1 .. Len(calls[u]) :
          n <= Puts(u) =>
             /\ calls[u][n].drive \in target[u]
             /\ calls[u][n].key = Manifest => n = Len(calls[u]) /\ step[u] \in {"wait", "done"}

(* A download or a removal: its calls follow its plan. *)
ListerInv(x) ==
    /\ step[x] \in {"init", "list"} => calls[x] = <<>> /\ plan[x] = <<>> /\ waited[x] = 0
    /\ Len(calls[x]) <= Len(plan[x])
    /\ \A n \in 1 .. Len(calls[x]) : Place(x, n) = plan[x][n]
    /\ step[x] = "done" /\ (x \in Downloads \/ verdict[x] = "ok") => waited[x] = Len(plan[x])

(* What was waited for has its outcome. *)
AnswerInv(x) ==
    /\ Earlier(x) + waited[x] <= Len(calls[x])
    /\ \A i \in 1 .. waited[x] : ~Silent(x, Earlier(x) + i)

CallInv ==
    /\ \A u \in Uploads : UploadInv(u)
    /\ \A x \in Listers : ListerInv(x)
    /\ \A x \in Ops : AnswerInv(x)

-----------------------------------------------------------------------------
(* What the requests on their way have to do with the calls. *)

(* A request is that of a call, or asks for the page its operation waits for. *)
PageRequest(d, r) ==
    /\ step[r.op] = "list" /\ d \in ready[r.op] /\ page[r.op][d].st = "asked"
    /\ r.op \in Uploads => r.kind = "check" /\ r.key = Manifest
    /\ r.op \notin Uploads => r.kind = "list" /\ r.key = marker[r.op][d]

CallRequest(d, r) ==
    /\ r.n \in 1 .. Len(calls[r.op])
    /\ calls[r.op][r.n].drive = d /\ calls[r.op][r.n].key = r.key
    /\ r.kind = KindOf(r.op, r.n)
    /\ r.kind = "put" => r.val = <<r.op, r.n>>
    /\ r.kind # "put" => r.val = Nothing

RequestInv ==
    \A d \in Drives : \A i \in 1 .. Len(inbox[d]) :
        /\ inbox[d][i].n = 0 => PageRequest(d, inbox[d][i])
        /\ inbox[d][i].n # 0 => CallRequest(d, inbox[d][i])

(* A drive has those of an operation in the order they were sent. *)
OrderInv ==
    \A d \in Drives : \A i, j \in 1 .. Len(inbox[d]) :
        i < j /\ inbox[d][i].op = inbox[d][j].op => inbox[d][i].n < inbox[d][j].n

(* A call without outcome is on its way; one on its way has none, unless an *)
(* RPC of its operation failed; and then the outcomes of a drive come in    *)
(* order.                                                                   *)
SilentInv ==
    \A x \in Ops : \A n \in 1 .. Len(calls[x]) :
        Silent(x, n) =>
            \E i \in 1 .. Len(inbox[calls[x][n].drive]) :
                inbox[calls[x][n].drive][i].op = x /\ inbox[calls[x][n].drive][i].n = n

SentInv ==
    \A d \in Drives : \A i \in 1 .. Len(inbox[d]) :
        inbox[d][i].n # 0 /\ ~troubled[inbox[d][i].op] => Silent(inbox[d][i].op, inbox[d][i].n)

FifoInv ==
    \A x \in Ops : ~troubled[x] => \A m, n \in 1 .. Len(calls[x]) :
        m < n /\ calls[x][m].drive = calls[x][n].drive /\ Silent(x, m) => Silent(x, n)

(* A value is that of a PUT that was served, unless an RPC failed. *)
StoreInv ==
    \A d \in Drives : \A k \in Keys :
        store[d][k] # Nothing =>
            LET u == store[d][k][1]
                n == store[d][k][2]
            IN  /\ n <= Len(calls[u]) /\ n <= Puts(u) /\ Place(u, n) = <<d, k>>
                /\ ~troubled[u] => ~Silent(u, n)

(* Once an upload has deleted a key, it has nothing there. *)
GoneInv ==
    \A u \in Uploads : \A n \in 1 .. Len(calls[u]) :
        ~troubled[u] /\ n > Puts(u) /\ ~Silent(u, n) =>
            LET v == store[calls[u][n].drive][calls[u][n].key]
            IN  v # Nothing => v[1] # u

WireInv ==
    RequestInv /\ OrderInv /\ SilentInv /\ SentInv /\ FifoInv /\ StoreInv /\ GoneInv

DeliveryInv == TypeOK /\ CallInv /\ WireInv

-----------------------------------------------------------------------------
(* What a listing knows of the drives. *)

Increasing(keys) == \A i, j \in 1 .. Len(keys) : i < j => keys[i] < keys[j]

Distinct(list) == \A i, j \in 1 .. Len(list) : i # j => list[i] # list[j]
Has(list, p) == \E i \in 1 .. Len(list) : list[i] = p

(* What did not change is still there. *)
SteadyInv(x) == \A p \in steady[x] : store[p[1]][p[2]] # Nothing

(* A page holds the keys after the marker, and misses none of those that    *)
(* stay before its last one.                                                *)
PageInv(x, d) ==
    LET keys == page[x][d].keys
    IN  /\ page[x][d].st # "ok" => keys = <<>>
        /\ page[x][d].st = "error" => troubled[x]
        /\ page[x][d].st # "none" => d \in ready[x] /\ step[x] = "list"
        /\ Increasing(keys)
        /\ \A i \in 1 .. Len(keys) : keys[i] > marker[x][d]
        /\ page[x][d].st = "ok" =>
              \A k \in Keys : <<d, k>> \in steady[x] /\ k > marker[x][d] =>
                 \/ \E i \in 1 .. Len(keys) : keys[i] = k
                 \/ keys # <<>> /\ k > keys[Len(keys)]

(* What stays is listed, or is still to come; nothing is listed twice. *)
ItemsInv(x) ==
    step[x] = "list" =>
        /\ Distinct(items[x])
        /\ \A i \in 1 .. Len(items[x]) : items[x][i][2] <= marker[x][items[x][i][1]]
        /\ ~troubled[x] =>
              \A p \in steady[x] :
                 Has(items[x], p) \/ (p[1] \in ready[x] /\ p[2] > marker[x][p[1]])

(* So it is in the plan of the operation, once. *)
PlanInv(x) ==
    /\ Distinct(plan[x])
    /\ step[x] \notin {"init", "list"} /\ ~troubled[x] =>
          \A p \in steady[x] : x \in Removals \/ p[2] # Manifest => Has(plan[x], p)
    /\ x \in Downloads =>
          \A m, n \in 1 .. Len(plan[x]) :
             m < n => NumberOf(plan[x][m][2]) <= NumberOf(plan[x][n][2])

(* What was deleted does not stay; what was fetched and stays is what was   *)
(* there; and a download hands it over.                                     *)
OutcomeInv(x) ==
    ~troubled[x] => \A n \in 1 .. Len(calls[x]) :
        ~Silent(x, n) /\ Place(x, n) \in steady[x] =>
            x \in Downloads /\ calls[x][n].val = store[calls[x][n].drive][calls[x][n].key]

GotInv(x) ==
    x \in Downloads =>
        /\ Len(got[x]) = waited[x]
        /\ \A n \in 1 .. waited[x] : got[x][n] = calls[x][n].val

Knows(x) ==
    /\ SteadyInv(x) /\ \A d \in Drives : PageInv(x, d)
    /\ ItemsInv(x) /\ PlanInv(x) /\ OutcomeInv(x) /\ GotInv(x)

ListingInv == \A x \in Listers : Knows(x)

IInv == DeliveryInv /\ ListingInv

(* No page is asked for. *)
Quiet(x) ==
    \A d \in Drives : \A i \in 1 .. Len(inbox[d]) : inbox[d][i].op = x => inbox[d][i].n # 0

-----------------------------------------------------------------------------
(* Finite sets in order, and sequences of sequences. *)

(* Sorted: in a strict total order, the number of smaller elements tells    *)
(* the elements of a finite set apart and takes every value.                *)
LEMMA Ranking ==
    ASSUME NEW S, IsFiniteSet(S), NEW R,
           \A j \in S : <<j, j>> \notin R,
           \A i, j, k \in S : <<i, j>> \in R /\ <<j, k>> \in R => <<i, k>> \in R,
           \A j, k \in S : j = k \/ <<j, k>> \in R \/ <<k, j>> \in R
    PROVE  LET Rank(k) == Cardinality({j \in S : <<j, k>> \in R})
           IN  /\ \A k \in S : Rank(k) \in 0 .. Cardinality(S) - 1
               /\ \A j, k \in S : <<j, k>> \in R => Rank(j) < Rank(k)
               /\ \A n \in 1 .. Cardinality(S) : \E k \in S : Rank(k) = n - 1
<1> DEFINE Below(k) == {j \in S : <<j, k>> \in R}
           Rank(k) == Cardinality(Below(k))
           f == [k \in S |-> Rank(k)]
           T == 0 .. Cardinality(S) - 1
<1>1. Cardinality(S) \in Nat
  BY FS_CardinalityType
<1>2. \A k \in S : IsFiniteSet(Below(k)) /\ Rank(k) \in Nat
  BY FS_Subset, FS_CardinalityType
<1>3. \A k \in S : Rank(k) < Cardinality(S)
  <2>1. SUFFICES ASSUME NEW k \in S
                 PROVE  Rank(k) < Cardinality(S)
    OBVIOUS
  <2>2. Below(k) \in SUBSET S /\ Below(k) # S
    OBVIOUS
  <2>3. Rank(k) <= Cardinality(S) /\ (Cardinality(S) = Rank(k) => S = Below(k))
    BY <2>2, FS_Subset
  <2> QED
    BY <1>1, <1>2, <2>2, <2>3
<1>4. \A j, k \in S : <<j, k>> \in R => Rank(j) < Rank(k)
  <2>1. SUFFICES ASSUME NEW j \in S, NEW k \in S, <<j, k>> \in R
                 PROVE  Rank(j) < Rank(k)
    OBVIOUS
  <2>2. Below(j) \in SUBSET Below(k) /\ Below(j) # Below(k)
    BY <2>1
  <2>3. Rank(j) <= Rank(k) /\ (Rank(k) = Rank(j) => Below(k) = Below(j))
    BY <1>2, <2>2, FS_Subset
  <2> QED
    BY <1>2, <2>2, <2>3
<1>5. IsFiniteSet(T) /\ Cardinality(T) = Cardinality(S)
  <2>1. /\ IsFiniteSet(0 .. Cardinality(S) - 1)
        /\ Cardinality(0 .. Cardinality(S) - 1)
              = IF 0 > Cardinality(S) - 1 THEN 0 ELSE (Cardinality(S) - 1) - 0 + 1
    <3>1. 0 \in Int /\ Cardinality(S) - 1 \in Int
      BY <1>1
    <3> HIDE DEF T
    <3> QED
      BY <3>1, FS_Interval
  <2> QED
    BY <1>1, <2>1
<1> HIDE DEF Below
<1>6. \A k \in S : Rank(k) \in T
  BY <1>1, <1>2, <1>3
<1>7. f \in Injection(S, T)
  <2>1. f \in [S -> T]
    BY <1>6
  <2>2. ASSUME NEW j \in S, NEW k \in S, f[j] = f[k], j # k
        PROVE  FALSE
    <3>1. Rank(j) = Rank(k) /\ Rank(j) \in Nat /\ Rank(k) \in Nat
      BY <1>2, <2>2
    <3>2. <<j, k>> \in R \/ <<k, j>> \in R
      BY <2>2
    <3>3. Rank(j) < Rank(k) \/ Rank(k) < Rank(j)
      BY <1>4, <3>2
    <3> QED
      BY <3>1, <3>3
  <2> QED
    BY <2>1, <2>2 DEF Injection, IsInjective
<1>8. f \in Surjection(S, T)
  BY <1>5, <1>7, FS_Injection
<1>9. \A n \in 1 .. Cardinality(S) : \E k \in S : Rank(k) = n - 1
  <2>1. \A n \in 1 .. Cardinality(S) : n - 1 \in T
    BY <1>1
  <2> QED
    BY <1>8, <2>1 DEF Surjection
<1> QED
  BY <1>4, <1>6, <1>9 DEF Below

(* s goes through the numbers of S, upwards. *)
RunsThrough(s, S) ==
    /\ \A m, n \in 1 .. Cardinality(S) : m < n => s[m] < s[n]
    /\ \A k \in S : \E n \in 1 .. Cardinality(S) : s[n] = k

(* A set of numbers, sorted. *)
LEMMA SortedNumbers ==
    ASSUME NEW S \in SUBSET Nat, IsFiniteSet(S),
           NEW s, s = [n \in 1 .. Cardinality(S) |->
                          CHOOSE k \in S : Cardinality({j \in S : j < k}) = n - 1]
    PROVE  s \in [1 .. Cardinality(S) -> S] /\ Cardinality(S) \in Nat /\ RunsThrough(s, S)
<1> DEFINE R == {p \in S \X S : p[1] < p[2]}
           Rank(k) == Cardinality({j \in S : <<j, k>> \in R})
<1>1. Cardinality(S) \in Nat
  BY FS_CardinalityType
<1>2. /\ \A k \in S : Rank(k) \in 0 .. Cardinality(S) - 1
      /\ \A j, k \in S : <<j, k>> \in R => Rank(j) < Rank(k)
      /\ \A n \in 1 .. Cardinality(S) : \E k \in S : Rank(k) = n - 1
  <2>1. \A j \in S : <<j, j>> \notin R
    OBVIOUS
  <2>2. \A i, j, k \in S : <<i, j>> \in R /\ <<j, k>> \in R => <<i, k>> \in R
    OBVIOUS
  <2>3. \A j, k \in S : j = k \/ <<j, k>> \in R \/ <<k, j>> \in R
    OBVIOUS
  <2> HIDE DEF R
  <2> QED
    BY ZenonT(40), <2>1, <2>2, <2>3, Ranking
<1>3. \A k \in S : Rank(k) = Cardinality({j \in S : j < k})
  <2> SUFFICES ASSUME NEW k \in S
               PROVE  {j \in S : <<j, k>> \in R} = {j \in S : j < k}
    OBVIOUS
  <2> QED
    OBVIOUS
<1>4. \A n \in 1 .. Cardinality(S) : s[n] \in S /\ Rank(s[n]) = n - 1
  <2> SUFFICES ASSUME NEW n \in 1 .. Cardinality(S)
               PROVE  s[n] \in S /\ Rank(s[n]) = n - 1
    OBVIOUS
  <2>1. s[n] = CHOOSE k \in S : Cardinality({j \in S : j < k}) = n - 1
    OBVIOUS
  <2>2. \E k \in S : Cardinality({j \in S : j < k}) = n - 1
    BY <1>2, <1>3
  <2>3. s[n] \in S /\ Cardinality({j \in S : j < s[n]}) = n - 1
    BY <2>1, <2>2
  <2> QED
    BY <1>3, <2>3
<1>5. s \in [1 .. Cardinality(S) -> S]
  BY <1>4
<1>6. \A j, k \in S : j < k => <<j, k>> \in R
  OBVIOUS
<1>11. \A k \in S : Rank(k) \in Nat /\ Rank(k) < Cardinality(S)
  BY <1>1, <1>2
<1>12. \A j, k \in S : j < k => Rank(j) < Rank(k)
  BY <1>2, <1>6
<1> HIDE DEF R, Rank
<1>7. \A j, k \in S : Rank(j) = Rank(k) => j = k
  <2> SUFFICES ASSUME NEW j \in S, NEW k \in S, Rank(j) = Rank(k)
               PROVE  j = k
    OBVIOUS
  <2>1. j \in Nat /\ k \in Nat
    OBVIOUS
  <2> QED
    BY <1>11, <1>12, <2>1
<1>13. \A j, k \in S : ~(j < k) => Rank(k) <= Rank(j)
  <2> SUFFICES ASSUME NEW j \in S, NEW k \in S, ~(j < k)
               PROVE  Rank(k) <= Rank(j)
    OBVIOUS
  <2>1. k < j \/ j = k
    <3> j \in Nat /\ k \in Nat
      OBVIOUS
    <3> QED
      OBVIOUS
  <2> QED
    BY <1>11, <1>12, <2>1
<1>8. \A m, n \in 1 .. Cardinality(S) : m < n => s[m] < s[n]
  <2>1. SUFFICES ASSUME NEW m \in 1 .. Cardinality(S), NEW n \in 1 .. Cardinality(S), m < n,
                        ~(s[m] < s[n])
                 PROVE  FALSE
    OBVIOUS
  <2>2. s[m] \in S /\ s[n] \in S
    BY <1>4
  <2>4. Rank(s[n]) <= Rank(s[m])
    BY <1>13, <2>1, <2>2
  <2>5. m \in Nat /\ n \in Nat
    BY <1>1
  <2>6. Rank(s[n]) = n - 1 /\ Rank(s[m]) = m - 1
    BY <1>4
  <2> QED
    BY <2>1, <2>4, <2>5, <2>6
<1>9. \A k \in S : \E n \in 1 .. Cardinality(S) : s[n] = k
  <2> SUFFICES ASSUME NEW k \in S
               PROVE  \E n \in 1 .. Cardinality(S) : s[n] = k
    OBVIOUS
  <2>1. Rank(k) + 1 \in 1 .. Cardinality(S)
    BY <1>1, <1>11
  <2>2. Rank(s[Rank(k) + 1]) = (Rank(k) + 1) - 1
    BY <1>4, <2>1
  <2>3. Rank(s[Rank(k) + 1]) = Rank(k)
    BY <1>11, <2>2
  <2> QED
    BY <1>4, <1>7, <2>1, <2>3
<1> QED
  BY <1>1, <1>5, <1>8, <1>9 DEF RunsThrough
-----------------------------------------------------------------------------
(* A set of numbers that is not empty has a least element. *)
LEMMA NatMin ==
    ASSUME NEW T \in SUBSET Nat, T # {}
    PROVE  \E n \in T : \A m \in T : n <= m
<1>1. PICK x \in T : \A y \in T : ~(<<y, x>> \in OpToRel(<, Nat))
  BY NatLessThanWellFounded, WFMin
<1>2. ASSUME NEW y \in T
      PROVE  x <= y
  <2>1. x \in Nat /\ y \in Nat
    OBVIOUS
  <2>2. ~(<<y, x>> \in {p \in Nat \X Nat : p[1] < p[2]})
    BY <1>1 DEF OpToRel
  <2> QED
    BY <2>1, <2>2
<1> QED
  BY <1>2

(* The recursive function of FlattenSeq exists. *)
Joined(f, ss, n) ==
    f = [i \in 1 .. n |-> IF i = 1 THEN ss[i] ELSE f[i - 1] \o ss[i]]

(* That recursive function exists. *)
LEMMA JoinedExists ==
    ASSUME NEW ss, NEW n \in Nat
    PROVE  \E f : Joined(f, ss, n)
<1> DEFINE T == {m \in Nat : ~ \E f : Joined(f, ss, m)}
<1>1. SUFFICES ASSUME T # {} PROVE FALSE
  OBVIOUS
<1>2. PICK m \in T : \A k \in T : m <= k
  BY <1>1, NatMin
<1>3. CASE m = 0
  <2>1. Joined([i \in 1 .. 0 |-> 0], ss, 0)
    BY DEF Joined
  <2> QED
    BY <1>3, <2>1
<1>4. CASE m # 0
  <2>1. m - 1 \in Nat /\ m - 1 \notin T
    BY <1>2, <1>4
  <2>2. PICK f : Joined(f, ss, m - 1)
    BY <2>1
  <2> DEFINE g == [i \in 1 .. m |-> IF i = m THEN IF m = 1 THEN ss[m] ELSE f[m - 1] \o ss[m]
                                    ELSE f[i]]
  <2>3. \A i \in 1 .. m - 1 : f[i] = IF i = 1 THEN ss[i] ELSE f[i - 1] \o ss[i]
    BY <2>2 DEF Joined
  <2>4. \A i \in 1 .. m : g[i] = IF i = 1 THEN ss[i] ELSE g[i - 1] \o ss[i]
    <3> SUFFICES ASSUME NEW i \in 1 .. m
                 PROVE  g[i] = IF i = 1 THEN ss[i] ELSE g[i - 1] \o ss[i]
      OBVIOUS
    <3>1. CASE i = m
      BY <2>1, <3>1
    <3>2. CASE i # m
      <4>1. i \in 1 .. m - 1 /\ (i # 1 => i - 1 \in 1 .. m - 1 /\ i - 1 # m)
        BY <2>1, <3>2
      <4> QED
        BY <2>3, <3>2, <4>1
    <3> QED
      BY <3>1, <3>2
  <2>5. g = [i \in 1 .. m |-> IF i = 1 THEN ss[i] ELSE g[i - 1] \o ss[i]]
    BY <2>4
  <2>6. Joined(g, ss, m)
    BY <2>5 DEF Joined
  <2> QED
    BY <2>6
<1> QED
  BY <1>3, <1>4

(* The pieces one after the other: nothing is lost and nothing comes twice. *)
MadeOf(F, ss, n) ==
    /\ \A i \in 1 .. Len(F) : \E d \in 1 .. n : \E j \in 1 .. Len(ss[d]) : F[i] = ss[d][j]
    /\ \A d \in 1 .. n : \A j \in 1 .. Len(ss[d]) : \E i \in 1 .. Len(F) : F[i] = ss[d][j]
    /\ (\A d, e \in 1 .. n : \A j \in 1 .. Len(ss[d]), k \in 1 .. Len(ss[e]) :
           ss[d][j] = ss[e][k] => d = e /\ j = k)
       => Distinct(F)

(* FlattenSeq, which Pages uses, joins the pieces. *)
LEMMA Flattened ==
    ASSUME NEW S, NEW n \in Nat, NEW ss \in [1 .. n -> Seq(S)],
           NEW F, F = FlattenSeq(ss)
    PROVE  F \in Seq(S) /\ MadeOf(F, ss, n)
<1>1. Len(ss) = n
  OBVIOUS
<1>2. CASE n = 0
  <2>1. F = <<>> /\ Len(F) = 0
    BY <1>1, <1>2 DEF FlattenSeq
  <2> QED
    BY <1>2, <2>1 DEF Distinct, MadeOf
<1>3. CASE n # 0
  <2>1. PICK f : Joined(f, ss, n) /\ F = f[n]
    <3>1. F = (CHOOSE f : f = [i \in 1 .. n |-> IF i = 1 THEN ss[i] ELSE f[i - 1] \o ss[i]])[n]
      BY <1>1, <1>3 DEF FlattenSeq
    <3>2. \E f : f = [i \in 1 .. n |-> IF i = 1 THEN ss[i] ELSE f[i - 1] \o ss[i]]
      BY JoinedExists DEF Joined
    <3> QED
      BY <3>1, <3>2 DEF Joined
  <2>2. \A i \in 1 .. n : f[i] = IF i = 1 THEN ss[i] ELSE f[i - 1] \o ss[i]
    BY <2>1 DEF Joined
  <2> DEFINE Apart(m) == \A d, e \in 1 .. m : \A j \in 1 .. Len(ss[d]), k \in 1 .. Len(ss[e]) :
                            ss[d][j] = ss[e][k] => d = e /\ j = k
             Good(m) ==
                /\ f[m] \in Seq(S)
                /\ \A i \in 1 .. Len(f[m]) : \E d \in 1 .. m : \E j \in 1 .. Len(ss[d]) : f[m][i] = ss[d][j]
                /\ \A d \in 1 .. m : \A j \in 1 .. Len(ss[d]) : \E i \in 1 .. Len(f[m]) : f[m][i] = ss[d][j]
                /\ Apart(m) => Distinct(f[m])
             T == {m \in 1 .. n : ~Good(m)}
  <2>3. T = {}
    <3>1. SUFFICES ASSUME T # {} PROVE FALSE
      OBVIOUS
    <3>2. PICK m \in T : \A k \in T : m <= k
      <4>1. T \in SUBSET Nat
        OBVIOUS
      <4> HIDE DEF T
      <4> QED
        BY <3>1, <4>1, NatMin
    <3>3. CASE m = 1
      <4>1. f[1] = ss[1] /\ ss[1] \in Seq(S)
        BY <1>3, <2>2
      <4>2. Good(1)
        BY <4>1 DEF Distinct
      <4> QED
        BY <3>3, <4>2
    <3>4. CASE m # 1
      <4>1. m - 1 \in 1 .. n /\ m \in 1 .. n /\ Good(m - 1)
        <5> HIDE DEF Good
        <5>1. m \in 1 .. n /\ m - 1 \in 1 .. n /\ ~(m <= m - 1)
          BY <3>2, <3>4
        <5>2. m - 1 \notin T
          BY <3>2, <5>1
        <5> QED
          BY <5>1, <5>2
      <4>2. PICK a, b : a = f[m - 1] /\ b = ss[m]
        OBVIOUS
      <4>3. f[m] = a \o b /\ a \in Seq(S) /\ b \in Seq(S)
        BY <2>2, <3>4, <4>1, <4>2
      <4>4. PICK c : c = f[m]
        OBVIOUS
      <4>5. /\ c \in Seq(S) /\ Len(c) = Len(a) + Len(b) /\ Len(a) \in Nat /\ Len(b) \in Nat
            /\ \A i \in 1 .. Len(a) : c[i] = a[i]
            /\ \A i \in 1 .. Len(b) : c[Len(a) + i] = b[i]
        BY <4>3, <4>4
      <4>6. /\ \A i \in 1 .. Len(c) : i \in 1 .. Len(a) \/ (i - Len(a) \in 1 .. Len(b) /\ i = Len(a) + (i - Len(a)))
            /\ \A i \in 1 .. Len(a) : i \in 1 .. Len(c)
            /\ \A i \in 1 .. Len(b) : Len(a) + i \in 1 .. Len(c)
        BY <4>5
      <4>7. \A i \in 1 .. Len(c) :
               \/ i \in 1 .. Len(a) /\ c[i] = a[i]
               \/ i - Len(a) \in 1 .. Len(b) /\ c[i] = b[i - Len(a)]
        BY <4>5, <4>6
      <4>8. \A d \in 1 .. m - 1 : d \in 1 .. m /\ d # m
        BY <4>1
      <4>9. \A d \in 1 .. m : d = m \/ d \in 1 .. m - 1
        BY <4>1
      <4>10. m \in 1 .. m
        BY <4>1
      <4>11. /\ \A i \in 1 .. Len(a) : \E d \in 1 .. m - 1 : \E j \in 1 .. Len(ss[d]) : a[i] = ss[d][j]
             /\ \A d \in 1 .. m - 1 : \A j \in 1 .. Len(ss[d]) : \E i \in 1 .. Len(a) : a[i] = ss[d][j]
             /\ Apart(m - 1) => Distinct(a)
        BY <4>1, <4>2
      <4>12. \A i \in 1 .. Len(c) : \E d \in 1 .. m : \E j \in 1 .. Len(ss[d]) : c[i] = ss[d][j]
        <5> SUFFICES ASSUME NEW i \in 1 .. Len(c)
                     PROVE  \E d \in 1 .. m : \E j \in 1 .. Len(ss[d]) : c[i] = ss[d][j]
          OBVIOUS
        <5>1. CASE i \in 1 .. Len(a) /\ c[i] = a[i]
          BY <4>8, <4>11, <5>1
        <5>2. CASE i - Len(a) \in 1 .. Len(b) /\ c[i] = b[i - Len(a)]
          BY <4>2, <4>10, <5>2
        <5> QED
          BY <4>7, <5>1, <5>2
      <4>13. \A d \in 1 .. m : \A j \in 1 .. Len(ss[d]) : \E i \in 1 .. Len(c) : c[i] = ss[d][j]
        <5> SUFFICES ASSUME NEW d \in 1 .. m, NEW j \in 1 .. Len(ss[d])
                     PROVE  \E i \in 1 .. Len(c) : c[i] = ss[d][j]
          OBVIOUS
        <5>1. CASE d = m
          BY <4>2, <4>5, <4>6, <5>1
        <5>2. CASE d \in 1 .. m - 1
          BY <4>5, <4>6, <4>11, <5>2
        <5> QED
          BY <4>9, <5>1, <5>2
      <4>14. ASSUME Apart(m)
             PROVE  Distinct(c)
        <5>1. Apart(m - 1)
          BY <4>8, <4>14
        <5>2. Distinct(a)
          BY <4>11, <5>1
        <5> SUFFICES ASSUME NEW i \in 1 .. Len(c), NEW k \in 1 .. Len(c), i # k, c[i] = c[k]
                     PROVE  FALSE
          BY DEF Distinct
        <5>3. ASSUME NEW p \in 1 .. Len(a), NEW q \in 1 .. Len(b), a[p] = b[q]
              PROVE  FALSE
          <6>1. PICK d \in 1 .. m - 1 : \E j \in 1 .. Len(ss[d]) : a[p] = ss[d][j]
            BY <4>11
          <6>2. PICK j \in 1 .. Len(ss[d]) : a[p] = ss[d][j]
            BY <6>1
          <6>3. ss[d][j] = ss[m][q] /\ q \in 1 .. Len(ss[m]) /\ d \in 1 .. m /\ d # m
            BY <4>2, <4>8, <5>3, <6>2
          <6> QED
            BY <4>10, <4>14, <6>3
        <5>4. CASE i \in 1 .. Len(a) /\ k \in 1 .. Len(a)
          BY <4>5, <5>2, <5>4 DEF Distinct
        <5>5. CASE i \in 1 .. Len(a) /\ k \notin 1 .. Len(a)
          <6>1. c[i] = a[i] /\ k - Len(a) \in 1 .. Len(b) /\ c[k] = b[k - Len(a)]
            BY <4>5, <4>7, <5>5
          <6> QED
            BY <5>3, <5>5, <6>1
        <5>6. CASE i \notin 1 .. Len(a) /\ k \in 1 .. Len(a)
          <6>1. c[k] = a[k] /\ i - Len(a) \in 1 .. Len(b) /\ c[i] = b[i - Len(a)]
            BY <4>5, <4>7, <5>6
          <6> QED
            BY <5>3, <5>6, <6>1
        <5>7. CASE i \notin 1 .. Len(a) /\ k \notin 1 .. Len(a)
          <6>1. PICK p, q : p = i - Len(a) /\ q = k - Len(a)
            OBVIOUS
          <6>2. p \in 1 .. Len(b) /\ q \in 1 .. Len(b) /\ b[p] = b[q]
            BY <4>7, <5>7, <6>1
          <6>3. p = q
            BY <4>2, <4>10, <4>14, <6>2
          <6> QED
            BY <4>5, <6>1, <6>3
        <5> QED
          BY <5>4, <5>5, <5>6, <5>7
      <4>15. Good(m)
        BY <4>4, <4>5, <4>12, <4>13, <4>14
      <4> QED
        BY <4>15
    <3> QED
      BY <3>3, <3>4
  <2>4. Good(n)
    <3> HIDE DEF Good
    <3> QED
      BY <1>3, <2>3
  <2>5. f[n] \in Seq(S) /\ MadeOf(f[n], ss, n)
    <3>1. f[n] \in Seq(S)
      BY <2>4, Zenon
    <3>2. MadeOf(f[n], ss, n)
      BY <2>4, Zenon DEF MadeOf
    <3> QED
      BY <3>1, <3>2
  <2> HIDE DEF Good
  <2> QED
    BY <2>1, <2>5, Zenon
<1> QED
  BY <1>2, <1>3, Zenon

(* The blocks of a list, in the order of their numbers. *)
LEMMA Ordered ==
    ASSUME NEW list \in Seq(Drives \X Keys), NEW L, L = InOrder(list)
    PROVE  /\ L \in Seq(Drives \X Keys)
           /\ \A i \in 1 .. Len(list) : list[i][2] # Manifest => Has(L, list[i])
           /\ \A n \in 1 .. Len(L) : Has(list, L[n])
           /\ Distinct(list) => Distinct(L)
           /\ \A m, n \in 1 .. Len(L) : m < n => NumberOf(L[m][2]) <= NumberOf(L[n][2])
<1> DEFINE N(i) == NumberOf(list[i][2])
           C == {i \in 1 .. Len(list) : list[i][2] # Manifest}
           R == {p \in C \X C : N(p[1]) < N(p[2]) \/ (N(p[1]) = N(p[2]) /\ p[2] < p[1])}
           Rank(k) == Cardinality({j \in C : <<j, k>> \in R})
           s == [n \in 1 .. Cardinality(C) |->
                    CHOOSE k \in C : Cardinality({j \in C : N(j) < N(k) \/ (N(j) = N(k) /\ k < j)}) = n - 1]
<1>1. Len(list) \in Nat /\ DOMAIN list = 1 .. Len(list)
  OBVIOUS
<1>2. IsFiniteSet(C) /\ Cardinality(C) \in Nat
  <2>1. IsFiniteSet(1 .. Len(list))
    <3>1. 1 \in Int /\ Len(list) \in Int
      BY <1>1
    <3> QED
      BY <3>1, FS_Interval
  <2> QED
    BY <2>1, FS_Subset, FS_CardinalityType
<1>3. L = [n \in DOMAIN s |-> list[s[n]]] /\ DOMAIN s = 1 .. Cardinality(C)
  BY <1>1 DEF InOrder, Sorted
<1>4. \A i \in C : i \in Nat /\ N(i) \in Int
  <2> SUFFICES ASSUME NEW i \in C PROVE i \in Nat /\ N(i) \in Int
    OBVIOUS
  <2>1. list[i] \in Drives \X Keys
    OBVIOUS
  <2>2. list[i][2] \in Int
    BY <2>1, SizesAssumption DEF Keys, Manifest, Block
  <2> QED
    BY <1>1, <2>2 DEF NumberOf
<1> HIDE DEF N
<1>5. /\ \A j \in C : <<j, j>> \notin R
      /\ \A i, j, k \in C : <<i, j>> \in R /\ <<j, k>> \in R => <<i, k>> \in R
      /\ \A j, k \in C : j = k \/ <<j, k>> \in R \/ <<k, j>> \in R
  <2> HIDE DEF C
  <2>1. \A j, k \in C : <<j, k>> \in R <=> (N(j) < N(k) \/ (N(j) = N(k) /\ k < j))
    OBVIOUS
  <2> HIDE DEF R
  <2>2. \A j \in C : <<j, j>> \notin R
    BY <1>4, <2>1
  <2>3. \A j, k \in C : j = k \/ <<j, k>> \in R \/ <<k, j>> \in R
    <3> SUFFICES ASSUME NEW j \in C, NEW k \in C
                 PROVE  j = k \/ <<j, k>> \in R \/ <<k, j>> \in R
      OBVIOUS
    <3>1. PICK a, b : a = N(j) /\ b = N(k)
      OBVIOUS
    <3>2. a \in Int /\ b \in Int /\ j \in Nat /\ k \in Nat
      BY <1>4, <3>1
    <3>3. a < b \/ b < a \/ (a = b /\ (j = k \/ j < k \/ k < j))
      BY <3>2
    <3> QED
      BY <2>1, <3>1, <3>3
  <2>4. ASSUME NEW i \in C, NEW j \in C, NEW k \in C, <<i, j>> \in R, <<j, k>> \in R
        PROVE  <<i, k>> \in R
    <3>1. PICK a, b, c : a = N(i) /\ b = N(j) /\ c = N(k)
      OBVIOUS
    <3>2. a \in Int /\ b \in Int /\ c \in Int /\ i \in Nat /\ j \in Nat /\ k \in Nat
      BY <1>4, <3>1
    <3>3. (a < b \/ (a = b /\ j < i)) /\ (b < c \/ (b = c /\ k < j))
      BY <2>1, <2>4, <3>1
    <3>4. a < c \/ (a = c /\ k < i)
      BY <3>2, <3>3
    <3> QED
      BY <2>1, <3>1, <3>4
  <2> QED
    BY <2>2, <2>3, <2>4
<1>6. /\ \A k \in C : Rank(k) \in 0 .. Cardinality(C) - 1
      /\ \A j, k \in C : <<j, k>> \in R => Rank(j) < Rank(k)
      /\ \A n \in 1 .. Cardinality(C) : \E k \in C : Rank(k) = n - 1
  <2> HIDE DEF R, C
  <2> QED
    BY <1>2, <1>5, Ranking
<1>7. \A k \in C : Rank(k) = Cardinality({j \in C : N(j) < N(k) \/ (N(j) = N(k) /\ k < j)})
  <2> SUFFICES ASSUME NEW k \in C
               PROVE  {j \in C : <<j, k>> \in R} = {j \in C : N(j) < N(k) \/ (N(j) = N(k) /\ k < j)}
    OBVIOUS
  <2> HIDE DEF C
  <2> QED
    OBVIOUS
<1>8. \A n \in 1 .. Cardinality(C) : s[n] \in C /\ Rank(s[n]) = n - 1
  <2> SUFFICES ASSUME NEW n \in 1 .. Cardinality(C)
               PROVE  s[n] \in C /\ Rank(s[n]) = n - 1
    OBVIOUS
  <2> HIDE DEF C
  <2>1. s[n] = CHOOSE k \in C : Cardinality({j \in C : N(j) < N(k) \/ (N(j) = N(k) /\ k < j)}) = n - 1
    OBVIOUS
  <2>2. \E k \in C : Cardinality({j \in C : N(j) < N(k) \/ (N(j) = N(k) /\ k < j)}) = n - 1
    BY <1>6, <1>7
  <2>3. s[n] \in C /\ Cardinality({j \in C : N(j) < N(s[n]) \/ (N(j) = N(s[n]) /\ s[n] < j)}) = n - 1
    BY <2>1, <2>2
  <2> QED
    BY <1>7, <2>3
<1> HIDE DEF C, R, Rank, s
<1>9. PICK K \in Nat : K = Cardinality(C)
  BY <1>2
<1>10. \A k \in C : Rank(k) \in Int /\ Rank(k) + 1 \in 1 .. K /\ (Rank(k) + 1) - 1 = Rank(k)
  <2> SUFFICES ASSUME NEW k \in C
               PROVE  Rank(k) \in Int /\ Rank(k) + 1 \in 1 .. K /\ (Rank(k) + 1) - 1 = Rank(k)
    OBVIOUS
  <2>1. Rank(k) \in 0 .. K - 1
    BY <1>6, <1>9
  <2> QED
    BY <2>1
<1>11. \A j, k \in C : <<k, j>> \in R => Rank(k) < Rank(j)
  BY <1>6
<1>12. /\ \A j, k \in C : Rank(j) < Rank(k) => N(j) <= N(k)
       /\ \A j, k \in C : Rank(j) = Rank(k) => j = k
  <2> SUFFICES ASSUME NEW j \in C, NEW k \in C
               PROVE  /\ Rank(j) < Rank(k) => N(j) <= N(k)
                      /\ Rank(j) = Rank(k) => j = k
    OBVIOUS
  <2>1. Rank(j) \in Int /\ Rank(k) \in Int
    BY <1>10
  <2>2. N(j) \in Int /\ N(k) \in Int
    BY <1>4
  <2>3. (N(k) < N(j) => Rank(k) < Rank(j)) /\ (j = k \/ Rank(j) < Rank(k) \/ Rank(k) < Rank(j))
    <3>1. N(k) < N(j) => <<k, j>> \in R
      BY DEF R
    <3>2. j = k \/ <<j, k>> \in R \/ <<k, j>> \in R
      BY <1>5
    <3> QED
      BY <1>11, <3>1, <3>2
  <2> QED
    BY <2>1, <2>2, <2>3
<1>13. \A k \in C : \E n \in 1 .. K : s[n] = k
  <2> SUFFICES ASSUME NEW k \in C
               PROVE  \E n \in 1 .. K : s[n] = k
    OBVIOUS
  <2>1. s[Rank(k) + 1] \in C /\ Rank(s[Rank(k) + 1]) = Rank(k)
    BY <1>8, <1>9, <1>10
  <2>2. s[Rank(k) + 1] = k
    BY <1>12, <2>1
  <2> QED
    BY <1>10, <2>2
<1>14. /\ Len(L) = K /\ L \in Seq(Drives \X Keys)
       /\ \A n \in 1 .. Len(L) : s[n] \in C /\ L[n] = list[s[n]]
  <2>1. \A n \in 1 .. K : s[n] \in C
    BY <1>8, <1>9
  <2>2. \A i \in C : list[i] \in Drives \X Keys
    BY DEF C
  <2>3. L = [n \in 1 .. K |-> list[s[n]]]
    BY <1>3, <1>9
  <2>4. L \in [1 .. K -> Drives \X Keys]
    BY <2>1, <2>2, <2>3
  <2>5. Len(L) = K /\ L \in Seq(Drives \X Keys)
    BY <2>3, <2>4
  <2> QED
    BY <2>1, <2>3, <2>5
<1>15. \A i \in 1 .. Len(list) : list[i][2] # Manifest => Has(L, list[i])
  <2> SUFFICES ASSUME NEW i \in 1 .. Len(list), list[i][2] # Manifest
               PROVE  Has(L, list[i])
    OBVIOUS
  <2>1. PICK n \in 1 .. K : s[n] = i
    BY <1>13 DEF C
  <2> QED
    BY <1>14, <2>1 DEF Has
<1>16. \A n \in 1 .. Len(L) : Has(list, L[n])
  BY <1>14 DEF C, Has
<1>17. ASSUME Distinct(list)
       PROVE  Distinct(L)
  <2> SUFFICES ASSUME NEW m \in 1 .. Len(L), NEW n \in 1 .. Len(L), m # n, L[m] = L[n]
               PROVE  FALSE
    BY DEF Distinct
  <2>1. s[m] = s[n]
    BY <1>14, <1>17 DEF C, Distinct
  <2>2. m \in Int /\ n \in Int /\ m - 1 = n - 1
    BY <1>8, <1>9, <1>14, <2>1
  <2> QED
    BY <2>2
<1>18. ASSUME NEW m \in 1 .. Len(L), NEW n \in 1 .. Len(L), m < n
       PROVE  NumberOf(L[m][2]) <= NumberOf(L[n][2])
  <2>1. Rank(s[m]) = m - 1 /\ Rank(s[n]) = n - 1 /\ m \in Int /\ n \in Int
    BY <1>8, <1>9, <1>14
  <2>2. N(s[m]) <= N(s[n])
    BY <1>12, <1>14, <1>18, <2>1
  <2> QED
    BY <1>14, <2>2 DEF N
<1> QED
  BY <1>14, <1>15, <1>16, <1>17, <1>18

-----------------------------------------------------------------------------
(* Requests, calls and their outcomes. *)

(* The keys and the marks are numbers. *)
LEMMA KeysAreNumbers == Keys \subseteq Nat /\ Start \in Nat
<1>1. PICK top : top = Block(MaxBlocks + MetaBlocks + 1, FALSE)
  OBVIOUS
<1>2. top \in Nat /\ Keys = 1 .. top
  BY <1>1, SizesAssumption DEF Block, Keys, Manifest
<1> QED
  BY <1>2 DEF Start

(* What TypeOK says of requests, calls and values. *)
LEMMA Typed ==
    ASSUME TypeOK
    PROVE  /\ \A d \in Drives : Len(inbox[d]) \in Nat /\ inbox[d] \in Seq(Request)
           /\ \A d \in Drives : \A i \in 1 .. Len(inbox[d]) :
                 /\ inbox[d][i].op \in Ops /\ inbox[d][i].n \in Nat
                 /\ inbox[d][i].key \in Keys \cup {Start}
           /\ \A x \in Ops : Len(calls[x]) \in Nat /\ calls[x] \in Seq(Call)
           /\ \A x \in Ops : \A n \in 1 .. Len(calls[x]) :
                 calls[x][n].drive \in Drives /\ calls[x][n].key \in Keys
           /\ \A x \in Ops : Len(plan[x]) \in Nat /\ plan[x] \in Seq(Drives \X Keys) /\ waited[x] \in Nat
           /\ \A d \in Drives : \A k \in Keys :
                 store[d][k] # Nothing => store[d][k][1] \in Uploads /\ store[d][k][2] \in Nat \ {0}
<1> USE DEF TypeOK
<1>1. \A d \in Drives : Len(inbox[d]) \in Nat /\ inbox[d] \in Seq(Request)
  OBVIOUS
<1>2. \A d \in Drives : \A i \in 1 .. Len(inbox[d]) :
         /\ inbox[d][i].op \in Ops /\ inbox[d][i].n \in Nat
         /\ inbox[d][i].key \in Keys \cup {Start}
  <2> SUFFICES ASSUME NEW d \in Drives, NEW i \in 1 .. Len(inbox[d])
               PROVE  inbox[d][i] \in Request
    BY DEF Request
  <2> QED
    BY <1>1
<1>3. \A x \in Ops : Len(calls[x]) \in Nat /\ calls[x] \in Seq(Call)
  OBVIOUS
<1>4. \A x \in Ops : \A n \in 1 .. Len(calls[x]) :
         calls[x][n].drive \in Drives /\ calls[x][n].key \in Keys
  <2> SUFFICES ASSUME NEW x \in Ops, NEW n \in 1 .. Len(calls[x])
               PROVE  calls[x][n] \in Call
    BY DEF Call
  <2> QED
    BY <1>3
<1>5. \A x \in Ops : Len(plan[x]) \in Nat /\ plan[x] \in Seq(Drives \X Keys) /\ waited[x] \in Nat
  OBVIOUS
<1>6. \A d \in Drives : \A k \in Keys :
         store[d][k] # Nothing => store[d][k][1] \in Uploads /\ store[d][k][2] \in Nat \ {0}
  <2> SUFFICES ASSUME NEW d \in Drives, NEW k \in Keys, store[d][k] # Nothing
               PROVE  store[d][k][1] \in Uploads /\ store[d][k][2] \in Nat \ {0}
    OBVIOUS
  <2>1. store[d][k] \in Values
    OBVIOUS
  <2>2. MaxBlocks + MetaBlocks + 2 \in Nat
    BY SizesAssumption
  <2> QED
    BY <2>1, <2>2 DEF Values
<1> QED
  BY <1>1, <1>2, <1>3, <1>4, <1>5, <1>6

(* A step of an operation that waits for no page, sends nothing and gives no   *)
(* outcome leaves the requests as they were (BeginListing forgets the failures *)
(* of an operation that has made no call).                                     *)
LEMMA ControlWire ==
    ASSUME TypeOK, WireInv, NEW x \in Ops, Quiet(x),
           inbox' = inbox, calls' = calls, store' = store,
           \A y \in Ops \ {x} : /\ step'[y] = step[y] /\ page'[y] = page[y] /\ ready'[y] = ready[y]
                                /\ y \notin Uploads => marker'[y] = marker[y],
           \A u \in Uploads : Puts(u)' = Puts(u),
           \/ troubled' = troubled
           \/ x \in Listers /\ calls[x] = <<>> /\ \A y \in Ops \ {x} : troubled'[y] = troubled[y]
    PROVE  WireInv'
<1>1. \A y \in Ops : \A n : KindOf(y, n)' = KindOf(y, n) /\ Place(y, n)' = Place(y, n)
         /\ Silent(y, n)' = Silent(y, n)
  BY DEF KindOf, Place, Silent
<1>2. RequestInv'
  <2> SUFFICES ASSUME NEW d \in Drives, NEW i \in 1 .. Len(inbox[d])
               PROVE  /\ inbox[d][i].n = 0 => PageRequest(d, inbox[d][i])'
                      /\ inbox[d][i].n # 0 => CallRequest(d, inbox[d][i])'
    BY DEF RequestInv
  <2> DEFINE r == inbox[d][i]
  <2>1. /\ r.op \in Ops /\ r' = r
        /\ r.n = 0 => PageRequest(d, r) /\ r.op # x
        /\ r.n # 0 => CallRequest(d, r)
    BY Typed DEF WireInv, RequestInv, Quiet
  <2> HIDE DEF r
  <2>2. r.n = 0 => PageRequest(d, r)'
    BY <2>1 DEF PageRequest
  <2>3. r.n # 0 => CallRequest(d, r)'
    BY <1>1, <2>1 DEF CallRequest
  <2> QED
    BY <2>2, <2>3 DEF r
<1>3. OrderInv'
  BY DEF WireInv, OrderInv
<1>4. SilentInv'
  BY <1>1 DEF WireInv, SilentInv
<1>5. \A y \in Ops : ~troubled'[y] /\ calls[y] # <<>> => ~troubled[y]
  OBVIOUS
<1>6. SentInv'
  <2> SUFFICES ASSUME NEW d \in Drives, NEW i \in 1 .. Len(inbox[d]),
                      inbox[d][i].n # 0, ~troubled'[inbox[d][i].op]
               PROVE  Silent(inbox[d][i].op, inbox[d][i].n)
    BY DEF SentInv, Silent
  <2>1. inbox[d][i].op \in Ops /\ inbox[d][i].n \in Nat
    BY Typed
  <2>2. inbox[d][i].n \in 1 .. Len(calls[inbox[d][i].op])
    BY DEF WireInv, RequestInv, CallRequest
  <2>3. calls[inbox[d][i].op] # <<>>
    BY <2>1, <2>2
  <2>4. ~troubled[inbox[d][i].op]
    BY <1>5, <2>1, <2>3
  <2> QED
    BY <2>4 DEF WireInv, SentInv
<1>7. FifoInv'
  <2> SUFFICES ASSUME NEW y \in Ops, ~troubled'[y], NEW m \in 1 .. Len(calls[y]), NEW n \in 1 .. Len(calls[y]),
                      m < n /\ calls[y][m].drive = calls[y][n].drive /\ Silent(y, m)
               PROVE  Silent(y, n)
    BY <1>1 DEF FifoInv
  <2>1. calls[y] # <<>>
    OBVIOUS
  <2> QED
    BY <1>5, <2>1 DEF WireInv, FifoInv
<1>8. \A u \in Uploads : ~troubled'[u] => ~troubled[u]
  BY OpsAssumption DEF Ops, Listers
<1>9. StoreInv'
  <2> SUFFICES ASSUME NEW d \in Drives, NEW k \in Keys, store[d][k] # Nothing
               PROVE  LET u == store[d][k][1]
                          n == store[d][k][2]
                      IN  /\ n <= Len(calls[u]) /\ n <= Puts(u) /\ Place(u, n) = <<d, k>>
                          /\ ~troubled'[u] => ~Silent(u, n)
    BY <1>1, Typed DEF StoreInv, Ops
  <2> QED
    BY <1>8, Typed DEF WireInv, StoreInv
<1>10. GoneInv'
  <2> SUFFICES ASSUME NEW u \in Uploads, NEW n \in 1 .. Len(calls[u]),
                      ~troubled'[u] /\ n > Puts(u) /\ ~Silent(u, n)
               PROVE  LET v == store[calls[u][n].drive][calls[u][n].key]
                      IN  v # Nothing => v[1] # u
    BY <1>1 DEF GoneInv, Ops
  <2> QED
    BY <1>8 DEF WireInv, GoneInv
<1> QED
  BY <1>2, <1>3, <1>4, <1>6, <1>7, <1>9, <1>10 DEF WireInv

(* What is added to a sequence comes last. *)
LEMMA Appended ==
    ASSUME NEW S, NEW s \in Seq(S), NEW e
    PROVE  /\ Len(s) \in Nat /\ Len(Append(s, e)) = Len(s) + 1
           /\ \A i \in 1 .. Len(s) : Append(s, e)[i] = s[i]
           /\ Append(s, e)[Len(s) + 1] = e
           /\ \A i \in 1 .. Len(Append(s, e)) : i \in 1 .. Len(s) \/ i = Len(s) + 1
           /\ \A i \in 1 .. Len(s) : i \in 1 .. Len(Append(s, e))
           /\ Len(s) + 1 \in 1 .. Len(Append(s, e)) /\ Len(s) + 1 \notin 1 .. Len(s)
           /\ \A i \in 1 .. Len(s) : i \in Nat /\ i < Len(s) + 1 /\ i # Len(s) + 1
OBVIOUS

(* Start() of a PUT, GET or DELETE keeps what is known of the requests. *)
LEMMA CallWire ==
    ASSUME TypeOK, WireInv, NEW x \in Ops, NEW d \in Drives, NEW kind, NEW key, NEW val, NEW N,
           N = Len(calls[x]) + 1, Quiet(x), StartCall(x, d, kind, key, val),
           UNCHANGED <<store, listVars, plan, verdict, troubled>>,
           \A y \in Ops \ {x} : step'[y] = step[y],
           kind = KindOf(x, N)',
           val = IF kind = "put" THEN <<x, N>> ELSE Nothing
    PROVE  WireInv'
<1> DEFINE c == [drive |-> d, key |-> key, out |-> "none", val |-> Nothing]
           q == [op |-> x, n |-> N, kind |-> kind, key |-> key, val |-> val]
           I == Len(inbox[d]) + 1
<1>1. /\ calls' = [calls EXCEPT ![x] = Append(calls[x], c)]
      /\ inbox' = [inbox EXCEPT ![d] = Append(inbox[d], q)]
  BY DEF StartCall, Post
<1>2. /\ calls \in [Ops -> Seq(Call)] /\ inbox \in [Drives -> Seq(Request)]
  BY DEF TypeOK
<1>3. /\ Len(calls[x]) \in Nat /\ Len(calls'[x]) = N /\ N \in Nat \ {0}
      /\ \A n \in 1 .. Len(calls[x]) : calls'[x][n] = calls[x][n] /\ n \in 1 .. N /\ n < N /\ n # N
      /\ calls'[x][N] = c
      /\ \A n \in 1 .. N : n \in 1 .. Len(calls[x]) \/ n = N
      /\ N \in 1 .. N /\ N \notin 1 .. Len(calls[x])
      /\ \A y \in Ops \ {x} : calls'[y] = calls[y]
  <2>1. calls'[x] = Append(calls[x], c) /\ calls[x] \in Seq(Call)
    BY <1>1, <1>2
  <2>2. \A y \in Ops \ {x} : calls'[y] = calls[y]
    BY <1>1, <1>2
  <2> HIDE DEF c
  <2> QED
    BY <2>1, <2>2, Appended
<1>4. /\ Len(inbox[d]) \in Nat /\ Len(inbox'[d]) = I
      /\ \A i \in 1 .. Len(inbox[d]) : inbox'[d][i] = inbox[d][i] /\ i \in 1 .. I /\ i < I /\ i # I
      /\ inbox'[d][I] = q
      /\ \A i \in 1 .. I : i \in 1 .. Len(inbox[d]) \/ i = I
      /\ I \in 1 .. I
      /\ \A e \in Drives \ {d} : inbox'[e] = inbox[e]
  <2>1. inbox'[d] = Append(inbox[d], q) /\ inbox[d] \in Seq(Request)
    BY <1>1, <1>2
  <2>2. \A y \in Drives \ {d} : inbox'[y] = inbox[y]
    BY <1>1, <1>2
  <2> HIDE DEF q
  <2> QED
    BY <2>1, <2>2, Appended
<1>5. /\ c.drive = d /\ c.key = key /\ c.out = "none"
      /\ q.op = x /\ q.n = N /\ q.kind = kind /\ q.key = key
      /\ q.val = IF kind = "put" THEN <<x, N>> ELSE Nothing
      /\ kind = KindOf(x, N)'
  OBVIOUS
<1> HIDE DEF c, q, I
<1>6. \A y \in Ops : \A n \in 1 .. Len(calls[y]) :
         /\ calls'[y][n] = calls[y][n] /\ n \in 1 .. Len(calls'[y]) /\ n \in Nat
         /\ KindOf(y, n)' = KindOf(y, n) /\ Silent(y, n)' = Silent(y, n)
         /\ Place(y, n)' = Place(y, n)
  <2>1. \A y \in Ops : \A n \in 1 .. Len(calls[y]) :
           calls'[y][n] = calls[y][n] /\ n \in 1 .. Len(calls'[y]) /\ n \in Nat
    BY <1>3
  <2>2. \A y \in Ops : \A n \in 1 .. Len(calls[y]) : KindOf(y, n)' = KindOf(y, n)
    <3> SUFFICES ASSUME NEW y \in Ops, NEW n \in 1 .. Len(calls[y])
                 PROVE  (n <= Puts(y))' = (n <= Puts(y))
      BY DEF KindOf
    <3>1. CASE y = x
      BY <1>3, <3>1 DEF Puts
    <3>2. CASE y # x
      BY <1>3, <3>2 DEF Puts
    <3> QED
      BY <3>1, <3>2
  <2> QED
    BY <2>1, <2>2 DEF Silent, Place
<1>7. \A e \in Drives : \A i \in 1 .. Len(inbox'[e]) :
         \/ i \in 1 .. Len(inbox[e]) /\ inbox'[e][i] = inbox[e][i]
         \/ e = d /\ i = I /\ inbox'[e][i] = q
  BY <1>4
<1>8. \A e \in Drives : \A i \in 1 .. Len(inbox[e]) :
         i \in 1 .. Len(inbox'[e]) /\ inbox'[e][i] = inbox[e][i]
  BY <1>4
<1>9. \A e \in Drives : \A i \in 1 .. Len(inbox[e]) :
         /\ inbox[e][i].op \in Ops /\ inbox[e][i].n \in Nat
         /\ inbox[e][i].n # 0 => inbox[e][i].n \in 1 .. Len(calls[inbox[e][i].op])
         /\ inbox[e][i].n = 0 => inbox[e][i].op # x
  BY Typed DEF WireInv, RequestInv, CallRequest, Quiet
<1>10. Silent(x, N)' /\ Len(calls'[x]) = N
  BY <1>3, <1>5 DEF Silent
<1>11. RequestInv'
  <2> SUFFICES ASSUME NEW e \in Drives, NEW i \in 1 .. Len(inbox'[e])
               PROVE  /\ inbox'[e][i].n = 0 => PageRequest(e, inbox[e][i])'
                      /\ inbox'[e][i].n # 0 => CallRequest(e, inbox[e][i])'
    BY DEF RequestInv
  <2>1. CASE i \in 1 .. Len(inbox[e]) /\ inbox'[e][i] = inbox[e][i]
    <3> DEFINE r == inbox[e][i]
    <3>1. /\ r.op \in Ops /\ r' = r
          /\ r.n = 0 => PageRequest(e, r) /\ r.op # x
          /\ r.n # 0 => CallRequest(e, r) /\ r.n \in 1 .. Len(calls[r.op])
      BY <1>9, <2>1 DEF WireInv, RequestInv
    <3> HIDE DEF r
    <3>2. r.n = 0 => PageRequest(e, r)'
      BY <3>1 DEF PageRequest, listVars
    <3>3. r.n # 0 => CallRequest(e, r)'
      BY <1>6, <3>1 DEF CallRequest
    <3> QED
      BY <3>2, <3>3, <2>1 DEF r
  <2>2. CASE e = d /\ i = I /\ inbox'[e][i] = q
    <3>1. q.n # 0
      BY <1>3, <1>5
    <3>2. /\ q.n \in 1 .. Len(calls'[q.op])
          /\ calls'[q.op][q.n].drive = e /\ calls'[q.op][q.n].key = q.key
          /\ q.kind = KindOf(x, N)'
          /\ q.kind = "put" => q.val = <<q.op, q.n>>
          /\ q.kind # "put" => q.val = Nothing
      BY <1>3, <1>5, <2>2
    <3>3. CallRequest(e, inbox[e][i])'
      BY <1>5, <2>2, <3>2 DEF CallRequest
    <3> QED
      BY <2>2, <3>1, <3>3
  <2> QED
    BY <1>7, <2>1, <2>2
<1>12. OrderInv'
  <2> SUFFICES ASSUME NEW e \in Drives, NEW i \in 1 .. Len(inbox'[e]), NEW j \in 1 .. Len(inbox'[e]),
                      i < j, inbox'[e][i].op = inbox'[e][j].op
               PROVE  inbox'[e][i].n < inbox'[e][j].n
    BY DEF OrderInv
  <2>1. CASE j \in 1 .. Len(inbox[e])
    <3>1. i \in 1 .. Len(inbox[e])
      BY <1>4, <2>1
    <3> QED
      BY <1>8, <2>1, <3>1 DEF WireInv, OrderInv
  <2>2. CASE j \notin 1 .. Len(inbox[e])
    <3>1. e = d /\ j = I /\ inbox'[e][j] = q
      BY <1>7, <2>2
    <3>2. i \in 1 .. Len(inbox[e]) /\ inbox'[e][i] = inbox[e][i]
      BY <1>4, <1>7, <3>1
    <3>3. inbox[e][i].op = x
      BY <1>5, <3>1, <3>2
    <3>4. inbox[e][i].n \in 1 .. Len(calls[x])
      BY <1>9, <3>2, <3>3
    <3>5. inbox[e][i].n < N
      BY <1>3, <3>4
    <3> QED
      BY <1>5, <3>1, <3>2, <3>5
  <2> QED
    BY <2>1, <2>2
<1>13. SilentInv'
  <2> SUFFICES ASSUME NEW y \in Ops, NEW n \in 1 .. Len(calls'[y]), Silent(y, n)'
               PROVE  \E i \in 1 .. Len(inbox'[calls'[y][n].drive]) :
                         /\ inbox'[calls'[y][n].drive][i].op = y
                         /\ inbox'[calls'[y][n].drive][i].n = n
    BY DEF SilentInv
  <2>1. CASE n \in 1 .. Len(calls[y])
    <3>1. calls'[y][n] = calls[y][n] /\ Silent(y, n) /\ calls[y][n].drive \in Drives
      BY <1>6, <2>1, Typed
    <3>2. PICK i \in 1 .. Len(inbox[calls[y][n].drive]) :
             inbox[calls[y][n].drive][i].op = y /\ inbox[calls[y][n].drive][i].n = n
      BY <2>1, <3>1 DEF WireInv, SilentInv
    <3> QED
      BY <1>8, <3>1, <3>2
  <2>2. CASE n \notin 1 .. Len(calls[y])
    <3>1. y = x /\ n = N
      BY <1>3, <2>2
    <3>2. calls'[y][n].drive = d
      BY <1>3, <1>5, <3>1
    <3> QED
      BY <1>4, <1>5, <3>1, <3>2
  <2> QED
    BY <2>1, <2>2
<1>14. SentInv'
  <2> SUFFICES ASSUME NEW e \in Drives, NEW i \in 1 .. Len(inbox'[e]),
                      inbox'[e][i].n # 0, ~troubled'[inbox'[e][i].op]
               PROVE  Silent(inbox[e][i].op, inbox[e][i].n)'
    BY DEF SentInv
  <2>1. CASE i \in 1 .. Len(inbox[e]) /\ inbox'[e][i] = inbox[e][i]
    <3>1. Silent(inbox[e][i].op, inbox[e][i].n)
      BY <2>1 DEF WireInv, SentInv
    <3>2. inbox[e][i].op \in Ops /\ inbox[e][i].n \in 1 .. Len(calls[inbox[e][i].op])
      BY <1>9, <2>1
    <3>3. calls'[inbox[e][i].op][inbox[e][i].n] = calls[inbox[e][i].op][inbox[e][i].n]
      BY <1>6, <3>2
    <3> QED
      BY <2>1, <3>1, <3>3 DEF Silent
  <2>2. CASE e = d /\ i = I /\ inbox'[e][i] = q
    BY <1>5, <1>10, <2>2 DEF Silent
  <2> QED
    BY <1>7, <2>1, <2>2
<1>15. FifoInv'
  <2> SUFFICES ASSUME NEW y \in Ops, ~troubled[y],
                      NEW m \in 1 .. Len(calls'[y]), NEW n \in 1 .. Len(calls'[y]),
                      m < n, calls'[y][m].drive = calls'[y][n].drive, Silent(y, m)'
               PROVE  Silent(y, n)'
    BY DEF FifoInv
  <2>1. CASE n \in 1 .. Len(calls[y])
    <3>1. m \in 1 .. Len(calls[y])
      BY <1>3, <2>1
    <3> QED
      BY <1>6, <2>1, <3>1 DEF WireInv, FifoInv
  <2>2. CASE n \notin 1 .. Len(calls[y])
    <3>1. y = x /\ n = N
      BY <1>3, <2>2
    <3> QED
      BY <1>10, <3>1
  <2> QED
    BY <2>1, <2>2
<1>16. \A u \in Uploads : Puts(u)' = Puts(u) \/ (u = x /\ Puts(u) = Len(calls[x]) /\ Puts(u)' = N)
  BY <1>3 DEF Puts, Ops
<1>17. StoreInv'
  <2> SUFFICES ASSUME NEW e \in Drives, NEW k \in Keys, store[e][k] # Nothing,
                      NEW u, NEW n, u = store[e][k][1], n = store[e][k][2]
               PROVE  /\ n <= Len(calls'[u]) /\ n <= Puts(u)' /\ Place(u, n)' = <<e, k>>
                      /\ ~troubled[u] => ~Silent(u, n)'
    BY DEF StoreInv, Place, Silent, Puts
  <2>1. u \in Uploads /\ u \in Ops /\ n \in Nat \ {0}
    BY Typed DEF Ops
  <2>2. /\ n <= Len(calls[u]) /\ n <= Puts(u) /\ Place(u, n) = <<e, k>>
        /\ ~troubled[u] => ~Silent(u, n)
    BY DEF WireInv, StoreInv
  <2>3. Len(calls[u]) \in Nat /\ n \in 1 .. Len(calls[u])
    BY <2>1, <2>2, Typed
  <2>4. n <= Len(calls'[u])
    BY <1>3, <2>1, <2>3
  <2>5. n <= Puts(u)'
    <3>1. CASE Puts(u)' = Puts(u)
      BY <2>2, <3>1
    <3>2. CASE u = x /\ Puts(u)' = N
      BY <1>3, <2>3, <3>2
    <3> QED
      BY <1>16, <2>1, <3>1, <3>2
  <2> QED
    BY <1>6, <2>1, <2>2, <2>3, <2>4, <2>5
<1>18. GoneInv'
  <2> SUFFICES ASSUME NEW u \in Uploads, NEW n \in 1 .. Len(calls'[u]),
                      ~troubled[u], n > Puts(u)', ~Silent(u, n)'
               PROVE  LET v == store[calls'[u][n].drive][calls'[u][n].key]
                      IN  v # Nothing => v[1] # u
    BY DEF GoneInv
  <2>1. u \in Ops
    BY DEF Ops
  <2>2. n \in 1 .. Len(calls[u])
    <3>1. CASE u = x
      BY <1>3, <1>10, <3>1
    <3>2. CASE u # x
      BY <1>3, <2>1, <3>2
    <3> QED
      BY <3>1, <3>2
  <2>3. n > Puts(u)
    BY <1>3, <1>16, <2>2
  <2> QED
    BY <1>6, <2>1, <2>2, <2>3 DEF WireInv, GoneInv
<1> QED
  BY <1>11, <1>12, <1>13, <1>14, <1>15, <1>17, <1>18 DEF WireInv

(* So does the request of a page, or the check of a manifest. *)
LEMMA AskWire ==
    ASSUME TypeOK, WireInv, NEW x \in Ops, NEW d \in Drives, NEW kind, NEW key,
           AskDrive(x, d, kind, key), calls[x] = <<>>,
           x \in Uploads => kind = "check" /\ key = Manifest,
           x \notin Uploads => kind = "list" /\ key = marker[x][d],
           UNCHANGED <<store, step, calls, ready, marker, plan, verdict, troubled>>
    PROVE  WireInv'
<1> DEFINE q == [op |-> x, n |-> 0, kind |-> kind, key |-> key, val |-> Nothing]
           I == Len(inbox[d]) + 1
<1>1. /\ step[x] = "list" /\ d \in ready[x] /\ page[x][d].st = "none"
      /\ page' = [page EXCEPT ![x][d].st = "asked"]
      /\ inbox' = [inbox EXCEPT ![d] = Append(inbox[d], q)]
  BY DEF AskDrive, NextToAsk, Asked, Post
<1>2. inbox \in [Drives -> Seq(Request)] /\ page \in [Ops -> [Drives -> Page]]
  BY DEF TypeOK
<1>3. /\ Len(inbox[d]) \in Nat /\ Len(inbox'[d]) = I
      /\ \A i \in 1 .. Len(inbox[d]) : inbox'[d][i] = inbox[d][i] /\ i \in 1 .. I /\ i < I /\ i # I
      /\ inbox'[d][I] = q
      /\ \A i \in 1 .. I : i \in 1 .. Len(inbox[d]) \/ i = I
      /\ I \in 1 .. I
      /\ \A e \in Drives \ {d} : inbox'[e] = inbox[e]
  <2>1. inbox'[d] = Append(inbox[d], q) /\ inbox[d] \in Seq(Request)
    BY <1>1, <1>2
  <2>2. \A y \in Drives \ {d} : inbox'[y] = inbox[y]
    BY <1>1, <1>2
  <2> HIDE DEF q
  <2> QED
    BY <2>1, <2>2, Appended
<1>4. /\ page'[x][d].st = "asked"
      /\ \A y \in Ops : \A e \in Drives : (y # x \/ e # d) => page'[y][e] = page[y][e]
  BY <1>1, <1>2 DEF Page
<1>5. q.op = x /\ q.n = 0 /\ q.kind = kind /\ q.key = key
  OBVIOUS
<1> HIDE DEF q, I
<1>6. \A e \in Drives : \A i \in 1 .. Len(inbox'[e]) :
         \/ i \in 1 .. Len(inbox[e]) /\ inbox'[e][i] = inbox[e][i]
         \/ e = d /\ i = I /\ inbox'[e][i] = q
  BY <1>3
<1>7. \A e \in Drives : \A i \in 1 .. Len(inbox[e]) :
         i \in 1 .. Len(inbox'[e]) /\ inbox'[e][i] = inbox[e][i]
  BY <1>3
<1>8. \A i \in 1 .. Len(inbox[d]) : inbox[d][i].op # x
  <2> SUFFICES ASSUME NEW i \in 1 .. Len(inbox[d]), inbox[d][i].op = x
               PROVE  FALSE
    OBVIOUS
  <2>1. CASE inbox[d][i].n = 0
    BY <1>1, <2>1 DEF WireInv, RequestInv, PageRequest
  <2>2. CASE inbox[d][i].n # 0
    <3>1. inbox[d][i].n \in 1 .. Len(calls[x])
      BY <2>2 DEF WireInv, RequestInv, CallRequest
    <3>2. Len(calls[x]) = 0
      OBVIOUS
    <3> QED
      BY <3>1, <3>2
  <2> QED
    BY <2>1, <2>2
<1>9. \A y \in Ops : \A n : KindOf(y, n)' = KindOf(y, n) /\ Place(y, n)' = Place(y, n)
         /\ Silent(y, n)' = Silent(y, n)
  BY DEF KindOf, Place, Silent, Puts
<1>10. \A u : Puts(u)' = Puts(u)
  BY DEF Puts
<1>11. RequestInv'
  <2> SUFFICES ASSUME NEW e \in Drives, NEW i \in 1 .. Len(inbox'[e])
               PROVE  /\ inbox'[e][i].n = 0 => PageRequest(e, inbox[e][i])'
                      /\ inbox'[e][i].n # 0 => CallRequest(e, inbox[e][i])'
    BY DEF RequestInv
  <2>1. CASE i \in 1 .. Len(inbox[e]) /\ inbox'[e][i] = inbox[e][i]
    <3> DEFINE r == inbox[e][i]
    <3>1. /\ r.op \in Ops /\ r' = r
          /\ r.n = 0 => PageRequest(e, r)
          /\ r.n # 0 => CallRequest(e, r)
          /\ r.op # x \/ e # d
      BY <1>8, <2>1, Typed DEF WireInv, RequestInv
    <3> HIDE DEF r
    <3>2. r.n = 0 => PageRequest(e, r)'
      BY <1>4, <3>1 DEF PageRequest
    <3>3. r.n # 0 => CallRequest(e, r)'
      BY <1>9, <3>1 DEF CallRequest
    <3> QED
      BY <3>2, <3>3, <2>1 DEF r
  <2>2. CASE e = d /\ i = I /\ inbox'[e][i] = q
    <3>1. /\ step[q.op] = "list" /\ e \in ready[q.op] /\ page'[q.op][e].st = "asked"
          /\ q.op \in Uploads => q.kind = "check" /\ q.key = Manifest
          /\ q.op \notin Uploads => q.kind = "list" /\ q.key = marker[q.op][e]
      BY <1>1, <1>4, <1>5, <2>2
    <3>2. PageRequest(e, inbox[e][i])'
      BY <2>2, <3>1 DEF PageRequest
    <3> QED
      BY <1>5, <2>2, <3>2
  <2> QED
    BY <1>6, <2>1, <2>2
<1>12. OrderInv'
  <2> SUFFICES ASSUME NEW e \in Drives, NEW i \in 1 .. Len(inbox'[e]), NEW j \in 1 .. Len(inbox'[e]),
                      i < j, inbox'[e][i].op = inbox'[e][j].op
               PROVE  inbox'[e][i].n < inbox'[e][j].n
    BY DEF OrderInv
  <2>1. CASE j \in 1 .. Len(inbox[e])
    <3>1. i \in 1 .. Len(inbox[e])
      BY <1>3, <2>1
    <3> QED
      BY <1>7, <2>1, <3>1 DEF WireInv, OrderInv
  <2>2. CASE j \notin 1 .. Len(inbox[e])
    <3>1. e = d /\ j = I /\ inbox'[e][j] = q
      BY <1>6, <2>2
    <3>2. i \in 1 .. Len(inbox[e]) /\ inbox'[e][i] = inbox[e][i]
      BY <1>3, <1>6, <3>1
    <3> QED
      BY <1>5, <1>8, <3>1, <3>2
  <2> QED
    BY <2>1, <2>2
<1>13. SilentInv'
  <2> SUFFICES ASSUME NEW y \in Ops, NEW n \in 1 .. Len(calls[y]), Silent(y, n)
               PROVE  \E i \in 1 .. Len(inbox'[calls[y][n].drive]) :
                         /\ inbox'[calls[y][n].drive][i].op = y
                         /\ inbox'[calls[y][n].drive][i].n = n
    BY <1>9 DEF SilentInv
  <2>1. PICK i \in 1 .. Len(inbox[calls[y][n].drive]) :
           inbox[calls[y][n].drive][i].op = y /\ inbox[calls[y][n].drive][i].n = n
    BY DEF WireInv, SilentInv
  <2>2. calls[y][n].drive \in Drives
    BY Typed
  <2> QED
    BY <1>7, <2>1, <2>2
<1>14. SentInv'
  <2> SUFFICES ASSUME NEW e \in Drives, NEW i \in 1 .. Len(inbox'[e]),
                      inbox'[e][i].n # 0, ~troubled[inbox'[e][i].op]
               PROVE  Silent(inbox[e][i].op, inbox[e][i].n)'
    BY DEF SentInv
  <2>1. i \in 1 .. Len(inbox[e]) /\ inbox'[e][i] = inbox[e][i]
    BY <1>5, <1>6
  <2>2. Silent(inbox[e][i].op, inbox[e][i].n)
    BY <2>1 DEF WireInv, SentInv
  <2> QED
    BY <2>1, <2>2 DEF Silent
<1>15. FifoInv'
  BY <1>9 DEF WireInv, FifoInv
<1>16. StoreInv'
  BY <1>9, <1>10, Typed DEF WireInv, StoreInv, Ops
<1>17. GoneInv'
  BY <1>9, <1>10 DEF WireInv, GoneInv, Ops
<1> QED
  BY <1>11, <1>12, <1>13, <1>14, <1>15, <1>16, <1>17 DEF WireInv

(* The outcome of a call comes once and changes nothing else. *)
SettledAt(x, n) ==
    /\ calls' \in [Ops -> Seq(Call)]
    /\ \A y \in Ops : Len(calls'[y]) = Len(calls[y])
    /\ \A y \in Ops : \A m \in 1 .. Len(calls[y]) :
          /\ calls'[y][m].drive = calls[y][m].drive /\ calls'[y][m].key = calls[y][m].key
          /\ ~Silent(y, m) \/ y # x \/ m # n => calls'[y][m] = calls[y][m]
    /\ n # 0 => ~Silent(x, n)'

(* Settle gives an outcome to one call, unless it has one. *)
LEMMA Settled ==
    ASSUME TypeOK, NEW r, r.op \in Ops, r.n \in 1 .. Len(calls[r.op]),
           NEW out \in Outcomes, out # "none", NEW val \in Values \cup {Nothing}, Settle(r, out, val)
    PROVE  SettledAt(r.op, r.n)
<1>1. calls \in [Ops -> Seq(Call)]
  BY DEF TypeOK
<1>2. CASE ~Silent(r.op, r.n)
  BY <1>1, <1>2 DEF Silent, Settle, SettledAt
<1>3. CASE Silent(r.op, r.n)
  <2>1. calls' = [calls EXCEPT ![r.op][r.n] = [calls[r.op][r.n] EXCEPT !.out = out, !.val = val]]
    BY <1>3 DEF Silent, Settle
  <2>2. \A y \in Ops : y # r.op => calls'[y] = calls[y]
    BY <1>1, <2>1
  <2>3. calls'[r.op] = [calls[r.op] EXCEPT ![r.n] = [calls[r.op][r.n] EXCEPT !.out = out, !.val = val]]
    BY <1>1, <2>1
  <2>4. calls[r.op] \in Seq(Call) /\ calls[r.op][r.n] \in Call
    BY <1>1
  <2>5. Len(calls'[r.op]) = Len(calls[r.op])
    BY <2>3, <2>4
  <2>6. \A m \in 1 .. Len(calls[r.op]) : m # r.n => calls'[r.op][m] = calls[r.op][m]
    BY <2>3, <2>4
  <2>7. calls'[r.op][r.n] = [calls[r.op][r.n] EXCEPT !.out = out, !.val = val]
    BY <2>3, <2>4
  <2>8. /\ calls'[r.op][r.n].drive = calls[r.op][r.n].drive
        /\ calls'[r.op][r.n].key = calls[r.op][r.n].key
        /\ calls'[r.op][r.n].out = out
        /\ [calls[r.op][r.n] EXCEPT !.out = out, !.val = val] \in Call
    BY <2>4, <2>7 DEF Call
  <2>9. calls'[r.op] \in Seq(Call)
    BY <2>3, <2>4, <2>8
  <2>10. calls' \in [Ops -> Seq(Call)]
    BY <1>1, <2>1, <2>2, <2>9
  <2> QED
    BY <1>3, <2>2, <2>5, <2>6, <2>8, <2>10 DEF SettledAt, Silent
<1> QED
  BY <1>2, <1>3

(* What the first element of a sequence leaves behind. *)
LEMMA Behind ==
    ASSUME NEW S, NEW s \in Seq(S), s # <<>>
    PROVE  /\ Head(s) = s[1] /\ Len(s) \in Nat /\ 1 \in 1 .. Len(s)
           /\ Len(Tail(s)) = Len(s) - 1
           /\ \A i \in 1 .. Len(Tail(s)) : i + 1 \in 1 .. Len(s) /\ i + 1 # 1 /\ Tail(s)[i] = s[i + 1]
           /\ \A i \in 1 .. Len(s) : i # 1 => i - 1 \in 1 .. Len(Tail(s)) /\ Tail(s)[i - 1] = s[i]
<1>1. Head(s) = s[1] /\ Len(s) \in Nat /\ 1 \in 1 .. Len(s)
  OBVIOUS
<1>2. Len(Tail(s)) = Len(s) - 1
  OBVIOUS
<1>3. \A i \in 1 .. Len(Tail(s)) : i + 1 \in 1 .. Len(s) /\ i + 1 # 1 /\ Tail(s)[i] = s[i + 1]
  BY <1>1, <1>2
<1>4. \A i \in 1 .. Len(s) : i # 1 => i - 1 \in 1 .. Len(Tail(s)) /\ (i - 1) + 1 = i
  BY <1>1, <1>2
<1>5. \A i \in 1 .. Len(s) : i # 1 => Tail(s)[i - 1] = s[i]
  BY <1>3, <1>4
<1> QED
  BY <1>1, <1>2, <1>3, <1>4, <1>5

(* The requests behind the first one. *)
LEMMA Taken ==
    ASSUME TypeOK, NEW d \in Drives, inbox[d] # <<>>, inbox' = [inbox EXCEPT ![d] = Tail(@)]
    PROVE  /\ Head(inbox[d]) = inbox[d][1] /\ 1 \in 1 .. Len(inbox[d])
           /\ Len(inbox[d]) \in Nat /\ Len(inbox'[d]) = Len(inbox[d]) - 1
           /\ \A i \in 1 .. Len(inbox'[d]) :
                 i + 1 \in 1 .. Len(inbox[d]) /\ i + 1 # 1 /\ inbox'[d][i] = inbox[d][i + 1]
           /\ \A i \in 1 .. Len(inbox[d]) :
                 i # 1 => i - 1 \in 1 .. Len(inbox'[d]) /\ inbox'[d][i - 1] = inbox[d][i]
           /\ \A e \in Drives \ {d} : inbox'[e] = inbox[e]
<1>1. inbox \in [Drives -> Seq(Request)]
  BY DEF TypeOK
<1>2. inbox[d] \in Seq(Request) /\ inbox'[d] = Tail(inbox[d]) /\ \A e \in Drives \ {d} : inbox'[e] = inbox[e]
  BY <1>1
<1>3. PICK s, t : s = inbox[d] /\ t = Tail(s)
  OBVIOUS
<1>4. s \in Seq(Request) /\ s # <<>> /\ t = inbox'[d]
  BY <1>2, <1>3
<1>5. /\ Head(s) = s[1] /\ Len(s) \in Nat /\ 1 \in 1 .. Len(s)
      /\ Len(t) = Len(s) - 1
      /\ \A i \in 1 .. Len(t) : i + 1 \in 1 .. Len(s) /\ i + 1 # 1 /\ t[i] = s[i + 1]
      /\ \A i \in 1 .. Len(s) : i # 1 => i - 1 \in 1 .. Len(t) /\ t[i - 1] = s[i]
  BY <1>3, <1>4, Behind
<1> QED
  BY <1>2, <1>3, <1>4, <1>5

(* What a request of drive d may change: its key there, and its page. *)
StoreStep(d, r) ==
    /\ \A e \in Drives : \A k \in Keys :
          (r.kind \notin {"put", "delete"} \/ e # d \/ k # r.key) => store'[e][k] = store[e][k]
    /\ r.kind \in {"put", "delete"} =>
          \/ store'[d][r.key] = r.val
          \/ store'[d][r.key] = store[d][r.key] /\ troubled'[r.op]

PageKept(d, r) ==
    \A y \in Ops : \A e \in Drives :
        (r.n # 0 \/ y # r.op \/ e # d) => page'[y][e] = page[y][e]

(* The first request of a drive is that of the oldest RPC of its operation. *)
LEMMA HeadFirst ==
    ASSUME TypeOK, OrderInv, NEW d \in Drives, inbox[d] # <<>>
    PROVE  \A i \in 1 .. Len(inbox[d]) :
              i # 1 /\ inbox[d][i].op = inbox[d][1].op => inbox[d][1].n < inbox[d][i].n
<1>1. Len(inbox[d]) \in Nat /\ 1 \in 1 .. Len(inbox[d])
  BY DEF TypeOK
<1> QED
  BY <1>1 DEF OrderInv

(* A drive is done with its first request: what is known of the others stays. *)
LEMMA TakenWire ==
    ASSUME TypeOK, WireInv, NEW d \in Drives, inbox[d] # <<>>,
           NEW r, r = Head(inbox[d]),
           inbox' = [inbox EXCEPT ![d] = Tail(@)],
           SettledAt(r.op, r.n),
           PageKept(d, r), StoreStep(d, r),
           \A y \in Ops : ~troubled'[y] => ~troubled[y],
           UNCHANGED <<step, ready, marker, plan, verdict>>
    PROVE  WireInv'
<1> USE DEF PageKept, StoreStep
<1>1. /\ r = inbox[d][1] /\ 1 \in 1 .. Len(inbox[d])
      /\ r.op \in Ops /\ r.n \in Nat
      /\ r.n = 0 => PageRequest(d, r)
      /\ r.n # 0 => CallRequest(d, r)
  BY Taken, Typed DEF WireInv, RequestInv
<1>2. /\ \A e \in Drives : \A i \in 1 .. Len(inbox'[e]) : \E j \in 1 .. Len(inbox[e]) :
            inbox'[e][i] = inbox[e][j] /\ (e = d => j # 1)
      /\ \A e \in Drives : \A i \in 1 .. Len(inbox[e]) : (e # d \/ i # 1) =>
            \E j \in 1 .. Len(inbox'[e]) : inbox'[e][j] = inbox[e][i]
  <2>1. ASSUME NEW e \in Drives, NEW i \in 1 .. Len(inbox'[e])
        PROVE  \E j \in 1 .. Len(inbox[e]) : inbox'[e][i] = inbox[e][j] /\ (e = d => j # 1)
    <3>1. CASE e = d
      <4>1. i \in 1 .. Len(inbox'[d])
        BY <3>1
      <4>2. i + 1 \in 1 .. Len(inbox[d]) /\ inbox'[d][i] = inbox[d][i + 1] /\ i + 1 # 1
        BY ZenonT(40), <4>1, Taken
      <4> QED
        BY <3>1, <4>2
    <3>2. CASE e # d
      <4>1. inbox'[e] = inbox[e]
        BY <3>2, Taken
      <4> QED
        BY <3>2, <4>1, Zenon
    <3> QED
      BY <3>1, <3>2
  <2>2. ASSUME NEW e \in Drives, NEW i \in 1 .. Len(inbox[e]), e # d \/ i # 1
        PROVE  \E j \in 1 .. Len(inbox'[e]) : inbox'[e][j] = inbox[e][i]
    <3>1. CASE e = d
      <4>1. i - 1 \in 1 .. Len(inbox'[e]) /\ inbox'[e][i - 1] = inbox[e][i]
        BY ZenonT(40), <2>2, <3>1, Taken
      <4> QED
        BY <4>1, Zenon
    <3>2. CASE e # d
      <4>1. inbox'[e] = inbox[e]
        BY <3>2, Taken
      <4> QED
        BY <4>1, Zenon
    <3> QED
      BY <3>1, <3>2
  <2> QED
    BY <2>1, <2>2
<1>3. \A i \in 1 .. Len(inbox[d]) : i # 1 /\ inbox[d][i].op = r.op => r.n < inbox[d][i].n
  BY <1>1, HeadFirst DEF WireInv
<1>4. /\ \A y \in Ops : \A n \in 1 .. Len(calls[y]) :
            /\ KindOf(y, n)' = KindOf(y, n) /\ Place(y, n)' = Place(y, n)
            /\ Silent(y, n)' => Silent(y, n)
            /\ Silent(y, n) => Silent(y, n)' \/ (y = r.op /\ n = r.n)
      /\ \A y \in Ops : Len(calls'[y]) = Len(calls[y]) /\ \A n \in 1 .. Len(calls[y]) :
            calls'[y][n].drive = calls[y][n].drive /\ calls'[y][n].key = calls[y][n].key
      /\ \A u \in Uploads : Puts(u)' = Puts(u)
      /\ r.n # 0 => ~Silent(r.op, r.n)'
  BY DEF SettledAt, KindOf, Place, Silent, Puts, Ops
<1>5. RequestInv'
  <2> SUFFICES ASSUME NEW e \in Drives, NEW i \in 1 .. Len(inbox'[e])
               PROVE  /\ inbox'[e][i].n = 0 => PageRequest(e, inbox[e][i])'
                      /\ inbox'[e][i].n # 0 => CallRequest(e, inbox[e][i])'
    BY DEF RequestInv
  <2>1. PICK j \in 1 .. Len(inbox[e]) : inbox'[e][i] = inbox[e][j] /\ (e = d => j # 1)
    BY ZenonT(40), <1>2
  <2>2. PICK q : q = inbox[e][j]
    OBVIOUS
  <2>3. /\ q.op \in Ops /\ q.n \in Nat
        /\ q.n = 0 => PageRequest(e, q)
        /\ q.n # 0 => CallRequest(e, q)
        /\ e = d /\ q.op = r.op => q.n > r.n
    BY <1>3, <2>1, <2>2, Typed DEF WireInv, RequestInv
  <2>4. q.n = 0 => PageRequest(e, q)'
    <3> SUFFICES ASSUME q.n = 0
                 PROVE  PageRequest(e, q)'
      OBVIOUS
    <3>1. r.n # 0 \/ q.op # r.op \/ e # d
      BY <1>1, <2>3
    <3>2. page'[q.op][e] = page[q.op][e]
      BY <2>3, <3>1
    <3> QED
      BY <2>3, <3>2 DEF PageRequest
  <2>5. q.n # 0 => CallRequest(e, q)'
    BY <1>4, <2>3 DEF CallRequest
  <2> QED
    BY <2>1, <2>2, <2>4, <2>5 DEF PageRequest, CallRequest
<1>6. OrderInv'
  <2> SUFFICES ASSUME NEW e \in Drives, NEW i \in 1 .. Len(inbox'[e]), NEW j \in 1 .. Len(inbox'[e]),
                      i < j, inbox'[e][i].op = inbox'[e][j].op
               PROVE  inbox'[e][i].n < inbox'[e][j].n
    BY DEF OrderInv
  <2>1. CASE e = d
    <3>1. /\ i + 1 \in 1 .. Len(inbox[d]) /\ inbox'[d][i] = inbox[d][i + 1]
          /\ j + 1 \in 1 .. Len(inbox[d]) /\ inbox'[d][j] = inbox[d][j + 1]
      BY ZenonT(40), <2>1, Taken
    <3>2. i \in Int /\ j \in Int /\ i < j
      BY <2>1, Taken
    <3>3. i + 1 < j + 1
      BY <3>2
    <3>4. inbox[d][i + 1].op = inbox[d][j + 1].op
      BY <2>1, <3>1
    <3>5. OrderInv
      BY DEF WireInv
    <3>6. inbox[d][i + 1].n < inbox[d][j + 1].n
      BY <3>1, <3>3, <3>4, <3>5 DEF OrderInv
    <3> QED
      BY <2>1, <3>1, <3>6
  <2>2. CASE e # d
    BY <2>2, Taken DEF WireInv, OrderInv
  <2> QED
    BY <2>1, <2>2
<1>7. SilentInv'
  <2> SUFFICES ASSUME NEW y \in Ops, NEW n \in 1 .. Len(calls[y]), Silent(y, n)'
               PROVE  \E i \in 1 .. Len(inbox'[calls[y][n].drive]) :
                         /\ inbox'[calls[y][n].drive][i].op = y
                         /\ inbox'[calls[y][n].drive][i].n = n
    BY <1>4 DEF SilentInv
  <2>1. Silent(y, n) /\ calls[y][n].drive \in Drives /\ n # 0
    BY <1>4, Typed
  <2>2. PICK e \in Drives : e = calls[y][n].drive
    BY <2>1
  <2>3. PICK i \in 1 .. Len(inbox[e]) : inbox[e][i].op = y /\ inbox[e][i].n = n
    <3>1. SilentInv
      BY DEF WireInv
    <3> QED
      BY <2>1, <2>2, <3>1 DEF SilentInv
  <2>4. e # d \/ i # 1
    BY <1>1, <1>4, <2>1, <2>3
  <2>5. \E j \in 1 .. Len(inbox'[e]) : inbox'[e][j] = inbox[e][i]
    BY ZenonT(40), <1>2, <2>4
  <2> QED
    BY <2>2, <2>3, <2>5
<1>8. SentInv'
  <2> SUFFICES ASSUME NEW e \in Drives, NEW i \in 1 .. Len(inbox'[e]),
                      inbox'[e][i].n # 0, ~troubled'[inbox'[e][i].op]
               PROVE  Silent(inbox[e][i].op, inbox[e][i].n)'
    BY DEF SentInv
  <2>1. PICK j \in 1 .. Len(inbox[e]) : inbox'[e][i] = inbox[e][j] /\ (e = d => j # 1)
    BY ZenonT(40), <1>2
  <2>2. PICK y, n : y = inbox[e][j].op /\ n = inbox[e][j].n
    OBVIOUS
  <2>3. y \in Ops /\ n # 0 /\ n \in 1 .. Len(calls[y]) /\ calls[y][n].drive = e
    <3>1. inbox'[e][i].n = n /\ inbox'[e][i].op = y
      BY <2>1, <2>2
    <3>2. n # 0
      BY <3>1
    <3>3. y \in Ops
      BY <2>2, Typed
    <3>4. CallRequest(e, inbox[e][j])
      BY <2>2, <3>2 DEF WireInv, RequestInv
    <3> QED
      BY <2>2, <3>2, <3>3, <3>4 DEF CallRequest
  <2>4. Silent(y, n)
    BY <2>1, <2>2, <2>3 DEF WireInv, SentInv
  <2>5. y # r.op \/ n # r.n
    <3> SUFFICES ASSUME y = r.op, n = r.n
                 PROVE  FALSE
      OBVIOUS
    <3>1. e = d
      BY <1>1, <2>3 DEF CallRequest
    <3> QED
      BY <1>1, <1>3, <2>1, <2>2, <3>1
  <2>6. Silent(y, n)'
    BY <1>4, <2>3, <2>4, <2>5
  <2> QED
    BY <2>1, <2>2, <2>6 DEF Silent
<1>9. FifoInv'
  <2> SUFFICES ASSUME NEW y \in Ops, ~troubled'[y],
                      NEW m \in 1 .. Len(calls[y]), NEW n \in 1 .. Len(calls[y]),
                      m < n, calls[y][m].drive = calls[y][n].drive, Silent(y, m)'
               PROVE  Silent(y, n)'
    BY <1>4 DEF FifoInv
  <2>1. Silent(y, m) /\ Silent(y, n) /\ m # 0 /\ n # 0 /\ m \in Nat /\ n \in Nat
    BY <1>4, Typed DEF WireInv, FifoInv
  <2>2. ASSUME y = r.op, n = r.n
        PROVE  FALSE
    <3>1. calls[y][m].drive = d
      BY <1>1, <2>1, <2>2 DEF CallRequest
    <3>2. PICK i \in 1 .. Len(inbox[d]) : inbox[d][i].op = y /\ inbox[d][i].n = m
      BY SMTT(30), <2>1, <3>1 DEF WireInv, SilentInv
    <3>3. i # 1
      BY <1>1, <2>2, <3>2
    <3>4. n < m
      BY <1>3, <2>2, <3>2, <3>3
    <3> QED
      BY <2>1, <3>4
  <2> QED
    BY <1>4, <2>1, <2>2
<1>10. StoreInv'
  <2> SUFFICES ASSUME NEW e \in Drives, NEW k \in Keys, store'[e][k] # Nothing,
                      NEW u, NEW n, u = store'[e][k][1], n = store'[e][k][2]
               PROVE  /\ n <= Len(calls[u])' /\ n <= Puts(u)' /\ Place(u, n)' = <<e, k>>
                      /\ ~troubled'[u] => ~Silent(u, n)'
    BY DEF StoreInv, Place, Silent, Puts
  <2>1. CASE store'[e][k] = store[e][k]
    <3>1. u \in Uploads /\ u \in Ops /\ n \in Nat \ {0}
      BY <2>1, Typed DEF Ops
    <3>2. /\ n <= Len(calls[u]) /\ n <= Puts(u) /\ Place(u, n) = <<e, k>>
          /\ ~troubled[u] => ~Silent(u, n)
      BY <2>1 DEF WireInv, StoreInv
    <3>3. n \in 1 .. Len(calls[u])
      BY <3>1, <3>2, Typed
    <3> QED
      BY <1>4, <3>1, <3>2, <3>3
  <2>2. CASE store'[e][k] # store[e][k]
    <3>1. e = d /\ k = r.key /\ r.kind \in {"put", "delete"} /\ store'[e][k] = r.val
      BY <2>2
    <3>2. r.n # 0
      BY <1>1, <3>1 DEF PageRequest
    <3>3. CallRequest(d, r) /\ r.kind = "put" /\ r.val = <<r.op, r.n>>
      BY <1>1, <3>1, <3>2 DEF CallRequest
    <3>4. u = r.op /\ n = r.n
      BY <3>1, <3>3
    <3>5. /\ n \in 1 .. Len(calls[u]) /\ Place(u, n) = <<e, k>> /\ u \in Ops /\ KindOf(u, n) = "put"
      BY <1>1, <3>1, <3>3, <3>4 DEF CallRequest, Place
    <3>6. n <= Puts(u) /\ n <= Len(calls[u]) /\ u \in Uploads
      BY <3>5, Typed DEF KindOf
    <3> QED
      BY <1>4, <3>2, <3>4, <3>5, <3>6
  <2> QED
    BY <2>1, <2>2
<1>11. GoneInv'
  <2> SUFFICES ASSUME NEW u \in Uploads, NEW n \in 1 .. Len(calls[u]),
                      ~troubled'[u], n > Puts(u), ~Silent(u, n)',
                      store'[calls[u][n].drive][calls[u][n].key] # Nothing,
                      store'[calls[u][n].drive][calls[u][n].key][1] = u
               PROVE  FALSE
    BY <1>4 DEF GoneInv, Ops
  <2>1. u \in Ops /\ u \notin Downloads /\ n \in Nat \ {0} /\ Len(calls[u]) \in Nat
    BY OpsAssumption, Typed DEF Ops
  <2>2. PICK e, k : e = calls[u][n].drive /\ k = calls[u][n].key
    OBVIOUS
  <2>3. e \in Drives /\ k \in Keys
    BY <2>1, <2>2, Typed
  <2>4. CASE u = r.op /\ n = r.n
    <3>1. CallRequest(d, r)
      BY <1>1, <2>1, <2>4
    <3>2. n <= Puts(u) <=> ~(n > Puts(u))
      BY <2>1, Typed DEF Puts
    <3>3. r.kind = "delete"
      BY <2>1, <2>4, <3>1, <3>2 DEF CallRequest, KindOf
    <3>4. r.val = Nothing /\ e = d /\ k = r.key
      BY <2>2, <2>4, <3>1, <3>3 DEF CallRequest
    <3> QED
      BY ZenonT(40), <2>2, <2>4, <3>3, <3>4
  <2>5. CASE u # r.op \/ n # r.n
    <3>1. ~Silent(u, n)
      BY <1>4, <2>1, <2>5
    <3>2. ~(store[e][k] # Nothing /\ store[e][k][1] = u)
      <4>1. GoneInv /\ ~troubled[u]
        BY <2>1 DEF WireInv
      <4> QED
        BY <2>2, <3>1, <4>1 DEF GoneInv
    <3>3. store'[e][k] # store[e][k]
      BY <2>2, <3>2
    <3>4. e = d /\ k = r.key /\ r.kind \in {"put", "delete"} /\ store'[e][k] = r.val
      BY <2>3, <3>3
    <3>5. r.n # 0
      BY <1>1, <3>4 DEF PageRequest
    <3>6. CallRequest(d, r) /\ r.kind = "put" /\ r.val = <<r.op, r.n>>
      BY <1>1, <2>2, <3>4, <3>5 DEF CallRequest
    <3>7. r.op = u
      BY <2>2, <3>4, <3>6
    <3>8. /\ r.n \in 1 .. Len(calls[u]) /\ r.n <= Puts(u) /\ calls[u][r.n].drive = calls[u][n].drive
          /\ Puts(u) \in Nat
      BY ZenonT(40), <2>1, <2>2, <3>4, <3>6, <3>7, Typed DEF CallRequest, KindOf, Puts
    <3>9. r.n < n
      BY <1>1, <2>1, <3>8
    <3>10. Silent(u, r.n)
      BY <1>1, <2>1, <3>5, <3>7 DEF WireInv, SentInv
    <3> QED
      BY <2>1, <3>1, <3>8, <3>9, <3>10 DEF WireInv, FifoInv
  <2> QED
    BY <2>4, <2>5
<1> QED
  BY <1>5, <1>6, <1>7, <1>8, <1>9, <1>10, <1>11 DEF WireInv

(* A call that times out has an outcome although its request is on its way: its *)
(* operation is troubled.                                                       *)
LEMMA TimedOutWire ==
    ASSUME TypeOK, WireInv, NEW r, r.op \in Ops, r.n # 0,
           SettledAt(r.op, r.n),
           troubled' = [troubled EXCEPT ![r.op] = TRUE],
           UNCHANGED <<driveVars, step, page, ready, marker, plan, verdict>>
    PROVE  WireInv'
<1>1. /\ \A y \in Ops : \A n \in 1 .. Len(calls[y]) :
            /\ KindOf(y, n)' = KindOf(y, n) /\ Place(y, n)' = Place(y, n)
            /\ Silent(y, n)' => Silent(y, n)
            /\ ~troubled'[y] => Silent(y, n)' = Silent(y, n)
      /\ \A y \in Ops : Len(calls'[y]) = Len(calls[y]) /\ \A n \in 1 .. Len(calls[y]) :
            calls'[y][n].drive = calls[y][n].drive /\ calls'[y][n].key = calls[y][n].key
      /\ \A u \in Uploads : Puts(u)' = Puts(u)
      /\ \A y \in Ops : ~troubled'[y] => ~troubled[y]
  BY SMTT(30) DEF SettledAt, KindOf, Place, Silent, Puts, Ops, TypeOK
<1>2. inbox' = inbox /\ store' = store
  BY DEF driveVars
<1>3. RequestInv'
  <2> SUFFICES ASSUME NEW d \in Drives, NEW i \in 1 .. Len(inbox[d])
               PROVE  /\ inbox[d][i].n = 0 => PageRequest(d, inbox[d][i])'
                      /\ inbox[d][i].n # 0 => CallRequest(d, inbox[d][i])'
    BY <1>2 DEF RequestInv
  <2>1. PICK q : q = inbox[d][i]
    OBVIOUS
  <2>2. /\ q.op \in Ops
        /\ q.n = 0 => PageRequest(d, q)
        /\ q.n # 0 => CallRequest(d, q)
    BY <2>1, Typed DEF WireInv, RequestInv
  <2>3. q.n = 0 => PageRequest(d, q)'
    BY <2>2 DEF PageRequest
  <2>4. q.n # 0 => CallRequest(d, q)'
    BY <1>1, <2>2 DEF CallRequest
  <2> QED
    BY <1>2, <2>1, <2>3, <2>4 DEF PageRequest, CallRequest
<1>4. OrderInv'
  BY <1>2 DEF WireInv, OrderInv
<1>5. SilentInv'
  <2>1. SilentInv
    BY DEF WireInv
  <2>2. SUFFICES ASSUME NEW y \in Ops, NEW n \in 1 .. Len(calls'[y]), Silent(y, n)'
                 PROVE  \E i \in 1 .. Len(inbox[calls'[y][n].drive]) :
                           /\ inbox[calls'[y][n].drive][i].op = y
                           /\ inbox[calls'[y][n].drive][i].n = n
    BY <1>2 DEF SilentInv
  <2>3. n \in 1 .. Len(calls[y]) /\ Silent(y, n) /\ calls'[y][n].drive = calls[y][n].drive
    BY <1>1, <2>2
  <2> QED
    BY <2>1, <2>3 DEF SilentInv
<1>6. SentInv'
  <2> SUFFICES ASSUME NEW d \in Drives, NEW i \in 1 .. Len(inbox[d]),
                      inbox[d][i].n # 0, ~troubled'[inbox[d][i].op]
               PROVE  Silent(inbox[d][i].op, inbox[d][i].n)'
    BY <1>2 DEF SentInv, Silent
  <2>1. inbox[d][i].op \in Ops /\ inbox[d][i].n \in 1 .. Len(calls[inbox[d][i].op])
    BY Typed DEF WireInv, RequestInv, CallRequest
  <2>2. Silent(inbox[d][i].op, inbox[d][i].n)
    BY <1>1, <2>1 DEF WireInv, SentInv
  <2>3. PICK y, n : y = inbox[d][i].op /\ n = inbox[d][i].n
    OBVIOUS
  <2>4. Silent(y, n)'
    BY <1>1, <2>1, <2>2, <2>3
  <2> QED
    BY <1>2, <2>3, <2>4 DEF Silent
<1>7. FifoInv'
  BY <1>1 DEF WireInv, FifoInv
<1>8. StoreInv'
  <2> SUFFICES ASSUME NEW e \in Drives, NEW k \in Keys, store[e][k] # Nothing,
                      NEW u, NEW n, u = store[e][k][1], n = store[e][k][2]
               PROVE  /\ n <= Len(calls[u])' /\ n <= Puts(u)' /\ Place(u, n)' = <<e, k>>
                      /\ ~troubled'[u] => ~Silent(u, n)'
    BY <1>2 DEF StoreInv, Place, Silent, Puts
  <2>1. u \in Uploads /\ u \in Ops /\ n \in Nat \ {0}
    BY Typed DEF Ops
  <2>2. /\ n <= Len(calls[u]) /\ n <= Puts(u) /\ Place(u, n) = <<e, k>>
        /\ ~troubled[u] => ~Silent(u, n)
    BY DEF WireInv, StoreInv
  <2>3. n \in 1 .. Len(calls[u])
    BY <2>1, <2>2, Typed
  <2> QED
    BY <1>1, <2>1, <2>2, <2>3
<1>9. GoneInv'
  BY <1>1, <1>2 DEF WireInv, GoneInv, Ops
<1> QED
  BY <1>3, <1>4, <1>5, <1>6, <1>7, <1>8, <1>9 DEF WireInv

-----------------------------------------------------------------------------
(* What a step leaves to the operations it is not of. *)

(* An operation that is not listing, or whose round is over, asks for no page. *)
LEMMA IsQuiet ==
    ASSUME WireInv, NEW x \in Ops, step[x] # "list" \/ \A d \in ready[x] : page[x][d].st # "asked"
    PROVE  Quiet(x)
BY DEF WireInv, RequestInv, PageRequest, Quiet

(* A step of one operation leaves what the others know of their calls. *)
LEMMA CallInvStep ==
    ASSUME CallInv, NEW x \in Ops,
           \A y \in Ops \ {x} : /\ step'[y] = step[y] /\ calls'[y] = calls[y] /\ plan'[y] = plan[y]
                                /\ waited'[y] = waited[y] /\ verdict'[y] = verdict[y],
           \A u \in Uploads \ {x} : blocks'[u] = blocks[u] /\ meta'[u] = meta[u],
           target' = target,
           x \in Uploads => UploadInv(x)', x \in Listers => ListerInv(x)', AnswerInv(x)'
    PROVE  CallInv'
<1>1. ASSUME NEW y \in Ops, y # x
      PROVE  AnswerInv(y)'
  <2>1. AnswerInv(y) /\ calls'[y] = calls[y] /\ plan'[y] = plan[y] /\ waited'[y] = waited[y]
    BY <1>1 DEF CallInv
  <2> QED
    BY <2>1 DEF AnswerInv, Earlier, Silent
<1>2. ASSUME NEW y \in Listers, y # x
      PROVE  ListerInv(y)'
  BY <1>2 DEF CallInv, ListerInv, Place, Listers, Ops
<1>3. ASSUME NEW y \in Uploads, y # x
      PROVE  UploadInv(y)'
  <2>1. UploadInv(y) /\ y \in Ops \ {x} /\ y \in Uploads \ {x}
    BY <1>3 DEF CallInv, Ops
  <2>2. /\ step'[y] = step[y] /\ calls'[y] = calls[y] /\ plan'[y] = plan[y] /\ target'[y] = target[y]
        /\ waited'[y] = waited[y] /\ verdict'[y] = verdict[y] /\ blocks'[y] = blocks[y] /\ meta'[y] = meta[y]
    BY <2>1
  <2>3. /\ Puts(y)' = Puts(y)
        /\ \A n : Place(y, n)' = Place(y, n)
    BY <2>2 DEF Puts, Place
  <2> QED
    BY <2>1, <2>2, <2>3 DEF UploadInv
<1> QED
  BY <1>1, <1>2, <1>3 DEF CallInv

(* Nothing changes of what operations know of their calls. *)
LEMMA CallInvSame ==
    ASSUME CallInv, UNCHANGED <<step, calls, plan, waited, verdict, target, blocks, meta>>
    PROVE  CallInv'
<1>1. /\ \A u : Puts(u)' = Puts(u)
      /\ \A x : Earlier(x)' = Earlier(x)
      /\ \A x, n : Place(x, n)' = Place(x, n) /\ Silent(x, n)' = Silent(x, n)
  BY DEF Puts, Earlier, Place, Silent
<1>2. ASSUME NEW u \in Uploads PROVE UploadInv(u)'
  BY <1>1 DEF CallInv, UploadInv
<1>3. ASSUME NEW x \in Listers PROVE ListerInv(x)'
  BY <1>1 DEF CallInv, ListerInv
<1>4. ASSUME NEW x \in Ops PROVE AnswerInv(x)'
  <2>1. AnswerInv(x)
    BY DEF CallInv
  <2> QED
    BY <2>1 DEF AnswerInv, Earlier, Silent
<1> QED
  BY <1>2, <1>3, <1>4 DEF CallInv

(* A call gets its outcome: what operations know of their calls stays. *)
LEMMA CallInvSettled ==
    ASSUME TypeOK, CallInv, NEW x, NEW n, SettledAt(x, n),
           UNCHANGED <<step, plan, waited, verdict, target, blocks, meta>>
    PROVE  CallInv'
<1>1. \A y \in Ops : Len(calls'[y]) = Len(calls[y]) /\ Len(calls[y]) \in Nat
  BY Typed DEF SettledAt
<1>2. \A y \in Ops : \A m \in 1 .. Len(calls[y]) :
         /\ calls'[y][m].drive = calls[y][m].drive /\ calls'[y][m].key = calls[y][m].key
         /\ Place(y, m)' = Place(y, m)
         /\ ~Silent(y, m) => ~Silent(y, m)'
  BY DEF SettledAt, Place, Silent
<1>3. \A y \in Uploads : Puts(y)' = Puts(y)
  BY <1>1 DEF Puts, Ops
<1>4. ASSUME NEW y \in Ops
      PROVE  AnswerInv(y)'
  <2>1. AnswerInv(y) /\ Earlier(y)' = Earlier(y) /\ Earlier(y) \in Nat /\ waited[y] \in Nat
    BY Typed DEF CallInv, Earlier
  <2>2. \A i \in 1 .. waited[y] : Earlier(y) + i \in 1 .. Len(calls[y])
    BY <1>1, <2>1 DEF AnswerInv
  <2>3. PICK e : e = Earlier(y) /\ e = Earlier(y)'
    BY <2>1
  <2>4. \A i \in 1 .. waited[y] : ~Silent(y, e + i)'
    BY <1>2, <2>1, <2>2, <2>3 DEF AnswerInv
  <2> QED
    BY <1>1, <2>1, <2>3, <2>4 DEF AnswerInv, Silent
<1>5. ASSUME NEW y \in Listers
      PROVE  ListerInv(y)'
  <2>1. y \in Ops /\ ListerInv(y)
    BY DEF CallInv, Listers, Ops
  <2>2. calls[y] = <<>> => calls'[y] = <<>>
    <3>1. calls'[y] \in Seq(Call)
      BY <2>1 DEF SettledAt
    <3> QED
      BY <1>1, <2>1, <3>1
  <2> QED
    BY <1>1, <1>2, <2>1, <2>2 DEF ListerInv
<1>6. ASSUME NEW y \in Uploads
      PROVE  UploadInv(y)'
  BY <1>1, <1>2, <1>3 DEF CallInv, UploadInv, Ops
<1> QED
  BY <1>4, <1>5, <1>6 DEF CallInv

-----------------------------------------------------------------------------
(* The steps of uploads. *)

(* The keys and the values of an upload's PUT are keys and values. *)
LEMMA BlockKey ==
    ASSUME NEW n \in Nat, n <= MaxBlocks + MetaBlocks + 1, NEW full \in BOOLEAN
    PROVE  Block(n, full) \in Keys /\ Block(n, full) # Manifest
BY SizesAssumption DEF Keys, Manifest, Block

(* What a PUT carries is a value. *)
LEMMA Pairs ==
    ASSUME TypeOK, NEW u \in Uploads, NEW n \in Nat \ {0}, n <= MaxBlocks + MetaBlocks + 2
    PROVE  <<u, n>> \in Values /\ <<u, n>> # Nothing
BY SizesAssumption DEF Values, Nothing

(* The drive of the next PUT is one of the upload. *)
LEMMA ClientIsTarget ==
    ASSUME TypeOK, NEW u \in Uploads, target[u] # {}
    PROVE  ClientOf(u) \in target[u] /\ ClientOf(u) \in Drives
<1>1. PICK S \in SUBSET Drives : S = target[u]
  BY DEF TypeOK
<1>2. S \in SUBSET Nat /\ IsFiniteSet(S)
  <2>1. IsFiniteSet(1 .. NDrives)
    <3>1. 1 \in Int /\ NDrives \in Int
      BY SizesAssumption
    <3> QED
      BY <3>1, FS_Interval
  <2>2. S \in SUBSET (1 .. NDrives)
    BY DEF Drives
  <2>3. IsFiniteSet(S)
    BY <2>1, <2>2, FS_Subset
  <2> QED
    BY <2>2, <2>3
<1>3. PICK s : s = [n \in 1 .. Cardinality(S) |->
                      CHOOSE k \in S : Cardinality({j \in S : j < k}) = n - 1]
  OBVIOUS
<1>4. s \in [1 .. Cardinality(S) -> S] /\ Cardinality(S) \in Nat
  BY <1>2, <1>3, SortedNumbers
<1>5. Cardinality(S) # 0
  BY <1>1, <1>2, FS_EmptySet
<1>6. PICK i : i = (Len(calls[u]) % Cardinality(S)) + 1
  OBVIOUS
<1>7. i \in 1 .. Cardinality(S)
  <2>1. Len(calls[u]) \in Nat
    BY Typed DEF Ops
  <2> QED
    BY <1>4, <1>5, <1>6, <2>1
<1>8. ClientOf(u) = s[i]
  BY <1>1, <1>3, <1>6 DEF ClientOf, Sorted
<1> QED
  BY <1>1, <1>4, <1>7, <1>8

(* A PUT of an upload that may still write, of a block or of the manifest. *)
LEMMA PutStep ==
    ASSUME DeliveryInv, NEW u \in Uploads, NEW key \in Keys, TriggerUpload(u, key),
           step[u] \in {"prepared", "commit"},
           Len(calls[u]) <= MaxBlocks + MetaBlocks + 1,
           \A y \in Ops \ {u} : step'[y] = step[y],
           UNCHANGED <<store, listVars, plan, waited, verdict, target, troubled>>
    PROVE  /\ WireInv'
           /\ calls' \in [Ops -> Seq(Call)] /\ inbox' \in [Drives -> Seq(Request)]
           /\ \A y \in Ops \ {u} : calls'[y] = calls[y]
           /\ Len(calls[u]) \in Nat /\ Len(calls'[u]) = Len(calls[u]) + 1
           /\ \A n \in 1 .. Len(calls'[u]) :
                 \/ n \in 1 .. Len(calls[u]) /\ calls'[u][n] = calls[u][n]
                 \/ n = Len(calls'[u]) /\ calls'[u][n].drive \in target[u] /\ calls'[u][n].key = key
<1> DEFINE N == Len(calls[u]) + 1
           c == [drive |-> ClientOf(u), key |-> key, out |-> "none", val |-> Nothing]
           q == [op |-> u, n |-> N, kind |-> "put", key |-> key, val |-> <<u, N>>]
<1>1. /\ TypeOK /\ WireInv /\ UploadInv(u) /\ u \in Ops /\ u \notin Downloads
      /\ calls \in [Ops -> Seq(Call)] /\ inbox \in [Drives -> Seq(Request)]
  BY OpsAssumption DEF DeliveryInv, CallInv, TypeOK, Ops
<1>2. target[u] # {} /\ verdict[u] = "none"
  BY <1>1 DEF UploadInv
<1>3. ClientOf(u) \in target[u] /\ ClientOf(u) \in Drives
  BY <1>1, <1>2, ClientIsTarget
<1>4. Len(calls[u]) \in Nat /\ N \in Nat \ {0} /\ N <= MaxBlocks + MetaBlocks + 2
  BY <1>1, Typed, SizesAssumption
<1>5. StartCall(u, ClientOf(u), "put", key, <<u, N>>)
  BY DEF TriggerUpload
<1>6. /\ calls' = [calls EXCEPT ![u] = Append(calls[u], c)]
      /\ inbox' = [inbox EXCEPT ![ClientOf(u)] = Append(inbox[ClientOf(u)], q)]
  BY <1>5 DEF StartCall, Post
<1>7. c \in Call /\ q \in Request
  <2>1. <<u, N>> \in Values
    BY <1>1, <1>4, Pairs
  <2> QED
    BY <1>1, <1>3, <1>4, <2>1 DEF Call, Request, Outcomes
<1>8. calls' \in [Ops -> Seq(Call)] /\ inbox' \in [Drives -> Seq(Request)]
  <2> HIDE DEF c, q, N
  <2>1. Append(calls[u], c) \in Seq(Call) /\ Append(inbox[ClientOf(u)], q) \in Seq(Request)
    BY <1>1, <1>3, <1>7
  <2> QED
    BY <1>1, <1>3, <1>6, <2>1
<1>9. /\ \A y \in Ops \ {u} : calls'[y] = calls[y]
      /\ calls'[u] = Append(calls[u], c) /\ calls[u] \in Seq(Call)
  BY <1>1, <1>6
<1>10. c.drive = ClientOf(u) /\ c.key = key
  OBVIOUS
<1>11. /\ Len(calls'[u]) = Len(calls[u]) + 1
       /\ \A n \in 1 .. Len(calls'[u]) :
             \/ n \in 1 .. Len(calls[u]) /\ calls'[u][n] = calls[u][n]
             \/ n = Len(calls'[u]) /\ calls'[u][n].drive \in target[u] /\ calls'[u][n].key = key
  <2> HIDE DEF c
  <2> QED
    BY <1>3, <1>9, <1>10, Appended
<1>12. WireInv'
  <2>1. PICK d \in Drives : d = ClientOf(u)
    BY <1>3
  <2>2. PICK v, M : M = N /\ v = <<u, M>>
    OBVIOUS
  <2>3. Quiet(u)
    BY <1>1, IsQuiet
  <2>4. KindOf(u, M)' = "put"
    <3>1. Puts(u)' = M
      BY <1>2, <1>11, <2>2 DEF Puts
    <3> QED
      BY <1>1, <1>4, <2>2, <3>1 DEF KindOf
  <2>5. StartCall(u, d, "put", key, v) /\ M = Len(calls[u]) + 1
    BY <1>5, <2>1, <2>2
  <2> QED
    BY <1>1, <2>2, <2>3, <2>4, <2>5, CallWire
<1> QED
  BY <1>4, <1>8, <1>9, <1>11, <1>12

(* Write fills the buffer. *)
LEMMA WriteBlockStep ==
    ASSUME DeliveryInv, NEW u \in Uploads, WriteBlock(u)
    PROVE  DeliveryInv'
<1>1. TypeOK /\ CallInv /\ UploadInv(u) /\ AnswerInv(u) /\ u \in Ops /\ u \notin Listers
  BY OpsAssumption DEF DeliveryInv, CallInv, Ops, Listers
<1>2. /\ step[u] = "prepared" /\ blocks[u] < MaxBlocks
      /\ TriggerUpload(u, Block(Len(calls[u]), TRUE))
      /\ blocks' = [blocks EXCEPT ![u] = @ + 1] /\ buffered' = [buffered EXCEPT ![u] = FALSE]
      /\ UNCHANGED <<store, step, listVars, plan, waited, got, target, meta, verdict,
                     steady, troubled, failures>>
  BY DEF WriteBlock, rollVars, history
<1>3. Len(calls[u]) \in Nat /\ Len(calls[u]) < MaxBlocks /\ blocks[u] \in Nat /\ Len(calls[u]) = blocks[u]
  BY <1>1, <1>2, Typed DEF UploadInv
<1>4. PICK n, key : n = Len(calls[u]) /\ key = Block(n, TRUE)
  OBVIOUS
<1>5. key \in Keys /\ key # Manifest
  <2>1. n \in Nat /\ n <= MaxBlocks + MetaBlocks + 1
    BY <1>3, <1>4, SizesAssumption
  <2> QED
    BY <1>4, <2>1, BlockKey
<1>6. /\ WireInv'
      /\ calls' \in [Ops -> Seq(Call)] /\ inbox' \in [Drives -> Seq(Request)]
      /\ \A y \in Ops \ {u} : calls'[y] = calls[y]
      /\ Len(calls'[u]) = Len(calls[u]) + 1
      /\ \A m \in 1 .. Len(calls'[u]) :
            \/ m \in 1 .. Len(calls[u]) /\ calls'[u][m] = calls[u][m]
            \/ m = Len(calls'[u]) /\ calls'[u][m].drive \in target[u] /\ calls'[u][m].key = key
  <2>1. Len(calls[u]) <= MaxBlocks + MetaBlocks + 1
    BY <1>3, SizesAssumption
  <2>2. TriggerUpload(u, key)
    BY <1>2, <1>4
  <2> QED
    BY <1>2, <1>5, <2>1, <2>2, PutStep
<1>7. TypeOK'
  <2>1. blocks[u] + 1 \in 0 .. MaxBlocks + 1
    BY <1>2, <1>3, SizesAssumption DEF UploadInv
  <2>2. blocks' \in [Uploads -> 0 .. MaxBlocks + 1]
    BY <1>1, <1>2, <2>1 DEF TypeOK
  <2>3. buffered' \in [Uploads -> BOOLEAN]
    BY <1>1, <1>2 DEF TypeOK
  <2> QED
    BY <1>1, <1>2, <1>6, <2>2, <2>3 DEF TypeOK, listVars
<1>8. UploadInv(u)'
  <2>1. Puts(u)' = Len(calls'[u]) /\ Puts(u) = Len(calls[u])
    BY <1>1, <1>2 DEF UploadInv, Puts
  <2>2. blocks'[u] = blocks[u] + 1
    BY <1>1, <1>2 DEF TypeOK
  <2>3. \A m \in 1 .. Len(calls'[u]) : calls'[u][m].drive \in target[u] /\ calls'[u][m].key # Manifest
    <3>1. \A m \in 1 .. Len(calls[u]) : calls[u][m].drive \in target[u] /\ calls[u][m].key # Manifest
      BY <1>1, <1>2, <1>3, <2>1 DEF UploadInv
    <3> QED
      BY <1>5, <1>6, <3>1
  <2> QED
    BY <1>1, <1>2, <1>3, <1>6, <2>1, <2>2, <2>3, SizesAssumption DEF UploadInv
<1>9. AnswerInv(u)'
  BY <1>1, <1>2, <1>3, <1>6 DEF AnswerInv, Earlier, UploadInv
<1>10. CallInv'
  BY <1>1, <1>2, <1>6, <1>8, <1>9, CallInvStep DEF TypeOK
<1> QED
  BY <1>6, <1>7, <1>10 DEF DeliveryInv

(* Commit flushes the buffer. *)
LEMMA FlushStep ==
    ASSUME DeliveryInv, NEW u \in Uploads, Flush(u)
    PROVE  DeliveryInv'
<1>1. TypeOK /\ WireInv /\ CallInv /\ UploadInv(u) /\ AnswerInv(u) /\ u \in Ops /\ u \notin Listers
  BY OpsAssumption DEF DeliveryInv, CallInv, Ops, Listers
<1>2. /\ step[u] = "prepared" /\ step' = [step EXCEPT ![u] = "commit"]
      /\ buffered' = [buffered EXCEPT ![u] = FALSE]
      /\ UNCHANGED <<store, listVars, plan, waited, got, target, meta, verdict,
                     steady, troubled, failures>>
  BY DEF Flush, Go, rollVars, history
<1>3. /\ Len(calls[u]) \in Nat /\ Len(calls[u]) <= MaxBlocks /\ blocks[u] \in Nat
      /\ Len(calls[u]) = blocks[u] /\ blocks[u] <= MaxBlocks /\ meta[u] = 0
      /\ verdict[u] = "none" /\ plan[u] = <<>> /\ waited[u] = 0 /\ target[u] # {}
      /\ \E d \in Drives : target[u] = {d}
  BY <1>1, <1>2, Typed DEF UploadInv
<1>4. step'[u] = "commit" /\ \A y \in Ops \ {u} : step'[y] = step[y]
  BY <1>1, <1>2 DEF TypeOK
<1>5. \A m \in 1 .. Len(calls[u]) : calls[u][m].drive \in target[u] /\ calls[u][m].key # Manifest
  <2>1. Puts(u) = Len(calls[u])
    BY <1>3 DEF Puts
  <2> QED
    BY <1>1, <1>2, <1>3, <2>1 DEF UploadInv
<1>6. CASE buffered[u]
  <2>1. /\ TriggerUpload(u, Block(Len(calls[u]), FALSE))
        /\ blocks' = [blocks EXCEPT ![u] = @ + 1]
    BY <1>6 DEF Flush
  <2>2. PICK n, key : n = Len(calls[u]) /\ key = Block(n, FALSE)
    OBVIOUS
  <2>3. key \in Keys /\ key # Manifest
    <3>1. n \in Nat /\ n <= MaxBlocks + MetaBlocks + 1
      BY <1>3, <2>2, SizesAssumption
    <3> QED
      BY <2>2, <3>1, BlockKey
  <2>4. /\ WireInv'
        /\ calls' \in [Ops -> Seq(Call)] /\ inbox' \in [Drives -> Seq(Request)]
        /\ \A y \in Ops \ {u} : calls'[y] = calls[y]
        /\ Len(calls'[u]) = Len(calls[u]) + 1
        /\ \A m \in 1 .. Len(calls'[u]) :
              \/ m \in 1 .. Len(calls[u]) /\ calls'[u][m] = calls[u][m]
              \/ m = Len(calls'[u]) /\ calls'[u][m].drive \in target[u] /\ calls'[u][m].key = key
    <3>1. Len(calls[u]) <= MaxBlocks + MetaBlocks + 1
      BY <1>3, SizesAssumption
    <3>2. TriggerUpload(u, key)
      BY <2>1, <2>2
    <3> QED
      BY <1>2, <1>4, <2>3, <3>1, <3>2, PutStep
  <2>5. blocks'[u] = blocks[u] + 1 /\ \A y \in Uploads \ {u} : blocks'[y] = blocks[y]
    BY <1>1, <2>1 DEF TypeOK
  <2>6. TypeOK'
    <3>1. blocks' \in [Uploads -> 0 .. MaxBlocks + 1]
      <4>1. blocks[u] + 1 \in 0 .. MaxBlocks + 1
        BY <1>3, SizesAssumption
      <4> QED
        BY <1>1, <2>1, <4>1 DEF TypeOK
    <3> QED
      BY <1>1, <1>2, <2>4, <3>1 DEF TypeOK, listVars
  <2>7. UploadInv(u)'
    <3>1. Puts(u)' = Len(calls'[u])
      BY <1>2, <1>3 DEF Puts
    <3>2. \A m \in 1 .. Len(calls'[u]) : calls'[u][m].drive \in target[u] /\ calls'[u][m].key # Manifest
      BY <1>5, <2>3, <2>4
    <3> QED
      BY <1>2, <1>3, <1>4, <2>4, <2>5, <3>1, <3>2 DEF UploadInv
  <2>8. AnswerInv(u)'
    BY <1>1, <1>2, <1>3, <2>4 DEF AnswerInv, Earlier
  <2>9. CallInv'
    BY <1>1, <1>2, <1>4, <2>4, <2>5, <2>7, <2>8, CallInvStep
  <2> QED
    BY <2>4, <2>6, <2>9 DEF DeliveryInv
<1>7. CASE ~buffered[u]
  <2>1. UNCHANGED <<inbox, calls, blocks>>
    BY <1>7 DEF Flush
  <2>2. TypeOK'
    BY <1>1, <1>2, <2>1 DEF TypeOK, listVars
  <2>3. UploadInv(u)'
    <3>1. Puts(u)' = Puts(u) /\ Puts(u) = Len(calls[u])
      BY <1>2, <1>3, <2>1 DEF Puts
    <3> QED
      BY <1>2, <1>3, <1>4, <1>5, <2>1, <3>1 DEF UploadInv
  <2>4. AnswerInv(u)'
    BY <1>1, <1>2, <1>3, <2>1 DEF AnswerInv, Earlier
  <2>5. CallInv'
    BY <1>1, <1>2, <1>4, <2>1, <2>3, <2>4, CallInvStep
  <2>6. WireInv'
    <3>1. Quiet(u)
      BY <1>1, <1>2, IsQuiet
    <3>2. \A v \in Uploads : Puts(v)' = Puts(v)
      BY <1>2, <2>1 DEF Puts
    <3> QED
      BY <1>1, <1>2, <1>4, <2>1, <3>1, <3>2, ControlWire DEF listVars
  <2> QED
    BY <2>2, <2>5, <2>6 DEF DeliveryInv
<1> QED
  BY <1>6, <1>7

(* Commit writes a block of attributes. *)
LEMMA WriteMetaStep ==
    ASSUME DeliveryInv, NEW u \in Uploads, WriteMeta(u)
    PROVE  DeliveryInv'
<1>1. TypeOK /\ CallInv /\ UploadInv(u) /\ AnswerInv(u) /\ u \in Ops /\ u \notin Listers
  BY OpsAssumption DEF DeliveryInv, CallInv, Ops, Listers
<1>2. /\ step[u] = "commit" /\ meta[u] < MetaBlocks
      /\ TriggerUpload(u, Block(Len(calls[u]), TRUE))
      /\ meta' = [meta EXCEPT ![u] = @ + 1]
      /\ UNCHANGED <<store, step, listVars, plan, waited, got, target, blocks, buffered, verdict,
                     steady, troubled, failures>>
  BY DEF WriteMeta, rollVars, history
<1>3. /\ Len(calls[u]) \in Nat /\ Len(calls[u]) = blocks[u] + meta[u]
      /\ blocks[u] \in Nat /\ meta[u] \in Nat /\ blocks[u] <= MaxBlocks + 1
      /\ verdict[u] = "none" /\ plan[u] = <<>> /\ waited[u] = 0 /\ target[u] # {}
      /\ \E d \in Drives : target[u] = {d}
  BY <1>1, <1>2, Typed, SizesAssumption DEF UploadInv, TypeOK
<1>4. PICK n, key : n = Len(calls[u]) /\ key = Block(n, TRUE)
  OBVIOUS
<1>5. n \in Nat /\ n <= MaxBlocks + MetaBlocks + 1
  BY <1>2, <1>3, <1>4, SizesAssumption
<1>6. key \in Keys /\ key # Manifest
  BY <1>4, <1>5, BlockKey
<1>7. /\ WireInv'
      /\ calls' \in [Ops -> Seq(Call)] /\ inbox' \in [Drives -> Seq(Request)]
      /\ \A y \in Ops \ {u} : calls'[y] = calls[y]
      /\ Len(calls'[u]) = Len(calls[u]) + 1
      /\ \A m \in 1 .. Len(calls'[u]) :
            \/ m \in 1 .. Len(calls[u]) /\ calls'[u][m] = calls[u][m]
            \/ m = Len(calls'[u]) /\ calls'[u][m].drive \in target[u] /\ calls'[u][m].key = key
  <2>1. TriggerUpload(u, key)
    BY <1>2, <1>4
  <2> QED
    BY <1>2, <1>4, <1>5, <1>6, <2>1, PutStep
<1>8. meta'[u] = meta[u] + 1 /\ \A y \in Uploads \ {u} : meta'[y] = meta[y]
  BY <1>1, <1>2 DEF TypeOK
<1>9. TypeOK'
  <2>1. meta' \in [Uploads -> 0 .. MetaBlocks]
    <3>1. meta[u] + 1 \in 0 .. MetaBlocks
      BY <1>2, <1>3, SizesAssumption
    <3> QED
      BY <1>1, <1>2, <3>1 DEF TypeOK
  <2> QED
    BY <1>1, <1>2, <1>7, <2>1 DEF TypeOK, listVars
<1>10. UploadInv(u)'
  <2>1. Puts(u)' = Len(calls'[u]) /\ Puts(u) = Len(calls[u])
    BY <1>2, <1>3 DEF Puts
  <2>2. \A m \in 1 .. Len(calls[u]) : calls[u][m].drive \in target[u] /\ calls[u][m].key # Manifest
    BY <1>1, <1>2, <1>3, <2>1 DEF UploadInv
  <2>3. \A m \in 1 .. Len(calls'[u]) : calls'[u][m].drive \in target[u] /\ calls'[u][m].key # Manifest
    BY <1>6, <1>7, <2>2
  <2>4. Len(calls'[u]) = blocks'[u] + meta'[u]
    BY <1>2, <1>3, <1>7, <1>8
  <2> QED
    BY <1>2, <1>3, <2>1, <2>3, <2>4 DEF UploadInv
<1>11. AnswerInv(u)'
  BY <1>1, <1>2, <1>3, <1>7 DEF AnswerInv, Earlier
<1>12. CallInv'
  BY <1>1, <1>2, <1>7, <1>8, <1>10, <1>11, CallInvStep
<1> QED
  BY <1>7, <1>9, <1>12 DEF DeliveryInv

(* Commit puts the manifest, after every block. *)
LEMMA PutManifestStep ==
    ASSUME DeliveryInv, NEW u \in Uploads, PutManifest(u)
    PROVE  DeliveryInv'
<1>1. TypeOK /\ CallInv /\ UploadInv(u) /\ AnswerInv(u) /\ u \in Ops /\ u \notin Listers
  BY OpsAssumption DEF DeliveryInv, CallInv, Ops, Listers
<1>2. /\ step[u] = "commit" /\ TriggerUpload(u, Manifest) /\ step' = [step EXCEPT ![u] = "wait"]
      /\ UNCHANGED <<store, listVars, plan, waited, got, target, blocks, meta, buffered, verdict,
                     steady, troubled, failures>>
  BY DEF PutManifest, Go, rollVars, putVars, history
<1>3. /\ Len(calls[u]) \in Nat /\ Len(calls[u]) = blocks[u] + meta[u]
      /\ blocks[u] \in Nat /\ meta[u] \in Nat /\ blocks[u] <= MaxBlocks + 1 /\ meta[u] <= MetaBlocks
      /\ verdict[u] = "none" /\ plan[u] = <<>> /\ waited[u] = 0 /\ target[u] # {}
      /\ \E d \in Drives : target[u] = {d}
  BY SMTT(30), <1>1, <1>2, Typed, SizesAssumption DEF UploadInv, TypeOK
<1>4. step'[u] = "wait" /\ \A y \in Ops \ {u} : step'[y] = step[y]
  BY <1>1, <1>2 DEF TypeOK
<1>5. Len(calls[u]) <= MaxBlocks + MetaBlocks + 1
  BY <1>3, SizesAssumption
<1>6. Manifest \in Keys
  BY SizesAssumption DEF Keys, Manifest, Block
<1>7. /\ WireInv'
      /\ calls' \in [Ops -> Seq(Call)] /\ inbox' \in [Drives -> Seq(Request)]
      /\ \A y \in Ops \ {u} : calls'[y] = calls[y]
      /\ Len(calls'[u]) = Len(calls[u]) + 1
      /\ \A m \in 1 .. Len(calls'[u]) :
            \/ m \in 1 .. Len(calls[u]) /\ calls'[u][m] = calls[u][m]
            \/ m = Len(calls'[u]) /\ calls'[u][m].drive \in target[u] /\ calls'[u][m].key = Manifest
  <2>1. PICK key \in Keys : key = Manifest
    BY <1>6
  <2>2. TriggerUpload(u, key)
    BY <1>2, <2>1
  <2> QED
    BY <1>2, <1>4, <1>5, <2>1, <2>2, PutStep
<1>8. TypeOK'
  BY <1>1, <1>2, <1>7 DEF TypeOK, listVars
<1>9. UploadInv(u)'
  <2>1. Puts(u)' = Len(calls'[u]) /\ Puts(u) = Len(calls[u])
    BY <1>2, <1>3 DEF Puts
  <2>2. \A m \in 1 .. Len(calls[u]) : calls[u][m].drive \in target[u] /\ calls[u][m].key # Manifest
    BY <1>1, <1>2, <1>3, <2>1 DEF UploadInv
  <2>3. \A m \in 1 .. Len(calls'[u]) :
           calls'[u][m].drive \in target[u] /\ (calls'[u][m].key = Manifest => m = Len(calls'[u]))
    BY <1>7, <2>2
  <2> QED
    BY <1>2, <1>3, <1>4, <1>7, <2>1, <2>3 DEF UploadInv
<1>10. AnswerInv(u)'
  BY <1>1, <1>2, <1>3, <1>7 DEF AnswerInv, Earlier
<1>11. CallInv'
  BY <1>1, <1>2, <1>4, <1>7, <1>9, <1>10, CallInvStep
<1> QED
  BY <1>7, <1>8, <1>11 DEF DeliveryInv

(* Upload::Prepare looks for the manifest on a target. *)
LEMMA CheckStep ==
    ASSUME DeliveryInv, NEW u \in Uploads, Check(u)
    PROVE  DeliveryInv'
<1>1. TypeOK /\ CallInv /\ WireInv /\ UploadInv(u) /\ u \in Ops
  BY DEF DeliveryInv, CallInv, Ops
<1>2. PICK d \in Drives : AskDrive(u, d, "check", Manifest)
  BY DEF Check
<1>3. UNCHANGED <<store, step, calls, ready, marker, items, plan, waited, got, target, blocks, meta,
                  buffered, verdict, steady, troubled, failures>>
  BY DEF Check, rollVars, putVars, history
<1>4. calls[u] = <<>>
  BY <1>1, <1>2 DEF AskDrive, UploadInv
<1>5. WireInv'
  <2>1. PICK key : key = Manifest
    OBVIOUS
  <2>2. AskDrive(u, d, "check", key)
    BY <1>2, <2>1
  <2> QED
    BY <1>1, <1>3, <1>4, <2>1, <2>2, AskWire
<1>6. TypeOK'
  <2>1. /\ page' = [page EXCEPT ![u][d].st = "asked"]
        /\ inbox' = [inbox EXCEPT ![d] = Append(@, [op |-> u, n |-> 0, kind |-> "check",
                                                    key |-> Manifest, val |-> Nothing])]
    BY <1>2 DEF AskDrive, Post
  <2>2. [op |-> u, n |-> 0, kind |-> "check", key |-> Manifest, val |-> Nothing] \in Request
    BY <1>1, SizesAssumption DEF Request, Keys, Manifest, Block
  <2>3. inbox' \in [Drives -> Seq(Request)]
    BY <1>1, <2>1, <2>2 DEF TypeOK
  <2>4. page' \in [Ops -> [Drives -> Page]]
    <3>1. page[u][d] \in Page /\ page \in [Ops -> [Drives -> Page]]
      BY <1>1 DEF TypeOK
    <3>2. [page[u][d] EXCEPT !.st = "asked"] \in Page
      BY <3>1 DEF Page
    <3> QED
      BY <1>1, <2>1, <3>1, <3>2
  <2> QED
    BY <1>1, <1>3, <2>3, <2>4 DEF TypeOK
<1>7. CallInv'
  BY <1>1, <1>3, CallInvSame
<1> QED
  BY <1>5, <1>6, <1>7 DEF DeliveryInv

(* Upload::Prepare begins. *)
LEMMA BeginCheckStep ==
    ASSUME DeliveryInv, NEW u \in Uploads, BeginCheck(u)
    PROVE  DeliveryInv'
<1>1. TypeOK /\ CallInv /\ WireInv /\ UploadInv(u) /\ AnswerInv(u) /\ u \in Ops /\ u \notin Listers
  BY OpsAssumption DEF DeliveryInv, CallInv, Ops, Listers
<1>2. /\ step[u] = "init" /\ step' = [step EXCEPT ![u] = "list"]
      /\ page' = [page EXCEPT ![u] = NoPage] /\ ready' = [ready EXCEPT ![u] = target[u]]
      /\ UNCHANGED <<store, inbox, calls, marker, items, plan, waited, got, target, blocks, meta,
                     buffered, verdict, steady, troubled, failures>>
  BY DEF BeginCheck, MayBegin, Go, driveVars, rollVars, putVars, history
<1>3. NoPage \in [Drives -> Page]
  BY DEF NoPage, Page
<1>4. TypeOK'
  BY <1>1, <1>2, <1>3 DEF TypeOK
<1>5. /\ step'[u] = "list"
      /\ \A y \in Ops \ {u} : step'[y] = step[y] /\ page'[y] = page[y] /\ ready'[y] = ready[y]
  BY <1>1, <1>2 DEF TypeOK
<1>6. WireInv'
  <2>1. Quiet(u)
    BY <1>1, <1>2, IsQuiet
  <2>2. \A v \in Uploads : Puts(v)' = Puts(v)
    BY <1>2 DEF Puts
  <2> QED
    BY <1>1, <1>2, <1>5, <2>1, <2>2, ControlWire
<1>7. UploadInv(u)'
  BY <1>1, <1>2, <1>5 DEF UploadInv, Puts, Place
<1>8. AnswerInv(u)'
  BY <1>1, <1>2 DEF AnswerInv, Earlier, Silent
<1>9. CallInv'
  BY <1>1, <1>2, <1>5, <1>7, <1>8, CallInvStep
<1> QED
  BY <1>4, <1>6, <1>9 DEF DeliveryInv

(* Upload::Prepare ends: past it, there is one target. *)
LEMMA CheckDoneStep ==
    ASSUME DeliveryInv, NEW u \in Uploads, CheckDone(u)
    PROVE  DeliveryInv'
<1>1. TypeOK /\ CallInv /\ WireInv /\ UploadInv(u) /\ AnswerInv(u) /\ u \in Ops /\ u \notin Listers
  BY OpsAssumption DEF DeliveryInv, CallInv, Ops, Listers
<1>2. /\ step[u] = "list" /\ RoundOver(u)
      /\ step' = [step EXCEPT ![u] =
            IF ChecksFail(u) \/ \E d \in target[u] : page[u][d].keys # <<>> THEN "init" ELSE "prepared"]
      /\ page' = [page EXCEPT ![u] = NoPage]
      /\ UNCHANGED <<store, inbox, calls, ready, marker, items, plan, waited, got, target, blocks, meta,
                     buffered, verdict, steady, troubled, failures>>
  BY DEF CheckDone, Go, driveVars, rollVars, putVars, history
<1>3. NoPage \in [Drives -> Page]
  BY DEF NoPage, Page
<1>4. TypeOK'
  BY <1>1, <1>2, <1>3 DEF TypeOK
<1>5. /\ step'[u] = IF ChecksFail(u) \/ \E d \in target[u] : page[u][d].keys # <<>>
                    THEN "init" ELSE "prepared"
      /\ \A y \in Ops \ {u} : step'[y] = step[y] /\ page'[y] = page[y]
  BY <1>1, <1>2 DEF TypeOK
<1>6. WireInv'
  <2>1. Quiet(u)
    BY <1>1, <1>2, IsQuiet DEF RoundOver
  <2>2. \A v \in Uploads : Puts(v)' = Puts(v)
    BY <1>2 DEF Puts
  <2> QED
    BY <1>1, <1>2, <1>5, <2>1, <2>2, ControlWire
<1>7. ASSUME step'[u] = "prepared"
      PROVE  \E d \in Drives : target[u] = {d}
  <2>1. ~(Cardinality(target[u]) > 1) /\ target[u] # {} /\ target[u] \in SUBSET Drives
    BY <1>1, <1>5, <1>7 DEF ChecksFail, UploadInv, TypeOK
  <2>2. PICK d \in target[u] : TRUE
    BY <2>1
  <2>3. IsFiniteSet(target[u]) /\ IsFiniteSet({d}) /\ Cardinality({d}) = 1
    <3>1. IsFiniteSet(Drives)
      <4>1. 1 \in Int /\ NDrives \in Int
        BY SizesAssumption
      <4> QED
        BY <4>1, FS_Interval DEF Drives
    <3> QED
      BY <2>1, <3>1, FS_Subset, FS_Singleton
  <2>4. {d} \in SUBSET target[u]
    BY <2>2
  <2>5. Cardinality({d}) <= Cardinality(target[u]) /\ (Cardinality(target[u]) = Cardinality({d}) => target[u] = {d})
    BY <2>3, <2>4, FS_Subset
  <2>6. Cardinality(target[u]) \in Nat
    BY <2>3, FS_CardinalityType
  <2> QED
    BY <2>1, <2>2, <2>3, <2>5, <2>6
<1>8. UploadInv(u)'
  <2>1. step'[u] = "init" \/ step'[u] = "prepared"
    BY <1>5
  <2>2. /\ calls[u] = <<>> /\ Len(calls[u]) = 0 /\ blocks[u] = 0 /\ meta[u] = 0 /\ target[u] # {}
        /\ plan[u] = <<>> /\ waited[u] = 0 /\ verdict[u] = "none"
    BY <1>1, <1>2 DEF UploadInv
  <2> QED
    BY <1>2, <1>7, <2>1, <2>2, SizesAssumption DEF UploadInv, Puts
<1>9. AnswerInv(u)'
  BY <1>1, <1>2 DEF AnswerInv, Earlier, Silent
<1>10. CallInv'
  BY <1>1, <1>2, <1>5, <1>8, <1>9, CallInvStep
<1> QED
  BY <1>4, <1>6, <1>10 DEF DeliveryInv

(* Write leaves bytes in the buffer. *)
LEMMA WritePartStep ==
    ASSUME DeliveryInv, NEW u \in Uploads, WritePart(u)
    PROVE  DeliveryInv'
<1>1. TypeOK /\ CallInv /\ WireInv /\ u \in Ops
  BY DEF DeliveryInv, Ops
<1>2. /\ step[u] = "prepared" /\ buffered' = [buffered EXCEPT ![u] = TRUE]
      /\ UNCHANGED <<store, inbox, step, calls, page, ready, marker, items, plan, waited, got,
                     target, blocks, meta, verdict, steady, troubled, failures>>
  BY DEF WritePart, driveVars, listVars, rollVars, history
<1>3. TypeOK'
  BY <1>1, <1>2 DEF TypeOK
<1>4. CallInv'
  BY <1>1, <1>2, CallInvSame
<1>5. WireInv'
  <2>1. Quiet(u)
    BY <1>1, <1>2, IsQuiet
  <2>2. \A v \in Uploads : Puts(v)' = Puts(v)
    BY <1>2 DEF Puts
  <2> QED
    BY <1>1, <1>2, <2>1, <2>2, ControlWire
<1> QED
  BY <1>3, <1>4, <1>5 DEF DeliveryInv

(* Commit ends once every PUT has its outcome. *)
LEMMA CommitDoneStep ==
    ASSUME DeliveryInv, NEW u \in Uploads, CommitDone(u)
    PROVE  DeliveryInv'
<1>1. TypeOK /\ CallInv /\ WireInv /\ UploadInv(u) /\ AnswerInv(u) /\ u \in Ops /\ u \notin Listers
  BY OpsAssumption DEF DeliveryInv, CallInv, Ops, Listers
<1>2. /\ step[u] = "wait" /\ step' = [step EXCEPT ![u] = "done"]
      /\ verdict' = [verdict EXCEPT ![u] = "ok"]
      /\ UNCHANGED <<store, inbox, calls, page, ready, marker, items, plan, waited, got,
                     target, blocks, meta, buffered, steady, troubled, failures>>
  BY DEF CommitDone, Go, driveVars, listVars, rollVars, putVars, history
<1>3. TypeOK'
  BY <1>1, <1>2 DEF TypeOK
<1>4. /\ step'[u] = "done" /\ verdict'[u] = "ok" /\ verdict[u] = "none"
      /\ \A y \in Ops \ {u} : step'[y] = step[y] /\ verdict'[y] = verdict[y]
  BY <1>1, <1>2 DEF TypeOK, UploadInv
<1>5. \A v \in Uploads : Puts(v)' = Puts(v)
  BY <1>2, <1>4 DEF Puts, Ops
<1>6. WireInv'
  <2>1. Quiet(u)
    BY <1>1, <1>2, IsQuiet
  <2> QED
    BY <1>1, <1>2, <1>4, <1>5, <2>1, ControlWire
<1>7. UploadInv(u)'
  BY <1>1, <1>2, <1>4, <1>5 DEF UploadInv, Place
<1>8. AnswerInv(u)'
  BY <1>1, <1>2 DEF AnswerInv, Earlier, Silent
<1>9. CallInv'
  BY <1>1, <1>2, <1>4, <1>7, <1>8, CallInvStep
<1> QED
  BY <1>3, <1>6, <1>9 DEF DeliveryInv

(* Abort: the plan is the places of the PUT. *)
LEMMA AbortUploadStep ==
    ASSUME DeliveryInv, NEW u \in Uploads, AbortUpload(u)
    PROVE  DeliveryInv'
<1>1. TypeOK /\ CallInv /\ WireInv /\ UploadInv(u) /\ AnswerInv(u) /\ u \in Ops /\ u \notin Listers
  BY OpsAssumption DEF DeliveryInv, CallInv, Ops, Listers
<1>2. /\ step[u] = "prepared" /\ step' = [step EXCEPT ![u] = "roll"]
      /\ plan' = [plan EXCEPT ![u] = [n \in DOMAIN calls[u] |-> <<calls[u][n].drive, calls[u][n].key>>]]
      /\ verdict' = [verdict EXCEPT ![u] = "aborted"]
      /\ UNCHANGED <<store, inbox, calls, page, ready, marker, items, waited, got,
                     target, blocks, meta, buffered, steady, troubled, failures>>
  BY DEF AbortUpload, Go, driveVars, listVars, putVars, history
<1>3. /\ Len(calls[u]) \in Nat /\ DOMAIN calls[u] = 1 .. Len(calls[u])
      /\ waited[u] = 0 /\ verdict[u] = "none" /\ Puts(u) = Len(calls[u])
      /\ plan \in [Ops -> Seq(Drives \X Keys)]
  BY <1>1, <1>2 DEF UploadInv, TypeOK, Puts
<1>4. /\ step'[u] = "roll" /\ verdict'[u] = "aborted"
      /\ plan'[u] = [n \in 1 .. Len(calls[u]) |-> Place(u, n)]
      /\ \A y \in Ops \ {u} : step'[y] = step[y] /\ verdict'[y] = verdict[y] /\ plan'[y] = plan[y]
  BY <1>1, <1>2, <1>3 DEF TypeOK, Place
<1>5. plan'[u] \in Seq(Drives \X Keys) /\ Len(plan'[u]) = Len(calls[u])
  <2>1. \A n \in 1 .. Len(calls[u]) : Place(u, n) \in Drives \X Keys
    BY <1>1, Typed DEF Place
  <2> QED
    BY <1>3, <1>4, <2>1
<1>6. TypeOK'
  <2>1. plan' \in [Ops -> Seq(Drives \X Keys)]
    BY <1>1, <1>2, <1>3, <1>4, <1>5
  <2>2. \A x \in Ops : waited'[x] \in 0 .. Len(plan'[x])
    BY <1>1, <1>2, <1>3, <1>4, <1>5 DEF TypeOK
  <2> QED
    BY <1>1, <1>2, <2>1, <2>2 DEF TypeOK
<1>7. \A v \in Uploads : Puts(v)' = Puts(v)
  BY <1>2, <1>3, <1>4, <1>5 DEF Puts, Ops
<1>8. WireInv'
  <2>1. Quiet(u)
    BY <1>1, <1>2, IsQuiet
  <2> QED
    BY <1>1, <1>2, <1>4, <1>7, <2>1, ControlWire
<1>9. UploadInv(u)'
  <2>1. \A n \in 1 .. Len(calls[u]) : calls[u][n].drive \in target[u] /\ calls[u][n].key # Manifest
    BY <1>1, <1>2, <1>3 DEF UploadInv
  <2>2. \A n : Place(u, n)' = Place(u, n)
    BY <1>2 DEF Place
  <2>3. /\ Len(plan'[u]) <= Len(calls'[u]) /\ Len(calls'[u]) <= 2 * Len(plan'[u])
        /\ \A n \in 1 .. Len(plan'[u]) : plan'[u][n] = Place(u, n)'
        /\ \A n \in 1 .. Len(calls'[u]) :
              n > Len(plan'[u]) => plan'[u][n - Len(plan'[u])] = Place(u, n)'
    BY <1>2, <1>3, <1>4, <1>5, <2>2
  <2>4. target'[u] # {} /\ \E d \in Drives : target'[u] = {d}
    BY <1>1, <1>2 DEF UploadInv
  <2>5. \A n \in 1 .. Len(calls'[u]) : calls'[u][n].drive \in target'[u] /\ calls'[u][n].key # Manifest
    BY <1>2, <2>1
  <2> QED
    BY <1>4, <2>3, <2>4, <2>5 DEF UploadInv
<1>10. AnswerInv(u)'
  BY <1>1, <1>2, <1>3, <1>4, <1>5 DEF AnswerInv, Earlier
<1>11. CallInv'
  BY <1>1, <1>2, <1>4, <1>9, <1>10, CallInvStep
<1> QED
  BY <1>6, <1>8, <1>11 DEF DeliveryInv

(* A rolling delete ends once every DELETE was waited for. *)
LEMMA RollDoneStep ==
    ASSUME DeliveryInv, NEW x \in Ops, RollDone(x)
    PROVE  DeliveryInv'
<1>1. TypeOK /\ CallInv /\ WireInv /\ AnswerInv(x) /\ (x \in Uploads => UploadInv(x)) /\ (x \in Listers => ListerInv(x))
  BY DEF DeliveryInv, CallInv, Ops, Listers
<1>2. /\ step[x] = "roll" /\ waited[x] = Len(plan[x]) /\ step' = [step EXCEPT ![x] = "done"]
      /\ UNCHANGED <<store, inbox, calls, page, ready, marker, items, plan, waited, got, verdict,
                     target, blocks, meta, buffered, steady, troubled, failures>>
  BY DEF RollDone, Go, driveVars, listVars, rollVars, putVars, history
<1>3. TypeOK'
  BY <1>1, <1>2 DEF TypeOK
<1>4. step'[x] = "done" /\ \A y \in Ops \ {x} : step'[y] = step[y]
  BY <1>1, <1>2 DEF TypeOK
<1>5. \A v \in Uploads : Puts(v)' = Puts(v)
  BY <1>2 DEF Puts
<1>6. WireInv'
  <2>1. Quiet(x)
    BY <1>1, <1>2, IsQuiet
  <2> QED
    BY <1>1, <1>2, <1>4, <1>5, <2>1, ControlWire
<1>7. ASSUME x \in Uploads PROVE UploadInv(x)'
  BY <1>1, <1>2, <1>4, <1>5, <1>7 DEF UploadInv, Place
<1>8. ASSUME x \in Listers PROVE ListerInv(x)'
  BY <1>1, <1>2, <1>4, <1>8 DEF ListerInv, Place
<1>9. AnswerInv(x)'
  BY <1>1, <1>2 DEF AnswerInv, Earlier, Silent
<1>10. CallInv'
  BY <1>1, <1>2, <1>4, <1>7, <1>8, <1>9, CallInvStep
<1> QED
  BY <1>3, <1>6, <1>10 DEF DeliveryInv

-----------------------------------------------------------------------------
(* The steps of listings. *)

(* P has what the pages of x have, and nothing else. *)
OfPages(x, P) ==
    /\ \A i \in 1 .. Len(P) : \E d \in Drives : \E j \in 1 .. Len(page[x][d].keys) :
          P[i] = <<d, page[x][d].keys[j]>>
    /\ \A d \in Drives : \A j \in 1 .. Len(page[x][d].keys) : Has(P, <<d, page[x][d].keys[j]>>)

PagesGrow(x) == \A d \in Drives : Increasing(page[x][d].keys)

(* The pages of a round, as pairs of a drive and a key. *)
LEMMA Paged ==
    ASSUME TypeOK, NEW x \in Ops, NEW P, P = Pages(x)
    PROVE  P \in Seq(Drives \X Keys) /\ OfPages(x, P) /\ (PagesGrow(x) => Distinct(P))
<1> DEFINE s(d) == [i \in 1 .. Len(page[x][d].keys) |-> <<d, page[x][d].keys[i]>>]
<1>1. \A d \in Drives : /\ page[x][d].keys \in Seq(Keys)
                        /\ DOMAIN page[x][d].keys = 1 .. Len(page[x][d].keys)
                        /\ Len(page[x][d].keys) \in Nat
  <2> SUFFICES ASSUME NEW d \in Drives
               PROVE  page[x][d].keys \in Seq(Keys)
    OBVIOUS
  <2>1. page[x][d] \in Page
    BY DEF TypeOK
  <2> QED
    BY <2>1 DEF Page
<1>2. \A d \in Drives : /\ s(d) \in Seq(Drives \X Keys) /\ Len(s(d)) = Len(page[x][d].keys)
                        /\ \A j \in 1 .. Len(s(d)) : s(d)[j] = <<d, page[x][d].keys[j]>>
  <2> SUFFICES ASSUME NEW d \in Drives
               PROVE  /\ s(d) \in Seq(Drives \X Keys) /\ Len(s(d)) = Len(page[x][d].keys)
                      /\ \A j \in 1 .. Len(s(d)) : s(d)[j] = <<d, page[x][d].keys[j]>>
    OBVIOUS
  <2>1. PICK k \in Seq(Keys) : k = page[x][d].keys
    BY <1>1
  <2>2. [i \in 1 .. Len(k) |-> <<d, k[i]>>] \in Seq(Drives \X Keys)
    BY <2>1
  <2> QED
    BY <2>1, <2>2
<1>3. PICK ss : ss = [d \in 1 .. NDrives |-> s(d)]
  OBVIOUS
<1>4. P = FlattenSeq(ss)
  <2>1. [d \in Drives |-> [i \in DOMAIN page[x][d].keys |-> <<d, page[x][d].keys[i]>>]] = ss
    BY <1>1, <1>3 DEF Drives
  <2> QED
    BY <2>1 DEF Pages
<1> HIDE DEF s
<1>5. /\ NDrives \in Nat /\ Drives = 1 .. NDrives /\ ss \in [1 .. NDrives -> Seq(Drives \X Keys)]
      /\ \A d \in Drives : ss[d] = s(d)
  BY <1>2, <1>3, SizesAssumption DEF Drives
<1>6. \A d \in 1 .. NDrives : /\ Len(ss[d]) = Len(page[x][d].keys)
                              /\ \A j \in 1 .. Len(ss[d]) : ss[d][j] = <<d, page[x][d].keys[j]>>
  BY <1>2, <1>5
<1>7. /\ P \in Seq(Drives \X Keys)
      /\ \A i \in 1 .. Len(P) : \E d \in 1 .. NDrives : \E j \in 1 .. Len(ss[d]) : P[i] = ss[d][j]
      /\ \A d \in 1 .. NDrives : \A j \in 1 .. Len(ss[d]) : \E i \in 1 .. Len(P) : P[i] = ss[d][j]
      /\ (\A d, e \in 1 .. NDrives : \A j \in 1 .. Len(ss[d]), k \in 1 .. Len(ss[e]) :
             ss[d][j] = ss[e][k] => d = e /\ j = k)
         => Distinct(P)
  <2> PICK S : S = Drives \X Keys
    OBVIOUS
  <2> PICK n : n = NDrives
    OBVIOUS
  <2>1. n \in Nat /\ n = NDrives /\ S = Drives \X Keys
    BY <1>5
  <2>2. ss \in [1 .. n -> Seq(S)]
    BY <1>5, <2>1
  <2>3. P \in Seq(S) /\ MadeOf(P, ss, n)
    BY <1>4, <2>1, <2>2, Flattened
  <2> QED
    BY <2>1, <2>3 DEF MadeOf
<1>8. \A i \in 1 .. Len(P) : \E d \in Drives : \E j \in 1 .. Len(page[x][d].keys) :
         P[i] = <<d, page[x][d].keys[j]>>
  <2> SUFFICES ASSUME NEW i \in 1 .. Len(P)
               PROVE  \E d \in Drives : \E j \in 1 .. Len(page[x][d].keys) :
                         P[i] = <<d, page[x][d].keys[j]>>
    OBVIOUS
  <2>1. PICK d \in 1 .. NDrives : \E j \in 1 .. Len(ss[d]) : P[i] = ss[d][j]
    BY <1>7
  <2>2. PICK j \in 1 .. Len(ss[d]) : P[i] = ss[d][j]
    BY <2>1
  <2>3. j \in 1 .. Len(page[x][d].keys) /\ P[i] = <<d, page[x][d].keys[j]>> /\ d \in Drives
    BY <1>5, <1>6, <2>2
  <2> QED
    BY <2>3
<1>9. \A d \in Drives : \A j \in 1 .. Len(page[x][d].keys) : Has(P, <<d, page[x][d].keys[j]>>)
  <2> SUFFICES ASSUME NEW d \in Drives, NEW j \in 1 .. Len(page[x][d].keys)
               PROVE  \E i \in 1 .. Len(P) : P[i] = <<d, page[x][d].keys[j]>>
    BY DEF Has
  <2>1. d \in 1 .. NDrives /\ j \in 1 .. Len(ss[d]) /\ ss[d][j] = <<d, page[x][d].keys[j]>>
    BY <1>5, <1>6
  <2>2. PICK i \in 1 .. Len(P) : P[i] = ss[d][j]
    BY <1>7, <2>1
  <2> QED
    BY <2>1, <2>2
<1>10. ASSUME PagesGrow(x)
       PROVE  Distinct(P)
  <2> SUFFICES ASSUME NEW d \in 1 .. NDrives, NEW e \in 1 .. NDrives,
                      NEW j \in 1 .. Len(ss[d]), NEW k \in 1 .. Len(ss[e]), ss[d][j] = ss[e][k]
               PROVE  d = e /\ j = k
    BY <1>7
  <2>1. <<d, page[x][d].keys[j]>> = <<e, page[x][e].keys[k]>>
    BY <1>6
  <2>2. d = e /\ page[x][d].keys[j] = page[x][d].keys[k]
    BY <2>1
  <2>3. j \in 1 .. Len(page[x][d].keys) /\ k \in 1 .. Len(page[x][d].keys) /\ d \in Drives
    BY <1>5, <1>6, <2>2
  <2>4. page[x][d].keys[j] \in Nat
    <3>1. page[x][d].keys \in Seq(Keys)
      BY <1>1, <2>3
    <3>2. page[x][d].keys[j] \in Keys
      BY <2>3, <3>1
    <3> QED
      BY <3>2, KeysAreNumbers
  <2>5. j \in Nat /\ k \in Nat
    BY <1>1, <2>3
  <2>6. ~(j < k) /\ ~(k < j)
    BY <1>10, <2>2, <2>3, <2>4 DEF Increasing, PagesGrow
  <2> QED
    BY <2>2, <2>5, <2>6
<1> QED
  BY <1>7, <1>8, <1>9, <1>10 DEF OfPages

(* A listing begins. *)
LEMMA BeginListingStep ==
    ASSUME DeliveryInv, NEW x \in Listers, BeginListing(x)
    PROVE  DeliveryInv'
<1>1. TypeOK /\ CallInv /\ WireInv /\ ListerInv(x) /\ AnswerInv(x) /\ x \in Ops /\ x \notin Uploads
  BY OpsAssumption DEF DeliveryInv, CallInv, Ops, Listers
<1>2. /\ step[x] = "init" /\ step' = [step EXCEPT ![x] = "list"]
      /\ page' = [page EXCEPT ![x] = NoPage] /\ ready' = [ready EXCEPT ![x] = Drives]
      /\ marker' = [marker EXCEPT ![x] = [d \in Drives |-> Start]]
      /\ items' = [items EXCEPT ![x] = <<>>]
      /\ steady' = [steady EXCEPT ![x] = Places]
      /\ troubled' = [troubled EXCEPT ![x] = FALSE]
      /\ UNCHANGED <<store, inbox, calls, plan, waited, got, target, blocks, meta,
                     buffered, verdict, failures>>
  BY DEF BeginListing, MayBegin, Go, driveVars, rollVars, putVars
<1>3. NoPage \in [Drives -> Page] /\ Places \in SUBSET (Drives \X Keys)
  BY DEF NoPage, Page, Places
<1>4. TypeOK'
  BY <1>1, <1>2, <1>3 DEF TypeOK
<1>5. /\ step'[x] = "list"
      /\ \A y \in Ops \ {x} : /\ step'[y] = step[y] /\ page'[y] = page[y] /\ ready'[y] = ready[y]
                              /\ y \notin Uploads => marker'[y] = marker[y]
                              /\ troubled'[y] = troubled[y]
  BY <1>1, <1>2 DEF TypeOK, Ops, Listers
<1>6. WireInv'
  <2>1. Quiet(x)
    BY <1>1, <1>2, IsQuiet
  <2>2. \A v \in Uploads : Puts(v)' = Puts(v)
    BY <1>2 DEF Puts
  <2>3. calls[x] = <<>>
    BY <1>1, <1>2 DEF ListerInv
  <2> QED
    BY <1>1, <1>2, <1>5, <2>1, <2>2, <2>3, ControlWire
<1>7. ListerInv(x)'
  BY <1>1, <1>2, <1>5 DEF ListerInv, Place
<1>8. AnswerInv(x)'
  BY <1>1, <1>2 DEF AnswerInv, Earlier, Silent
<1>9. CallInv'
  BY <1>1, <1>2, <1>5, <1>7, <1>8, CallInvStep
<1> QED
  BY <1>4, <1>6, <1>9 DEF DeliveryInv

(* A drive is asked for a page. *)
LEMMA AskPageStep ==
    ASSUME DeliveryInv, NEW x \in Listers, AskPage(x)
    PROVE  DeliveryInv'
<1>1. TypeOK /\ CallInv /\ WireInv /\ ListerInv(x) /\ x \in Ops /\ x \notin Uploads
  BY OpsAssumption DEF DeliveryInv, CallInv, Ops, Listers
<1>2. PICK d \in Drives : AskDrive(x, d, "list", marker[x][d])
  BY DEF AskPage
<1>3. UNCHANGED <<store, step, calls, ready, marker, items, plan, waited, got, target, blocks, meta,
                  buffered, verdict, steady, troubled, failures>>
  BY DEF AskPage, rollVars, putVars, history
<1>4. calls[x] = <<>>
  BY <1>1, <1>2 DEF AskDrive, ListerInv
<1>5. PICK key : key = marker[x][d]
  OBVIOUS
<1>6. AskDrive(x, d, "list", key)
  BY <1>2, <1>5
<1>7. WireInv'
  BY <1>1, <1>3, <1>4, <1>5, <1>6, AskWire
<1>8. TypeOK'
  <2>1. /\ page' = [page EXCEPT ![x][d].st = "asked"]
        /\ inbox' = [inbox EXCEPT ![d] = Append(@, [op |-> x, n |-> 0, kind |-> "list",
                                                    key |-> key, val |-> Nothing])]
    BY <1>6 DEF AskDrive, Post
  <2>2. key \in Keys \cup {Start}
    BY <1>1, <1>5 DEF TypeOK
  <2>3. [op |-> x, n |-> 0, kind |-> "list", key |-> key, val |-> Nothing] \in Request
    BY <1>1, <2>2 DEF Request
  <2>4. inbox' \in [Drives -> Seq(Request)]
    BY <1>1, <2>1, <2>3 DEF TypeOK
  <2>5. page' \in [Ops -> [Drives -> Page]]
    <3>1. page[x][d] \in Page /\ page \in [Ops -> [Drives -> Page]]
      BY <1>1 DEF TypeOK
    <3>2. [page[x][d] EXCEPT !.st = "asked"] \in Page
      BY <3>1 DEF Page
    <3> QED
      BY <1>1, <2>1, <3>1, <3>2
  <2> QED
    BY <1>1, <1>3, <2>4, <2>5 DEF TypeOK
<1>9. CallInv'
  BY <1>1, <1>3, CallInvSame
<1> QED
  BY <1>7, <1>8, <1>9 DEF DeliveryInv

(* The last key of a page. *)
LEMMA PageEnd ==
    ASSUME TypeOK, NEW x \in Ops, NEW d \in Drives, page[x][d].keys # <<>>
    PROVE  /\ Last(page[x][d].keys) = page[x][d].keys[Len(page[x][d].keys)]
           /\ Len(page[x][d].keys) \in 1 .. Len(page[x][d].keys)
           /\ Last(page[x][d].keys) \in Keys
<1>1. page[x][d] \in Page
  BY DEF TypeOK
<1>2. page[x][d].keys \in Seq(Keys)
  BY <1>1 DEF Page
<1> QED
  BY <1>2 DEF Last

(* The round is over. *)
LEMMA TurnPageStep ==
    ASSUME DeliveryInv, NEW x \in Listers, TurnPage(x)
    PROVE  DeliveryInv'
<1>1. TypeOK /\ CallInv /\ WireInv /\ ListerInv(x) /\ AnswerInv(x) /\ x \in Ops /\ x \notin Uploads
  BY OpsAssumption DEF DeliveryInv, CallInv, Ops, Listers
<1>2. /\ step[x] = "list" /\ RoundOver(x)
      /\ ready' = [ready EXCEPT ![x] = {d \in @ : page[x][d].keys # <<>>}]
      /\ marker' = [marker EXCEPT ![x] =
            [d \in Drives |-> IF page[x][d].keys = <<>> THEN @[d] ELSE Last(page[x][d].keys)]]
      /\ items' = [items EXCEPT ![x] = @ \o Pages(x)]
      /\ page' = [page EXCEPT ![x] = NoPage]
      /\ UNCHANGED <<store, inbox, step, calls, plan, waited, got, target, blocks, meta,
                     buffered, verdict, steady, troubled, failures>>
  BY DEF TurnPage, Turn, driveVars, rollVars, putVars, history
<1>3. NoPage \in [Drives -> Page]
  BY DEF NoPage, Page
<1>4. TypeOK'
  <2>1. Pages(x) \in Seq(Drives \X Keys)
    BY <1>1, Paged
  <2>2. items' \in [Listers -> Seq(Drives \X Keys)]
    BY <1>1, <1>2, <2>1 DEF TypeOK
  <2>3. [d \in Drives |-> IF page[x][d].keys = <<>> THEN marker[x][d] ELSE Last(page[x][d].keys)]
           \in [Drives -> Keys \cup {Start}]
    BY <1>1, PageEnd DEF TypeOK
  <2>4. marker' \in [Listers -> [Drives -> Keys \cup {Start}]]
    BY <1>1, <1>2, <2>3 DEF TypeOK
  <2>5. ready' \in [Ops -> SUBSET Drives] /\ page' \in [Ops -> [Drives -> Page]]
    BY <1>1, <1>2, <1>3 DEF TypeOK
  <2> QED
    BY <1>1, <1>2, <2>2, <2>4, <2>5 DEF TypeOK
<1>5. \A y \in Ops \ {x} : /\ page'[y] = page[y] /\ ready'[y] = ready[y]
                           /\ y \notin Uploads => marker'[y] = marker[y]
  BY <1>1, <1>2 DEF TypeOK, Ops, Listers
<1>6. WireInv'
  <2>1. Quiet(x)
    BY <1>1, <1>2, IsQuiet DEF RoundOver
  <2>2. \A v \in Uploads : Puts(v)' = Puts(v)
    BY <1>2 DEF Puts
  <2> QED
    BY <1>1, <1>2, <1>5, <2>1, <2>2, ControlWire
<1>7. CallInv'
  BY <1>1, <1>2, CallInvSame
<1> QED
  BY <1>4, <1>6, <1>7 DEF DeliveryInv

(* The listing is over. *)
LEMMA ListingDoneStep ==
    ASSUME DeliveryInv, NEW x \in Listers, ListingDone(x)
    PROVE  DeliveryInv'
<1>1. TypeOK /\ CallInv /\ WireInv /\ ListerInv(x) /\ AnswerInv(x) /\ x \in Ops /\ x \notin Uploads
  BY OpsAssumption DEF DeliveryInv, CallInv, Ops, Listers
<1>2. /\ step[x] = "list" /\ ready[x] = {}
      /\ \/ step' = [step EXCEPT ![x] = "init"] /\ plan' = plan
         \/ /\ step' = [step EXCEPT ![x] = "prepared"]
            /\ plan' = [plan EXCEPT ![x] = IF x \in Downloads THEN InOrder(items[x]) ELSE items[x]]
      /\ marker' = [marker EXCEPT ![x] = [d \in Drives |-> Start]]
      /\ items' = [items EXCEPT ![x] = <<>>]
      /\ UNCHANGED <<store, inbox, calls, page, ready, waited, got, target, blocks, meta,
                     buffered, verdict, steady, troubled, failures>>
  BY DEF ListingDone, Go, driveVars, putVars, history
<1>3. /\ calls[x] = <<>> /\ plan[x] = <<>> /\ waited[x] = 0
      /\ items[x] \in Seq(Drives \X Keys) /\ plan \in [Ops -> Seq(Drives \X Keys)]
  BY <1>1, <1>2 DEF ListerInv, TypeOK
<1>4. InOrder(items[x]) \in Seq(Drives \X Keys)
  BY <1>3, Ordered
<1>5. /\ plan' \in [Ops -> Seq(Drives \X Keys)]
      /\ \A y \in Ops \ {x} : plan'[y] = plan[y]
      /\ plan'[x] \in Seq(Drives \X Keys)
      /\ (step'[x] = "init" /\ plan'[x] = <<>>) \/ step'[x] = "prepared"
  <2>1. (IF x \in Downloads THEN InOrder(items[x]) ELSE items[x]) \in Seq(Drives \X Keys)
    BY <1>3, <1>4
  <2>2. CASE step' = [step EXCEPT ![x] = "init"] /\ plan' = plan
    BY <1>1, <1>3, <2>2 DEF TypeOK
  <2>3. CASE /\ step' = [step EXCEPT ![x] = "prepared"]
             /\ plan' = [plan EXCEPT ![x] = IF x \in Downloads THEN InOrder(items[x]) ELSE items[x]]
    BY <1>1, <1>3, <2>1, <2>3 DEF TypeOK
  <2> QED
    BY <1>2, <2>2, <2>3
<1>6. TypeOK'
  <2>1. \A y \in Ops : waited'[y] \in 0 .. Len(plan'[y])
    <3>1. Len(plan'[x]) \in Nat /\ waited'[x] = 0
      BY <1>2, <1>3, <1>5
    <3>2. \A y \in Ops \ {x} : waited'[y] \in 0 .. Len(plan'[y])
      BY <1>1, <1>2, <1>5 DEF TypeOK
    <3> QED
      BY <3>1, <3>2
  <2>2. marker' \in [Listers -> [Drives -> Keys \cup {Start}]] /\ items' \in [Listers -> Seq(Drives \X Keys)]
    BY <1>1, <1>2 DEF TypeOK
  <2>3. step' \in [Ops -> {"init", "list", "prepared", "commit", "wait", "roll", "done"}]
    BY <1>1, <1>2 DEF TypeOK
  <2> QED
    BY <1>1, <1>2, <1>5, <2>1, <2>2, <2>3 DEF TypeOK
<1>7. \A y \in Ops \ {x} : step'[y] = step[y] /\ (y \notin Uploads => marker'[y] = marker[y])
  BY <1>1, <1>2 DEF TypeOK, Ops, Listers
<1>8. WireInv'
  <2>1. Quiet(x)
    BY <1>1, <1>2, IsQuiet
  <2>2. \A v \in Uploads : Puts(v)' = Puts(v)
    BY <1>1, <1>2, <1>5 DEF Puts, Ops
  <2> QED
    BY <1>1, <1>2, <1>7, <2>1, <2>2, ControlWire
<1>9. ListerInv(x)'
  <2>1. Len(calls'[x]) = 0 /\ Len(plan'[x]) \in Nat
    BY <1>2, <1>3, <1>5
  <2> QED
    BY <1>2, <1>3, <1>5, <2>1 DEF ListerInv
<1>10. AnswerInv(x)'
  BY <1>1, <1>2, <1>3 DEF AnswerInv, Earlier
<1>11. CallInv'
  BY <1>1, <1>2, <1>5, <1>7, <1>9, <1>10, CallInvStep
<1> QED
  BY <1>6, <1>8, <1>11 DEF DeliveryInv

-----------------------------------------------------------------------------
(* The window of concurrent calls. *)

(* The window never goes beyond the plan. *)
LEMMA InWindow ==
    ASSUME TypeOK, CallInv, NEW x \in Ops
    PROVE  /\ Len(calls[x]) \in Nat /\ Len(plan[x]) \in Nat /\ waited[x] \in Nat
           /\ waited[x] <= Len(plan[x]) /\ Earlier(x) \in Nat
           /\ Started(x) \in Nat /\ Started(x) = Len(calls[x]) - Earlier(x)
           /\ Allowed(x) \in Nat /\ Allowed(x) <= Len(plan[x])
           /\ waited[x] < Len(plan[x]) => waited[x] + 1 <= Allowed(x)
<1>1. /\ Len(calls[x]) \in Nat /\ Len(plan[x]) \in Nat /\ waited[x] \in Nat
      /\ waited[x] \in 0 .. Len(plan[x])
  BY Typed DEF TypeOK
<1>2. Earlier(x) \in Nat /\ Earlier(x) + waited[x] <= Len(calls[x])
  BY <1>1 DEF Earlier, CallInv, AnswerInv
<1>3. Window(x) \in Nat \ {0}
  BY SizesAssumption DEF Window
<1>4. Started(x) \in Nat /\ Started(x) = Len(calls[x]) - Earlier(x)
  BY <1>1, <1>2 DEF Started
<1>5. /\ Allowed(x) \in Nat /\ Allowed(x) <= Len(plan[x])
      /\ waited[x] < Len(plan[x]) => waited[x] + 1 <= Allowed(x)
  BY <1>1, <1>3 DEF Allowed
<1> QED
  BY <1>1, <1>2, <1>4, <1>5

(* The window of a download or a rolling delete lets a call start. *)
LEMMA StartNextStep ==
    ASSUME DeliveryInv, NEW x \in Ops, StartNext(x)
    PROVE  DeliveryInv'
<1> DEFINE p == plan[x][Started(x) + 1]
           kind == IF x \in Downloads THEN "get" ELSE "delete"
           c == [drive |-> p[1], key |-> p[2], out |-> "none", val |-> Nothing]
           q == [op |-> x, n |-> Len(calls[x]) + 1, kind |-> kind, key |-> p[2], val |-> Nothing]
<1>1. /\ TypeOK /\ CallInv /\ WireInv /\ AnswerInv(x) /\ (x \in Uploads => UploadInv(x))
      /\ (x \in Listers => ListerInv(x))
      /\ (x \in Uploads => x \notin Listers /\ x \notin Downloads)
      /\ (x \notin Uploads => x \in Listers)
      /\ calls \in [Ops -> Seq(Call)] /\ inbox \in [Drives -> Seq(Request)]
  BY OpsAssumption DEF DeliveryInv, CallInv, Ops, Listers, TypeOK
<1>2. /\ step[x] = "roll" /\ Started(x) < Allowed(x)
      /\ StartCall(x, p[1], kind, p[2], Nothing)
      /\ UNCHANGED <<store, step, page, ready, marker, items, plan, waited, got, verdict,
                     target, blocks, meta, buffered, steady, troubled, failures>>
  BY DEF StartNext, listVars, rollVars, putVars, history
<1>3. /\ Len(calls[x]) \in Nat /\ Len(plan[x]) \in Nat /\ waited[x] \in Nat
      /\ Earlier(x) \in Nat /\ Started(x) \in Nat /\ Started(x) = Len(calls[x]) - Earlier(x)
      /\ Started(x) + 1 \in 1 .. Len(plan[x])
  BY <1>1, <1>2, InWindow
<1>4. p \in Drives \X Keys /\ p[1] \in Drives /\ p[2] \in Keys
  <2>1. plan[x] \in Seq(Drives \X Keys)
    BY <1>1 DEF TypeOK
  <2> QED
    BY SMTT(30), <1>3, <2>1
<1>5. /\ calls' = [calls EXCEPT ![x] = Append(calls[x], c)]
      /\ inbox' = [inbox EXCEPT ![p[1]] = Append(inbox[p[1]], q)]
  BY <1>2 DEF StartCall, Post
<1>6. c \in Call /\ q \in Request
  BY <1>3, <1>4 DEF Call, Request, Outcomes
<1>7. c.drive = p[1] /\ c.key = p[2]
  OBVIOUS
<1> HIDE DEF c, q
<1>8. calls' \in [Ops -> Seq(Call)] /\ inbox' \in [Drives -> Seq(Request)]
  <2>1. Append(calls[x], c) \in Seq(Call) /\ Append(inbox[p[1]], q) \in Seq(Request)
    BY <1>1, <1>4, <1>6
  <2> QED
    BY <1>1, <1>4, <1>5, <2>1
<1>9. TypeOK'
  BY <1>1, <1>2, <1>8 DEF TypeOK
<1>10. PICK N : N = Len(calls[x]) + 1
  OBVIOUS
<1>11. /\ \A y \in Ops \ {x} : calls'[y] = calls[y]
       /\ Len(calls'[x]) = N /\ N \in Nat \ {0}
       /\ \A n \in 1 .. Len(calls[x]) : calls'[x][n] = calls[x][n] /\ n \in 1 .. N
       /\ calls'[x][N] = c
       /\ \A n \in 1 .. N : n \in 1 .. Len(calls[x]) \/ n = N
  <2>1. calls'[x] = Append(calls[x], c) /\ calls[x] \in Seq(Call) /\ \A y \in Ops \ {x} : calls'[y] = calls[y]
    BY <1>1, <1>5
  <2> QED
    BY <1>3, <1>10, <2>1, Appended
<1>12. x \in Uploads => verdict[x] = "aborted" /\ Puts(x) = Len(plan[x]) /\ Puts(x)' = Len(plan[x])
  BY <1>1, <1>2 DEF UploadInv, Puts
<1>13. WireInv'
  <2>1. Quiet(x)
    BY <1>1, <1>2, IsQuiet
  <2>2. PICK d \in Drives : d = p[1]
    BY <1>4
  <2>3. PICK key, k, v : key = p[2] /\ k = kind /\ v = Nothing
    OBVIOUS
  <2>4. StartCall(x, d, k, key, v)
    BY <1>2, <2>2, <2>3
  <2>5. x \in Uploads => ~(N <= Puts(x)')
    BY <1>1, <1>3, <1>10, <1>12 DEF UploadInv
  <2>6. k = KindOf(x, N)'
    BY <1>1, <2>3, <2>5 DEF KindOf
  <2>7. v = IF k = "put" THEN <<x, N>> ELSE Nothing
    BY <2>3
  <2>8. UNCHANGED <<store, listVars, plan, verdict, troubled>> /\ \A y \in Ops \ {x} : step'[y] = step[y]
    BY <1>2 DEF listVars
  <2> QED
    BY <1>1, <1>10, <2>1, <2>4, <2>6, <2>7, <2>8, CallWire
<1>14. ASSUME x \in Uploads
       PROVE  UploadInv(x)'
  <2>1. Earlier(x) = Len(plan[x]) /\ N = Len(plan[x]) + (Started(x) + 1)
    <3>1. Earlier(x) = Len(plan[x])
      BY <1>14 DEF Earlier
    <3>2. PICK l, c0, s0 : l = Len(plan[x]) /\ c0 = Len(calls[x]) /\ s0 = Started(x)
      OBVIOUS
    <3>3. l \in Nat /\ c0 \in Nat /\ s0 = c0 - l /\ N = c0 + 1
      BY <1>3, <1>10, <3>1, <3>2
    <3>4. N = l + (s0 + 1)
      BY <3>3
    <3> QED
      BY <3>1, <3>2, <3>4
  <2>2. Place(x, N)' = p
    BY <1>4, <1>7, <1>11 DEF Place
  <2>3. \A n \in 1 .. Len(calls[x]) : Place(x, n)' = Place(x, n) /\ calls'[x][n] = calls[x][n]
    BY <1>11 DEF Place
  <2>4. /\ Len(plan[x]) <= Len(calls[x])
        /\ \A n \in 1 .. Len(plan[x]) : plan[x][n] = Place(x, n)
        /\ \A n \in 1 .. Len(calls[x]) :
              n > Len(plan[x]) => plan[x][n - Len(plan[x])] = Place(x, n)
    BY <1>1, <1>12, <1>14 DEF UploadInv
  <2>5. /\ Len(plan[x]) <= N /\ N <= 2 * Len(plan[x])
        /\ \A n \in 1 .. Len(plan[x]) : plan[x][n] = Place(x, n)'
    BY SMTT(30), <1>3, <1>10, <2>1, <2>3, <2>4
  <2>6. \A n \in 1 .. N : n > Len(plan[x]) => plan[x][n - Len(plan[x])] = Place(x, n)'
    <3>1. N - Len(plan[x]) = Started(x) + 1
      <4>1. PICK l, s0 : l = Len(plan[x]) /\ s0 = Started(x)
        OBVIOUS
      <4>2. l \in Nat /\ s0 \in Nat /\ N = l + (s0 + 1)
        BY <1>3, <2>1, <4>1
      <4>3. N - l = s0 + 1
        BY <4>2
      <4> QED
        BY <4>1, <4>3
    <3> QED
      BY <1>11, <2>2, <2>3, <2>4, <3>1
  <2>7. \A n \in 1 .. N : n <= Len(plan[x]) => n \in 1 .. Len(calls[x])
    BY <1>3, <1>10, <2>1, <2>4
  <2>8. \A n \in 1 .. N : n <= Len(plan[x]) => calls'[x][n].drive \in target[x] /\ calls'[x][n].key # Manifest
    <3>1. \A n \in 1 .. Len(calls[x]) : n <= Len(plan[x]) =>
             calls[x][n].drive \in target[x] /\ calls[x][n].key # Manifest
      BY <1>1, <1>2, <1>12, <1>14 DEF UploadInv
    <3> QED
      BY <2>3, <2>7, <3>1
  <2>9. target[x] # {} /\ \E d \in Drives : target[x] = {d}
    BY <1>1, <1>2, <1>14 DEF UploadInv
  <2> QED
    BY <1>2, <1>11, <1>12, <1>14, <2>5, <2>6, <2>8, <2>9 DEF UploadInv
<1>15. ASSUME x \in Listers
       PROVE  ListerInv(x)'
  <2>1. x \notin Uploads
    BY <1>1, <1>15
  <2>2. Earlier(x) = 0 /\ N = Started(x) + 1
    BY <1>3, <1>10, <2>1 DEF Earlier
  <2>3. Place(x, N)' = plan[x][N]
    BY <1>4, <1>7, <1>11, <2>2 DEF Place
  <2>4. \A n \in 1 .. Len(calls[x]) : Place(x, n)' = plan[x][n]
    BY <1>1, <1>11, <1>15 DEF ListerInv, Place
  <2>5. \A n \in 1 .. N : Place(x, n)' = plan[x][n]
    BY <1>11, <2>3, <2>4
  <2> QED
    BY <1>2, <1>3, <1>11, <2>2, <2>5 DEF ListerInv
<1>16. AnswerInv(x)'
  <2>1. Earlier(x)' = Earlier(x)
    BY <1>2 DEF Earlier
  <2>2. \A i \in 1 .. waited[x] : Earlier(x) + i \in 1 .. Len(calls[x]) /\ ~Silent(x, Earlier(x) + i)
    BY <1>1, <1>3 DEF AnswerInv
  <2>3. Earlier(x) + waited[x] <= N
    BY <1>1, <1>3, <1>10 DEF AnswerInv
  <2>4. PICK e : e = Earlier(x)
    OBVIOUS
  <2>5. \A i \in 1 .. waited[x] : ~Silent(x, e + i)'
    BY <1>11, <2>2, <2>4 DEF Silent
  <2> QED
    BY <1>2, <1>11, <2>1, <2>3, <2>4, <2>5 DEF AnswerInv, Silent
<1>17. CallInv'
  BY <1>1, <1>2, <1>11, <1>14, <1>15, <1>16, CallInvStep
<1> QED
  BY <1>9, <1>13, <1>17 DEF DeliveryInv

(* The oldest call of a window has its outcome. *)
LEMMA AnsweredStep ==
    ASSUME DeliveryInv, NEW x \in Ops, Answered(x),
           step' = step \/ (x \in Downloads /\ step' = [step EXCEPT ![x] = "prepared"]),
           got' \in [Downloads -> Seq(Values \cup {Nothing})],
           UNCHANGED <<store, inbox, calls, page, ready, marker, items, plan, verdict,
                       target, blocks, meta, buffered, steady, troubled, failures>>
    PROVE  DeliveryInv'
<1>1. /\ TypeOK /\ CallInv /\ WireInv /\ AnswerInv(x) /\ (x \in Uploads => UploadInv(x))
      /\ (x \in Listers => ListerInv(x))
      /\ (x \in Downloads => x \notin Uploads)
  BY OpsAssumption DEF DeliveryInv, CallInv, Ops, Listers
<1>2. /\ step[x] = "roll" /\ Started(x) = Allowed(x) /\ waited[x] < Len(plan[x])
      /\ calls[x][Earlier(x) + waited[x] + 1].out # "none"
      /\ waited' = [waited EXCEPT ![x] = @ + 1]
  BY DEF Answered
<1>3. /\ Len(calls[x]) \in Nat /\ Len(plan[x]) \in Nat /\ waited[x] \in Nat
      /\ Earlier(x) \in Nat /\ Started(x) \in Nat /\ Started(x) = Len(calls[x]) - Earlier(x)
      /\ waited[x] + 1 <= Allowed(x)
  BY <1>1, <1>2, InWindow
<1>4. \A y \in Ops : waited'[y] = IF y = x THEN waited[x] + 1 ELSE waited[y]
  <2>1. waited \in [Ops -> Nat]
    BY <1>1 DEF TypeOK
  <2> QED
    BY <1>2, <2>1
<1>5. TypeOK'
  <2>1. \A y \in Ops : waited'[y] \in 0 .. Len(plan'[y])
    BY <1>1, <1>2, <1>3, <1>4 DEF TypeOK
  <2>3. waited' \in [Ops -> Nat]
    BY SMTT(30), <1>1, <1>2, <1>3 DEF TypeOK
  <2>2. step' \in [Ops -> {"init", "list", "prepared", "commit", "wait", "roll", "done"}]
    BY <1>1 DEF TypeOK
  <2> QED
    BY <1>1, <2>1, <2>2, <2>3 DEF TypeOK
<1>6. /\ \A y \in Ops \ {x} : step'[y] = step[y]
      /\ step'[x] = "roll" \/ (x \in Downloads /\ step'[x] = "prepared")
  BY <1>1, <1>2 DEF TypeOK
<1>7. WireInv'
  <2>1. Quiet(x)
    BY <1>1, <1>2, IsQuiet
  <2>2. \A v \in Uploads : Puts(v)' = Puts(v)
    BY DEF Puts
  <2> QED
    BY <1>1, <1>6, <2>1, <2>2, ControlWire
<1>8. ASSUME x \in Uploads PROVE UploadInv(x)'
  <2>1. step'[x] = "roll" /\ Puts(x)' = Puts(x) /\ \A n : Place(x, n)' = Place(x, n)
    BY <1>1, <1>6, <1>8 DEF Puts, Place
  <2> QED
    BY <1>1, <1>2, <1>8, <2>1 DEF UploadInv
<1>9. ASSUME x \in Listers PROVE ListerInv(x)'
  BY <1>1, <1>2, <1>6, <1>9 DEF ListerInv, Place
<1>10. AnswerInv(x)'
  <2>1. Earlier(x)' = Earlier(x) /\ waited'[x] = waited[x] + 1
    BY <1>4 DEF Earlier
  <2>2. PICK e \in Nat : e = Earlier(x)
    BY <1>3
  <2>3. \A i \in 1 .. waited[x] : ~Silent(x, e + i)
    BY <1>1, <2>2 DEF AnswerInv
  <2>4. ~Silent(x, e + (waited[x] + 1))
    <3>1. e + (waited[x] + 1) = Earlier(x) + waited[x] + 1
      BY <1>3, <2>2
    <3> QED
      BY <1>2, <3>1 DEF Silent
  <2>5. \A i \in 1 .. waited[x] + 1 : ~Silent(x, e + i)
    <3>1. \A i \in 1 .. waited[x] + 1 : i \in 1 .. waited[x] \/ i = waited[x] + 1
      BY <1>3
    <3> QED
      BY <2>3, <2>4, <3>1
  <2>6. e + (waited[x] + 1) <= Len(calls[x])
    BY <1>2, <1>3, <2>2
  <2> QED
    BY <2>1, <2>2, <2>5, <2>6 DEF AnswerInv, Silent
<1>11. CallInv'
  BY <1>1, <1>4, <1>6, <1>8, <1>9, <1>10, CallInvStep
<1> QED
  BY <1>5, <1>7, <1>11 DEF DeliveryInv

-----------------------------------------------------------------------------
(* The callers, and the first state. *)

(* The caller of a removal, or of a download, goes on: no call is made and *)
(* none is answered.                                                       *)
LEMMA CallerStep ==
    ASSUME DeliveryInv, NEW x \in Listers, NEW pc \in {"roll", "done"}, NEW w,
           step[x] = "prepared", step' = [step EXCEPT ![x] = pc],
           verdict' = [verdict EXCEPT ![x] = w], w \in {"ok", "aborted"} \/ w = verdict[x],
           pc = "done" => (x \in Removals /\ w = "aborted") \/ waited[x] = Len(plan[x]),
           UNCHANGED <<driveVars, calls, listVars, rollVars, putVars, history>>
    PROVE  DeliveryInv'
<1>1. TypeOK /\ CallInv /\ WireInv /\ AnswerInv(x) /\ ListerInv(x) /\ x \in Ops /\ x \notin Uploads
  BY OpsAssumption DEF DeliveryInv, CallInv, Ops, Listers
<1>2. UNCHANGED <<store, inbox, calls, page, ready, marker, items, plan, waited, got,
                  target, blocks, meta, buffered, steady, troubled, failures>>
  BY DEF driveVars, listVars, rollVars, putVars, history
<1>3. TypeOK'
  <2>1. step' \in [Ops -> {"init", "list", "prepared", "commit", "wait", "roll", "done"}]
    BY <1>1 DEF TypeOK
  <2>2. verdict' \in [Ops -> {"none", "ok", "aborted"}]
    BY <1>1 DEF TypeOK
  <2> QED
    BY <1>1, <1>2, <2>1, <2>2 DEF TypeOK
<1>4. /\ step'[x] = pc /\ verdict'[x] = w
      /\ \A y \in Ops \ {x} : step'[y] = step[y] /\ verdict'[y] = verdict[y]
  BY <1>1 DEF TypeOK
<1>5. \A v \in Uploads : Puts(v)' = Puts(v)
  BY <1>1, <1>2, <1>4 DEF Puts, Ops
<1>6. WireInv'
  <2>1. Quiet(x)
    BY <1>1, IsQuiet
  <2> QED
    BY <1>1, <1>2, <1>4, <1>5, <2>1, ControlWire
<1>7. ListerInv(x)'
  <2>1. x \in Removals => x \notin Downloads
    BY OpsAssumption
  <2> QED
    BY <1>1, <1>2, <1>4, <2>1 DEF ListerInv, Place
<1>8. AnswerInv(x)'
  BY <1>1, <1>2 DEF AnswerInv, Earlier, Silent
<1>9. CallInv'
  BY <1>1, <1>2, <1>4, <1>7, <1>8, CallInvStep
<1> QED
  BY <1>3, <1>6, <1>9 DEF DeliveryInv

(* Removal::Commit begins. *)
LEMMA CommitRemovalStep ==
    ASSUME DeliveryInv, NEW x \in Removals, CommitRemoval(x)
    PROVE  DeliveryInv'
BY CallerStep DEF CommitRemoval, Go, Listers

(* Removal::Abort. *)
LEMMA AbortRemovalStep ==
    ASSUME DeliveryInv, NEW x \in Removals, AbortRemoval(x)
    PROVE  DeliveryInv'
BY CallerStep DEF AbortRemoval, Go, Listers

(* Download::Read is called. *)
LEMMA BeginReadStep ==
    ASSUME DeliveryInv, NEW x \in Downloads, BeginRead(x)
    PROVE  DeliveryInv'
<1>1. PICK pc : pc = IF waited[x] = Len(plan[x]) THEN "done" ELSE "roll"
  OBVIOUS
<1>2. verdict' = [verdict EXCEPT ![x] = verdict[x]]
  BY DEF BeginRead, DeliveryInv, TypeOK
<1> QED
  BY <1>1, <1>2, CallerStep DEF BeginRead, Go, Listers

(* The oldest DELETE of the window has its outcome. *)
LEMMA DeleteAnsweredStep ==
    ASSUME DeliveryInv, NEW x \in Ops, DeleteAnswered(x)
    PROVE  DeliveryInv'
<1>1. /\ Answered(x)
      /\ UNCHANGED <<store, inbox, step, calls, page, ready, marker, items, plan, got, verdict,
                     target, blocks, meta, buffered, steady, troubled, failures>>
  BY DEF DeleteAnswered, driveVars, listVars, putVars, history
<1>2. got' \in [Downloads -> Seq(Values \cup {Nothing})]
  BY <1>1 DEF DeliveryInv, TypeOK
<1> QED
  BY <1>1, <1>2, AnsweredStep

(* The call a download waits for. *)
LEMMA Next1 ==
    ASSUME DeliveryInv, NEW x \in Downloads, Answered(x)
    PROVE  /\ waited[x] \in Nat /\ waited[x] + 1 \in 1 .. Len(calls[x])
           /\ calls[x][waited[x] + 1].val \in Values \cup {Nothing}
           /\ ~Silent(x, waited[x] + 1)
<1>1. TypeOK /\ CallInv /\ AnswerInv(x) /\ x \in Ops /\ x \notin Uploads
  BY OpsAssumption DEF DeliveryInv, CallInv, Ops, Listers
<1>2. Earlier(x) = 0
  BY <1>1 DEF Earlier
<1>3. /\ Started(x) = Allowed(x) /\ waited[x] < Len(plan[x])
      /\ calls[x][Earlier(x) + waited[x] + 1].out # "none"
  BY DEF Answered
<1>4. /\ Len(calls[x]) \in Nat /\ waited[x] \in Nat
      /\ Started(x) = Len(calls[x]) - Earlier(x) /\ waited[x] + 1 <= Allowed(x)
  BY <1>1, <1>3, InWindow
<1>5. waited[x] + 1 \in 1 .. Len(calls[x])
  BY <1>2, <1>3, <1>4
<1>6. calls[x][waited[x] + 1] \in Call
  BY <1>1, <1>5, Typed
<1>7. ~Silent(x, waited[x] + 1)
  BY <1>2, <1>3, <1>4 DEF Silent
<1> QED
  BY <1>4, <1>5, <1>6, <1>7 DEF Call

(* The oldest GET of the window has its outcome. *)
LEMMA ReadAnsweredStep ==
    ASSUME DeliveryInv, NEW x \in Downloads, ReadAnswered(x)
    PROVE  DeliveryInv'
<1>1. /\ Answered(x) /\ x \in Ops
      /\ got' = [got EXCEPT ![x] = Append(@, calls[x][waited[x] + 1].val)]
      /\ step' = [step EXCEPT ![x] = "prepared"]
      /\ UNCHANGED <<store, inbox, calls, page, ready, marker, items, plan, verdict,
                     target, blocks, meta, buffered, steady, troubled, failures>>
  BY DEF ReadAnswered, driveVars, listVars, putVars, history, Go, Ops
<1>2. calls[x][waited[x] + 1].val \in Values \cup {Nothing}
  BY <1>1, Next1
<1>3. got' \in [Downloads -> Seq(Values \cup {Nothing})]
  BY <1>1, <1>2 DEF DeliveryInv, TypeOK
<1> QED
  BY <1>1, <1>3, AnsweredStep

(* Nothing was sent when the program begins. *)
LEMMA DeliveryInit == Init => DeliveryInv
<1> SUFFICES ASSUME Init PROVE DeliveryInv
  OBVIOUS
<1>1. TypeOK
  <2>1. \A d \in Drives : 0 \in Nat /\ <<>> \in Seq(Request)
    OBVIOUS
  <2>2. NoPage \in [Drives -> Page]
    BY DEF NoPage, Page
  <2>3. target \in [Uploads -> SUBSET Drives]
    BY DEF Init
  <2>4. /\ blocks \in [Uploads -> 0 .. MaxBlocks + 1] /\ meta \in [Uploads -> 0 .. MetaBlocks]
        /\ failures \in 0 .. MaxFailures
    BY SizesAssumption DEF Init
  <2>5. page \in [Ops -> [Drives -> Page]]
    BY <2>2 DEF Init
  <2>6. /\ store \in [Drives -> [Keys -> Values \cup {Nothing}]]
        /\ inbox \in [Drives -> Seq(Request)]
        /\ step \in [Ops -> {"init", "list", "prepared", "commit", "wait", "roll", "done"}]
        /\ calls \in [Ops -> Seq(Call)]
        /\ ready \in [Ops -> SUBSET Drives]
        /\ marker \in [Listers -> [Drives -> Keys \cup {Start}]]
        /\ items \in [Listers -> Seq(Drives \X Keys)]
        /\ plan \in [Ops -> Seq(Drives \X Keys)]
    BY DEF Init
  <2>7. /\ waited \in [Ops -> Nat] /\ \A x \in Ops : waited[x] \in 0 .. Len(plan[x])
        /\ buffered \in [Uploads -> BOOLEAN]
        /\ got \in [Downloads -> Seq(Values \cup {Nothing})]
        /\ verdict \in [Ops -> {"none", "ok", "aborted"}]
        /\ steady \in [Listers -> SUBSET (Drives \X Keys)]
        /\ troubled \in [Ops -> BOOLEAN]
    BY DEF Init
  <2> QED
    BY <2>3, <2>4, <2>5, <2>6, <2>7 DEF TypeOK
<1>2. CallInv
  <2>1. ASSUME NEW u \in Uploads PROVE UploadInv(u)
    <3>1. target[u] # {}
      BY DEF Init
    <3>2. /\ step[u] = "init" /\ verdict[u] = "none" /\ waited[u] = 0
          /\ blocks[u] = 0 /\ meta[u] = 0 /\ plan[u] = <<>> /\ calls[u] = <<>>
      BY DEF Init, Ops
    <3>3. \A n \in 1 .. Len(calls[u]) : FALSE
      BY <3>2
    <3> QED
      BY <3>1, <3>2, <3>3 DEF UploadInv
  <2>2. ASSUME NEW x \in Listers PROVE ListerInv(x)
    BY DEF Init, ListerInv, Ops, Listers
  <2>3. ASSUME NEW x \in Ops PROVE AnswerInv(x)
    BY DEF Init, AnswerInv, Earlier
  <2> QED
    BY <2>1, <2>2, <2>3 DEF CallInv
<1>3. WireInv
  <2>1. /\ \A d \in Drives : Len(inbox[d]) = 0
        /\ \A x \in Ops : Len(calls[x]) = 0
        /\ \A d \in Drives : \A k \in Keys : store[d][k] = Nothing
    BY DEF Init
  <2>2. RequestInv /\ OrderInv /\ SentInv
    BY <2>1 DEF RequestInv, OrderInv, SentInv
  <2>3. SilentInv /\ FifoInv
    BY <2>1 DEF SilentInv, FifoInv
  <2>4. StoreInv
    BY <2>1 DEF StoreInv
  <2>5. GoneInv
    BY <2>1 DEF GoneInv, Ops
  <2> QED
    BY <2>2, <2>3, <2>4, <2>5 DEF WireInv
<1> QED
  BY <1>1, <1>2, <1>3 DEF DeliveryInv

(* Nothing changes. *)
LEMMA DeliveryStutter ==
    ASSUME DeliveryInv, UNCHANGED vars
    PROVE  DeliveryInv'
<1>1. /\ TypeOK /\ CallInv /\ WireInv
      /\ UNCHANGED <<store, inbox, step, target, calls, page, ready, marker, items, plan, waited,
                     buffered, blocks, meta, got, verdict, steady, troubled, failures>>
  BY DEF DeliveryInv, vars, driveVars, listVars, rollVars, putVars, history
<1>2. TypeOK'
  BY <1>1 DEF TypeOK
<1>3. CallInv'
  BY <1>1, CallInvSame
<1>4. /\ \A u : Puts(u)' = Puts(u)
      /\ \A x, n : Place(x, n)' = Place(x, n) /\ Silent(x, n)' = Silent(x, n) /\ KindOf(x, n)' = KindOf(x, n)
      /\ \A d, r : PageRequest(d, r)' = PageRequest(d, r)
  BY <1>1 DEF Puts, Place, Silent, KindOf, PageRequest
<1>5. RequestInv'
  <2>1. \A d, r : CallRequest(d, r)' = CallRequest(d, r)
    BY <1>1, <1>4 DEF CallRequest
  <2> QED
    BY <1>1, <1>4, <2>1 DEF WireInv, RequestInv
<1>6. OrderInv' /\ SilentInv' /\ SentInv' /\ FifoInv'
  BY <1>1, <1>4 DEF WireInv, OrderInv, SilentInv, SentInv, FifoInv
<1>7. StoreInv' /\ GoneInv'
  BY <1>1, <1>4 DEF WireInv, StoreInv, GoneInv
<1> QED
  BY <1>2, <1>3, <1>5, <1>6, <1>7 DEF DeliveryInv, WireInv

-----------------------------------------------------------------------------
(* The steps of drives. *)

(* A page holds the first keys after the marker, in order. *)
LEMMA After ==
    ASSUME TypeOK, NEW d \in Drives, NEW key \in Keys \cup {Start}, NEW K, K = KeysAfter(d, key)
    PROVE  /\ K \in Seq(Keys) /\ Increasing(K)
           /\ \A i \in 1 .. Len(K) : K[i] > key
           /\ \A k \in Keys : k > key /\ store[d][k] # Nothing =>
                 \/ \E i \in 1 .. Len(K) : K[i] = k
                 \/ K # <<>> /\ k > K[Len(K)]
<1>1. /\ Keys \in SUBSET Nat /\ IsFiniteSet(Keys) /\ key \in Nat
      /\ MaxReturned \in Nat \ {0}
  <2>1. PICK top : top = Block(MaxBlocks + MetaBlocks + 1, FALSE)
    OBVIOUS
  <2>2. top \in Nat /\ Keys = 1 .. top
    BY <2>1, SizesAssumption DEF Block, Keys, Manifest
  <2> QED
    BY <2>2, FS_Interval, SizesAssumption DEF Start
<1>2. PICK S : S = {k \in Keys : k > key /\ store[d][k] # Nothing}
  OBVIOUS
<1>3. S \in SUBSET Nat /\ S \subseteq Keys /\ IsFiniteSet(S)
  BY <1>1, <1>2, FS_Subset
<1>4. PICK s : s = [n \in 1 .. Cardinality(S) |->
                      CHOOSE k \in S : Cardinality({j \in S : j < k}) = n - 1]
  OBVIOUS
<1>5. s \in [1 .. Cardinality(S) -> S] /\ Cardinality(S) \in Nat /\ RunsThrough(s, S)
  BY <1>3, <1>4, SortedNumbers
<1>6. PICK c, l : c = Cardinality(S) /\ l = IF c < MaxReturned THEN c ELSE MaxReturned
  OBVIOUS
<1>7. s \in Seq(Keys) /\ Len(s) = c /\ l \in 0 .. c /\ (c # 0 => l # 0)
  <2>1. c \in Nat /\ s \in [1 .. c -> Keys]
    BY <1>3, <1>5, <1>6
  <2>2. s \in Seq(Keys) /\ Len(s) = c
    BY <2>1
  <2> QED
    BY <1>1, <1>6, <2>1, <2>2
<1>8. K = SubSeq(s, 1, l)
  <2>1. Sorted(S, <) = s
    BY <1>4 DEF Sorted
  <2> QED
    BY <1>2, <1>6, <1>7, <2>1 DEF KeysAfter
<1>9. K \in Seq(Keys) /\ Len(K) = l /\ \A i \in 1 .. l : K[i] = s[i] /\ i \in 1 .. c
  BY <1>7, <1>8
<1>10. Increasing(K)
  BY <1>5, <1>6, <1>9 DEF Increasing, RunsThrough
<1>11. \A i \in 1 .. l : K[i] > key
  BY <1>2, <1>5, <1>6, <1>9
<1>12. ASSUME NEW k \in Keys, k > key, store[d][k] # Nothing
       PROVE  \/ \E i \in 1 .. Len(K) : K[i] = k
              \/ K # <<>> /\ k > K[Len(K)]
  <2>1. PICK n \in 1 .. c : s[n] = k
    BY <1>2, <1>5, <1>6, <1>12 DEF RunsThrough
  <2>2. CASE n <= l
    BY <1>9, <2>1, <2>2
  <2>3. CASE n > l
    <3>1. l \in 1 .. l /\ l \in 1 .. c /\ K # <<>> /\ K[Len(K)] = s[l]
      BY <1>7, <1>9, <2>1
    <3>2. s[l] < s[n]
      BY <1>5, <1>6, <2>1, <2>3, <3>1 DEF RunsThrough
    <3> QED
      BY <1>1, <1>3, <1>5, <1>6, <2>1, <3>1, <3>2
  <2> QED
    BY <1>7, <2>2, <2>3
<1> QED
  BY <1>9, <1>10, <1>11, <1>12

(* The first request of a drive. *)
LEMMA First ==
    ASSUME TypeOK, WireInv, NEW d \in Drives, inbox[d] # <<>>, NEW r, r = Head(inbox[d])
    PROVE  /\ r \in Request /\ r.op \in Ops /\ r.n \in Nat /\ r.val \in Values \cup {Nothing}
           /\ r.key \in Keys \cup {Start}
           /\ r.n = 0 => PageRequest(d, r)
           /\ r.n # 0 => CallRequest(d, r) /\ r.key \in Keys
           /\ r.kind \in {"put", "delete"} => r.n # 0
<1>1. r = inbox[d][1] /\ 1 \in 1 .. Len(inbox[d]) /\ inbox[d] \in Seq(Request)
  BY Typed, Behind
<1>2. r \in Request
  BY <1>1
<1>3. r.op \in Ops /\ r.n \in Nat /\ r.val \in Values \cup {Nothing} /\ r.key \in Keys \cup {Start}
  BY <1>2 DEF Request
<1>4. r.n = 0 => PageRequest(d, r)
  BY <1>1 DEF WireInv, RequestInv
<1>5. r.n # 0 => CallRequest(d, r)
  BY <1>1 DEF WireInv, RequestInv
<1>6. r.n # 0 => r.key \in Keys
  BY <1>3, <1>5, Typed DEF CallRequest
<1>7. r.n = 0 => r.kind \notin {"put", "delete"}
  BY <1>4 DEF PageRequest
<1> QED
  BY <1>2, <1>3, <1>4, <1>5, <1>6, <1>7

(* What a drive does with a request, and who is told. *)
Changed(d, r) ==
    /\ store' \in [Drives -> [Keys -> Values \cup {Nothing}]]
    /\ steady' \in [Listers -> SUBSET (Drives \X Keys)]
    /\ StoreStep(d, r)
    /\ \A x \in Listers : \A p \in steady'[x] :
          p \in steady[x] /\ store'[p[1]][p[2]] = store[p[1]][p[2]]

(* Execute changes no more than that, whether the request is served or lost. *)
LEMMA Executed ==
    ASSUME TypeOK, NEW d \in Drives, NEW r, r.val \in Values \cup {Nothing},
           r.kind \in {"put", "delete"} => r.key \in Keys,
           Execute(d, r) \/ (UNCHANGED <<store, steady>> /\ troubled'[r.op])
    PROVE  Changed(d, r)
<1>1. CASE UNCHANGED <<store, steady>> /\ (troubled'[r.op] \/ r.kind \notin {"put", "delete"})
  BY <1>1 DEF TypeOK, Changed, StoreStep
<1>2. CASE r.kind \in {"put", "delete"} /\ Execute(d, r)
  <2>1. /\ store' = [store EXCEPT ![d][r.key] = r.val]
        /\ steady' = [x \in Listers |-> steady[x] \ {<<d, r.key>>}]
    BY <1>2 DEF Execute
  <2>2. /\ store' \in [Drives -> [Keys -> Values \cup {Nothing}]]
        /\ store'[d][r.key] = r.val
        /\ \A e \in Drives : \A k \in Keys : (e # d \/ k # r.key) => store'[e][k] = store[e][k]
    BY <1>2, <2>1 DEF TypeOK
  <2>3. steady' \in [Listers -> SUBSET (Drives \X Keys)]
    BY <2>1 DEF TypeOK
  <2>4. ASSUME NEW x \in Listers, NEW p \in steady'[x]
        PROVE  p \in steady[x] /\ store'[p[1]][p[2]] = store[p[1]][p[2]]
    <3>1. p \in steady[x] /\ p # <<d, r.key>>
      BY <2>1, <2>4
    <3>2. p \in Drives \X Keys
      BY <3>1 DEF TypeOK
    <3>3. p[1] \in Drives /\ p[2] \in Keys /\ (p[1] # d \/ p[2] # r.key)
      BY <3>1, <3>2
    <3> QED
      BY <2>2, <3>1, <3>3
  <2> QED
    BY <1>2, <2>2, <2>3, <2>4 DEF Changed, StoreStep
<1> QED
  BY <1>1, <1>2 DEF Execute

(* The first request of a drive is done with. *)
LEMMA DriveStepCommon ==
    ASSUME DeliveryInv, NEW d \in Drives, inbox[d] # <<>>, NEW r, r = Head(inbox[d]),
           inbox' = [inbox EXCEPT ![d] = Tail(@)],
           Execute(d, r) \/ (UNCHANGED <<store, steady>> /\ troubled'[r.op]),
           SettledAt(r.op, r.n),
           page' \in [Ops -> [Drives -> Page]],
           PageKept(d, r),
           troubled' \in [Ops -> BOOLEAN], \A y \in Ops : ~troubled'[y] => ~troubled[y],
           failures' \in 0 .. MaxFailures,
           UNCHANGED <<step, ready, marker, items, rollVars, putVars, verdict>>
    PROVE  DeliveryInv'
<1>1. TypeOK /\ CallInv /\ WireInv
  BY DEF DeliveryInv
<1>2. UNCHANGED <<step, ready, marker, items, plan, waited, got, target, buffered, blocks, meta, verdict>>
  BY DEF rollVars, putVars
<1>3. /\ r.op \in Ops /\ r.n \in Nat /\ r.val \in Values \cup {Nothing}
      /\ r.kind \in {"put", "delete"} => r.n # 0 /\ r.key \in Keys
  BY <1>1, First
<1>4. Changed(d, r)
  BY <1>1, <1>3, Executed
<1>5. inbox' \in [Drives -> Seq(Request)]
  BY <1>1 DEF TypeOK
<1>6. calls' \in [Ops -> Seq(Call)]
  BY DEF SettledAt
<1>7. TypeOK'
  BY <1>1, <1>2, <1>4, <1>5, <1>6 DEF TypeOK, Changed
<1>8. CallInv'
  BY <1>1, <1>2, CallInvSettled
<1>9. WireInv'
  <2>1. StoreStep(d, r)
    BY <1>4 DEF Changed
  <2>2. UNCHANGED <<step, ready, marker, plan, verdict>>
    BY <1>2
  <2>3. TypeOK /\ WireInv
    BY <1>1
  <2> QED
    BY <2>1, <2>2, <2>3, TakenWire
<1> QED
  BY <1>7, <1>8, <1>9 DEF DeliveryInv

(* A call that has its outcome keeps it. *)
LEMMA NotSettled ==
    ASSUME TypeOK, NEW x \in Ops, UNCHANGED calls
    PROVE  SettledAt(x, 0)
BY Typed DEF SettledAt, TypeOK

(* Page outcomes. *)
LEMMA ServeStep ==
    ASSUME DeliveryInv, NEW d \in Drives, Serve(d)
    PROVE  DeliveryInv'
<1>1. TypeOK /\ CallInv /\ WireInv
  BY DEF DeliveryInv
<1>2. PICK r : r = Head(inbox[d])
  OBVIOUS
<1>3. /\ inbox[d] # <<>> /\ inbox' = [inbox EXCEPT ![d] = Tail(@)]
      /\ Execute(d, r) /\ Reply(d, r)
      /\ UNCHANGED <<step, ready, marker, items, rollVars, putVars, verdict, troubled, failures>>
  BY <1>2 DEF Serve
<1>4. /\ r.op \in Ops /\ r.n \in Nat /\ r.key \in Keys \cup {Start}
      /\ r.n = 0 => PageRequest(d, r)
      /\ r.n # 0 => CallRequest(d, r) /\ r.key \in Keys
  BY <1>1, <1>2, <1>3, First
<1>5. /\ troubled' \in [Ops -> BOOLEAN] /\ \A y \in Ops : ~troubled'[y] => ~troubled[y]
      /\ failures' \in 0 .. MaxFailures
  BY <1>1, <1>3 DEF TypeOK
<1>6. CASE r.n = 0
  <2>1. /\ page' = [page EXCEPT ![r.op][d] = [st |-> "ok", keys |-> Listed(d, r)]]
        /\ UNCHANGED calls
    BY <1>3, <1>6 DEF Reply
  <2>2. Listed(d, r) \in Seq(Keys)
    <3>1. CASE r.kind = "list"
      BY <1>1, <1>4, <3>1, After DEF Listed
    <3>2. CASE r.kind # "list"
      <4>1. r.key = Manifest /\ Manifest \in Keys
        <5>1. Manifest \in Keys
          BY SizesAssumption DEF Keys, Manifest, Block
        <5> QED
          BY <1>4, <1>6, <3>2, <5>1 DEF PageRequest
      <4> QED
        BY <3>2, <4>1 DEF Listed
    <3> QED
      BY <3>1, <3>2
  <2>3. page' \in [Ops -> [Drives -> Page]]
    <3>1. [st |-> "ok", keys |-> Listed(d, r)] \in Page
      BY <2>2 DEF Page
    <3> QED
      BY <1>1, <1>4, <2>1, <3>1 DEF TypeOK
  <2>4. PageKept(d, r)
    BY <1>1, <1>4, <1>6, <2>1 DEF TypeOK, PageKept
  <2>5. SettledAt(r.op, r.n)
    BY <1>1, <1>4, <1>6, <2>1, NotSettled
  <2> QED
    BY <1>2, <1>3, <1>5, <1>6, <2>3, <2>4, <2>5, DriveStepCommon
<1>7. CASE r.n # 0
  <2>1. PICK out \in {"ok", "missing"}, val \in Values \cup {Nothing} : Settle(r, out, val)
    <3>1. store[d][r.key] \in Values \cup {Nothing}
      BY <1>1, <1>4, <1>7 DEF TypeOK
    <3> QED
      BY <1>3, <1>7, <3>1 DEF Reply
  <2>2. UNCHANGED page
    BY <1>3, <1>7 DEF Reply
  <2>3. page' \in [Ops -> [Drives -> Page]]
    BY <1>1, <2>2 DEF TypeOK
  <2>4. SettledAt(r.op, r.n)
    BY <1>1, <1>4, <1>7, <2>1, Settled DEF Outcomes, CallRequest
  <2> QED
    <3>1. PageKept(d, r)
      BY <2>2 DEF PageKept
    <3> QED
      BY <1>2, <1>3, <1>5, <2>3, <2>4, <3>1, DriveStepCommon
<1> QED
  BY <1>6, <1>7

(* What a failure does to the operation of the request. *)
LEMMA Failed ==
    ASSUME TypeOK, NEW d \in Drives, NEW r, r.op \in Ops, Fail(d, r),
           r.n = 0 \/ r.n \in 1 .. Len(calls[r.op])
    PROVE  /\ troubled' = [troubled EXCEPT ![r.op] = TRUE] /\ troubled'[r.op]
           /\ troubled' \in [Ops -> BOOLEAN] /\ \A y \in Ops : ~troubled'[y] => ~troubled[y]
           /\ failures' \in 0 .. MaxFailures
           /\ page' \in [Ops -> [Drives -> Page]]
           /\ PageKept(d, r)
           /\ r.n = 0 => page'[r.op][d] = [page[r.op][d] EXCEPT !.st = "error"]
           /\ r.n # 0 => UNCHANGED page
           /\ SettledAt(r.op, r.n)
<1>1. failures < MaxFailures /\ failures' = failures + 1 /\ troubled' = [troubled EXCEPT ![r.op] = TRUE]
  BY DEF Fail
<1>2. /\ troubled'[r.op] /\ troubled' \in [Ops -> BOOLEAN]
      /\ \A y \in Ops : ~troubled'[y] => ~troubled[y]
  BY <1>1 DEF TypeOK
<1>3. failures' \in 0 .. MaxFailures
  BY <1>1, SizesAssumption DEF TypeOK
<1>4. CASE r.n = 0
  <2>1. page' = [page EXCEPT ![r.op][d].st = "error"] /\ UNCHANGED calls
    BY <1>4 DEF Fail
  <2>2. page[r.op][d] \in Page /\ page'[r.op][d] = [page[r.op][d] EXCEPT !.st = "error"]
    BY <2>1 DEF TypeOK
  <2>3. page'[r.op][d] \in Page
    BY <2>2 DEF Page
  <2>4. /\ page' \in [Ops -> [Drives -> Page]]
        /\ PageKept(d, r)
    BY <1>4, <2>1, <2>2, <2>3 DEF TypeOK, PageKept
  <2>5. SettledAt(r.op, 0)
    BY <2>1, NotSettled
  <2> QED
    BY <1>1, <1>2, <1>3, <1>4, <2>2, <2>4, <2>5
<1>5. CASE r.n # 0
  <2>1. Settle(r, "error", Nothing) /\ UNCHANGED page
    BY <1>5 DEF Fail
  <2>2. SettledAt(r.op, r.n)
    BY <1>5, <2>1, Settled DEF Outcomes
  <2>3. page' \in [Ops -> [Drives -> Page]]
    BY <2>1 DEF TypeOK
  <2> QED
    BY <1>1, <1>2, <1>3, <1>5, <2>1, <2>2, <2>3 DEF PageKept
<1> QED
  BY <1>4, <1>5

(* The connection of a drive is lost. *)
LEMMA LoseStep ==
    ASSUME DeliveryInv, NEW d \in Drives, Lose(d)
    PROVE  DeliveryInv'
<1>1. TypeOK /\ CallInv /\ WireInv
  BY DEF DeliveryInv
<1>2. PICK r : r = Head(inbox[d])
  OBVIOUS
<1>3. /\ inbox[d] # <<>> /\ inbox' = [inbox EXCEPT ![d] = Tail(@)]
      /\ Execute(d, r) \/ UNCHANGED <<store, steady>>
      /\ Fail(d, r)
      /\ UNCHANGED <<step, ready, marker, items, rollVars, putVars, verdict>>
  BY <1>2 DEF Lose
<1>4. r.op \in Ops /\ (r.n = 0 \/ r.n \in 1 .. Len(calls[r.op]))
  BY <1>1, <1>2, <1>3, First DEF CallRequest
<1>5. /\ troubled'[r.op] /\ SettledAt(r.op, r.n)
      /\ troubled' \in [Ops -> BOOLEAN] /\ \A y \in Ops : ~troubled'[y] => ~troubled[y]
      /\ failures' \in 0 .. MaxFailures
      /\ page' \in [Ops -> [Drives -> Page]]
      /\ PageKept(d, r)
  BY <1>1, <1>3, <1>4, Failed
<1> QED
  BY <1>2, <1>3, <1>5, DriveStepCommon

(* The call that times out is a PUT or a DELETE without outcome. *)
LEMMA Late ==
    ASSUME TypeOK, WireInv, NEW d \in Drives, NEW i \in DOMAIN inbox[d], NEW r, r = inbox[d][i],
           r.kind \in {"put", "delete"}
    PROVE  r.op \in Ops /\ r.n # 0 /\ r.n \in 1 .. Len(calls[r.op])
<1>1. i \in 1 .. Len(inbox[d]) /\ r.op \in Ops
  BY Typed
<1>2. r.n # 0
  BY <1>1 DEF WireInv, RequestInv, PageRequest
<1> QED
  BY <1>1, <1>2 DEF WireInv, RequestInv, CallRequest

(* A call times out. *)
LEMMA TimeOutStep ==
    ASSUME DeliveryInv, NEW d \in Drives, TimeOut(d)
    PROVE  DeliveryInv'
<1>1. TypeOK /\ CallInv /\ WireInv
  BY DEF DeliveryInv
<1>2. PICK i \in DOMAIN inbox[d] :
         /\ inbox[d][i].kind \in {"put", "delete"}
         /\ Fail(d, inbox[d][i])
  BY DEF TimeOut
<1>3. PICK r : r = inbox[d][i]
  OBVIOUS
<1>4. r.op \in Ops /\ r.n # 0 /\ r.n \in 1 .. Len(calls[r.op])
  BY <1>1, <1>2, <1>3, Late
<1>5. /\ troubled' = [troubled EXCEPT ![r.op] = TRUE] /\ SettledAt(r.op, r.n)
      /\ troubled' \in [Ops -> BOOLEAN]
      /\ failures' \in 0 .. MaxFailures /\ UNCHANGED page
  BY <1>1, <1>2, <1>3, <1>4, Failed
<1>6. UNCHANGED <<store, inbox, step, page, ready, marker, items, plan, waited, got,
                  target, buffered, blocks, meta, verdict, steady>>
  BY <1>5 DEF TimeOut, driveVars, rollVars, putVars
<1>7. TypeOK'
  <2>1. calls' \in [Ops -> Seq(Call)]
    BY <1>5 DEF SettledAt
  <2> QED
    BY <1>1, <1>5, <1>6, <2>1 DEF TypeOK
<1>8. CallInv'
  BY <1>1, <1>5, <1>6, CallInvSettled
<1>9. WireInv'
  BY <1>1, <1>4, <1>5, <1>6, TimedOutWire DEF driveVars
<1> QED
  BY <1>7, <1>8, <1>9 DEF DeliveryInv

-----------------------------------------------------------------------------
(* The calls and the requests, in every behaviour. *)

(* The part of the invariant that does not look at listings. *)
LEMMA DeliveryStep ==
    ASSUME DeliveryInv, Next
    PROVE  DeliveryInv'
<1>1. ASSUME NEW u \in Uploads, UploadStep(u)
      PROVE  DeliveryInv'
  <2>1. CASE BeginCheck(u) \/ Check(u) \/ CheckDone(u)
    BY <2>1, BeginCheckStep, CheckStep, CheckDoneStep
  <2>2. CASE WritePart(u) \/ WriteBlock(u) \/ Flush(u) \/ WriteMeta(u)
    BY <2>2, WritePartStep, WriteBlockStep, FlushStep, WriteMetaStep
  <2>3. CASE PutManifest(u) \/ CommitDone(u) \/ AbortUpload(u)
    BY <2>3, PutManifestStep, CommitDoneStep, AbortUploadStep
  <2>4. CASE StartNext(u) \/ DeleteAnswered(u) \/ RollDone(u)
    BY <2>4, StartNextStep, DeleteAnsweredStep, RollDoneStep DEF Ops
  <2> QED
    BY <1>1, <2>1, <2>2, <2>3, <2>4 DEF UploadStep
<1>2. ASSUME NEW x \in Listers, ListingStep(x)
      PROVE  DeliveryInv'
  BY <1>2, BeginListingStep, AskPageStep, TurnPageStep, ListingDoneStep DEF ListingStep
<1>3. ASSUME NEW x \in Downloads, DownloadStep(x)
      PROVE  DeliveryInv'
  BY <1>2, <1>3, BeginReadStep, StartNextStep, ReadAnsweredStep DEF DownloadStep, Ops, Listers
<1>4. ASSUME NEW x \in Removals, RemovalStep(x)
      PROVE  DeliveryInv'
  BY <1>2, <1>4, CommitRemovalStep, AbortRemovalStep, StartNextStep, DeleteAnsweredStep, RollDoneStep
     DEF RemovalStep, Ops, Listers
<1>5. ASSUME NEW d \in Drives, DriveStep(d)
      PROVE  DeliveryInv'
  BY <1>5, ServeStep, LoseStep, TimeOutStep DEF DriveStep
<1> QED
  BY <1>1, <1>3, <1>4, <1>5 DEF Next

(* The part of the invariant about calls and requests holds of every behaviour: *)
(* the outcomes of a drive come in the order of the calls, and a drive keeps    *)
(* nothing that was not put by a call.                                          *)
THEOREM Delivery == Spec => []DeliveryInv
<1>1. DeliveryInv /\ [Next]_vars => DeliveryInv'
  BY DeliveryStep, DeliveryStutter
<1> QED
  BY DeliveryInit, <1>1, PTL DEF Spec

(* Every variable has its type: a page has no more than keys, a window no more *)
(* than the calls of its plan (lines 244-295, 372-386).                        *)
THEOREM TypeCorrect == Spec => []TypeOK
<1>1. DeliveryInv => TypeOK
  BY DEF DeliveryInv
<1> QED
  BY <1>1, Delivery, PTL

(* An upload that was aborted leaves nothing behind if none of its RPC failed,     *)
(* not even a PUT that nobody waited for: its DELETE goes to the same drive, after *)
(* it (lines 557-572).                                                             *)
THEOREM NothingLeft == Spec => []NoOrphan
<1>1. DeliveryInv => NoOrphan
  <2> SUFFICES ASSUME DeliveryInv, NEW u \in Uploads,
                      step[u] = "done", verdict[u] = "aborted", ~troubled[u]
               PROVE  /\ \A p \in Places : store[p[1]][p[2]][1] # u
                      /\ \A d \in Drives : \A i \in DOMAIN inbox[d] : inbox[d][i].op # u
    BY DEF NoOrphan
  <2>1. /\ TypeOK /\ WireInv /\ UploadInv(u) /\ AnswerInv(u) /\ u \in Ops
        /\ Len(plan[u]) \in Nat /\ Len(calls[u]) \in Nat
    BY Typed DEF DeliveryInv, CallInv, Ops
  <2>2. /\ waited[u] = Len(plan[u]) /\ Len(plan[u]) <= Len(calls[u]) /\ Len(calls[u]) <= 2 * Len(plan[u])
        /\ \A n \in 1 .. Len(plan[u]) : plan[u][n] = Place(u, n)
        /\ \A n \in 1 .. Len(calls[u]) : n > Len(plan[u]) => plan[u][n - Len(plan[u])] = Place(u, n)
    BY <2>1 DEF UploadInv
  <2>3. Puts(u) = Len(plan[u]) /\ Earlier(u) = Len(plan[u])
    BY DEF Puts, Earlier
  <2>4. PICK l : l = Len(plan[u])
    OBVIOUS
  (* Every DELETE was sent and answered. *)
  <2>5. Len(calls[u]) = l + l /\ l \in Nat /\ \A i \in 1 .. l : ~Silent(u, l + i)
    <3>1. l \in Nat /\ l <= Len(calls[u]) /\ Len(calls[u]) <= 2 * l
      BY <2>1, <2>2, <2>4
    <3>2. l + l <= Len(calls[u]) /\ \A i \in 1 .. l : ~Silent(u, l + i)
      BY <2>1, <2>2, <2>3, <2>4 DEF AnswerInv
    <3> QED
      BY <2>1, <3>1, <3>2
  (* So was every PUT, since a drive answers in order. *)
  <2>6. ASSUME NEW n \in 1 .. l
        PROVE  ~Silent(u, n) /\ Place(u, l + n) = Place(u, n)
    <3>1. n \in 1 .. Len(calls[u]) /\ l + n \in 1 .. Len(calls[u]) /\ n < l + n /\ l + n > l
      BY <2>5
    <3>2. (l + n) - l = n
      BY <2>5
    <3>3. plan[u][n] = Place(u, l + n) /\ plan[u][n] = Place(u, n)
      BY <2>2, <2>4, <3>1, <3>2
    <3>4. calls[u][n].drive = calls[u][l + n].drive
      BY <3>3 DEF Place
    <3> QED
      BY <2>1, <2>5, <3>1, <3>3, <3>4 DEF WireInv, FifoInv
  <2>7. \A n \in 1 .. Len(calls[u]) : ~Silent(u, n)
    <3> SUFFICES ASSUME NEW n \in 1 .. Len(calls[u]) PROVE ~Silent(u, n)
      OBVIOUS
    <3>1. CASE n <= l
      BY <2>5, <2>6, <3>1
    <3>2. CASE n > l
      <4>1. n - l \in 1 .. l /\ l + (n - l) = n
        BY <2>5, <3>2
      <4> QED
        BY <2>5, <4>1
    <3> QED
      BY <2>5, <3>1, <3>2
  <2>8. ASSUME NEW p \in Places, store[p[1]][p[2]][1] = u
        PROVE  FALSE
    <3>1. PICK d \in Drives, k \in Keys : p = <<d, k>>
      BY DEF Places
    <3>2. store[d][k] # Nothing /\ store[d][k][1] = u
      BY <2>8, <3>1 DEF Places
    <3>3. PICK n : n = store[d][k][2]
      OBVIOUS
    <3>4. n \in 1 .. l /\ Place(u, n) = <<d, k>>
      <4>1. n <= Puts(u) /\ Place(u, n) = <<d, k>>
        BY <2>1, <3>2, <3>3 DEF WireInv, StoreInv
      <4>2. n \in Nat \ {0}
        BY <2>1, <3>2, <3>3, Typed
      <4> QED
        BY <2>3, <2>4, <2>5, <4>1, <4>2
    <3>5. /\ l + n \in 1 .. Len(calls[u]) /\ l + n > Puts(u) /\ ~Silent(u, l + n)
          /\ Place(u, l + n) = <<d, k>>
      <4>1. l + n \in 1 .. Len(calls[u]) /\ l + n > Puts(u)
        BY <2>3, <2>4, <2>5, <3>4
      <4> QED
        BY <2>5, <2>6, <3>4, <4>1
    <3>6. calls[u][l + n].drive = d /\ calls[u][l + n].key = k
      BY <3>5 DEF Place
    <3> QED
      BY <2>1, <3>2, <3>5, <3>6 DEF WireInv, GoneInv
  <2>9. ASSUME NEW d \in Drives, NEW i \in DOMAIN inbox[d], inbox[d][i].op = u
        PROVE  FALSE
    <3>1. i \in 1 .. Len(inbox[d])
      BY <2>1, Typed
    <3>2. inbox[d][i].n # 0
      BY <2>1, <2>9, <3>1 DEF WireInv, RequestInv, PageRequest
    <3>3. inbox[d][i].n \in 1 .. Len(calls[u])
      BY <2>1, <2>9, <3>1, <3>2 DEF WireInv, RequestInv, CallRequest
    <3> QED
      BY <2>1, <2>7, <2>9, <3>1, <3>2, <3>3 DEF WireInv, SentInv
  <2> QED
    BY <2>8, <2>9
<1> QED
  BY <1>1, Delivery, PTL

(* The manifest of an upload comes after all its blocks, whatever their number: *)
(* Prepare accepts one target only, and a drive keeps the order of its requests *)
(* (lines 528-555).                                                             *)
THEOREM BlocksBeforeManifest == Spec => []ManifestIsLast
<1>1. DeliveryInv => ManifestIsLast
  <2> SUFFICES ASSUME DeliveryInv, NEW d \in Drives, store[d][Manifest] # Nothing, NEW u,
                      u = store[d][Manifest][1], ~troubled[u], verdict[u] # "aborted",
                      NEW e \in Drives, NEW i \in DOMAIN inbox[e],
                      inbox[e][i].op = u, inbox[e][i].kind = "put"
               PROVE  FALSE
    BY DEF ManifestIsLast
  <2>1. Manifest \in Keys
    BY SizesAssumption DEF Keys, Manifest, Block
  <2>2. /\ TypeOK /\ WireInv /\ u \in Uploads /\ u \in Ops /\ UploadInv(u) /\ Len(calls[u]) \in Nat
        /\ i \in 1 .. Len(inbox[e])
    BY <2>1, Typed DEF DeliveryInv, CallInv, Ops
  <2>3. Puts(u) = Len(calls[u])
    BY DEF Puts
  <2>4. PICK n, m, drive : /\ n = store[d][Manifest][2] /\ m = inbox[e][i].n /\ drive = calls[u][n].drive
    OBVIOUS
  (* The manifest was answered; it is the last call. *)
  <2>5. n \in 1 .. Len(calls[u]) /\ Place(u, n) = <<d, Manifest>> /\ ~Silent(u, n)
    <3>1. n <= Len(calls[u]) /\ Place(u, n) = <<d, Manifest>> /\ ~Silent(u, n)
      BY <2>1, <2>2, <2>4 DEF WireInv, StoreInv
    <3>2. n \in Nat \ {0}
      BY <2>1, <2>2, <2>4, Typed
    <3> QED
      BY <2>2, <3>1, <3>2
  <2>6. n = Len(calls[u]) /\ calls[u][n].drive \in target[u] /\ step[u] \in {"wait", "done"}
    BY SMTT(30), <2>2, <2>3, <2>5 DEF UploadInv, Place
  (* The request is an earlier call, without outcome, on the same drive. *)
  <2>7. m \in 1 .. Len(calls[u]) /\ m # 0 /\ Silent(u, m)
    <3>1. m # 0
      BY <2>2, <2>4 DEF WireInv, RequestInv, PageRequest
    <3>2. m \in 1 .. Len(calls[u])
      BY <2>2, <2>4, <3>1 DEF WireInv, RequestInv, CallRequest
    <3> QED
      BY <2>2, <2>4, <3>1, <3>2 DEF WireInv, SentInv
  <2>8. m < n
    BY <2>2, <2>5, <2>6, <2>7
  <2>9. calls[u][m].drive \in target[u] /\ \E t \in Drives : target[u] = {t}
    BY SMTT(30), <2>2, <2>3, <2>6, <2>7 DEF UploadInv
  <2>10. calls[u][m].drive = calls[u][n].drive
    BY <2>6, <2>9
  <2> QED
    BY <2>2, <2>5, <2>7, <2>8, <2>10 DEF WireInv, FifoInv
<1> QED
  BY <1>1, Delivery, PTL

-----------------------------------------------------------------------------
(* Listings: what a step leaves to those it is not of. *)

(* A step leaves to y what it knows. *)
Left(y) ==
    /\ step'[y] = step[y] /\ calls'[y] = calls[y] /\ page'[y] = page[y] /\ ready'[y] = ready[y]
    /\ marker'[y] = marker[y] /\ items'[y] = items[y] /\ plan'[y] = plan[y] /\ waited'[y] = waited[y]
    /\ (y \in Downloads => got'[y] = got[y]) /\ steady'[y] = steady[y] /\ troubled'[y] = troubled[y]

(* What such a step leaves to y stays true. *)
LEMMA LeftKnows ==
    ASSUME NEW y \in Listers, Knows(y), Left(y), store' = store
    PROVE  Knows(y)'
<1>1. SteadyInv(y)'
  BY DEF Knows, SteadyInv, Left
<1>2. \A d \in Drives : PageInv(y, d)'
  BY DEF Knows, PageInv, Left
<1>3. ItemsInv(y)' /\ PlanInv(y)'
  BY DEF Knows, ItemsInv, PlanInv, Left
<1>4. OutcomeInv(y)' /\ GotInv(y)'
  BY DEF Knows, OutcomeInv, GotInv, Left, Silent, Place
<1> QED
  BY <1>1, <1>2, <1>3, <1>4 DEF Knows

(* A step of an upload leaves the listings alone. *)
LEMMA UploadLeaves ==
    ASSUME TypeOK, NEW u \in Uploads, UploadStep(u), NEW y \in Listers
    PROVE  Left(y) /\ store' = store
<1>1. y \in Ops /\ y # u /\ u \in Ops
  BY OpsAssumption DEF Ops, Listers
<1>2. CASE BeginCheck(u) \/ Check(u) \/ CheckDone(u)
  BY <1>1, <1>2 DEF TypeOK, Left, BeginCheck, Check, CheckDone, AskDrive, Go,
     driveVars, rollVars, history
<1>3. CASE WritePart(u) \/ CommitDone(u) \/ AbortUpload(u) \/ RollDone(u)
  BY <1>1, <1>3 DEF TypeOK, Left, WritePart, CommitDone, AbortUpload, RollDone, Go,
     driveVars, listVars, rollVars, history
<1>4. CASE WriteBlock(u) \/ WriteMeta(u) \/ PutManifest(u)
  BY <1>1, <1>4 DEF TypeOK, Left, WriteBlock, WriteMeta, PutManifest, Go, TriggerUpload, StartCall,
     driveVars, listVars, rollVars, history
<1>5. CASE Flush(u)
  BY <1>1, <1>5 DEF TypeOK, Left, Flush, Go, TriggerUpload, StartCall,
     driveVars, listVars, rollVars, history
<1>6. CASE StartNext(u)
  BY <1>1, <1>6 DEF TypeOK, Left, StartNext, StartCall, driveVars, listVars, rollVars, history
<1>7. CASE DeleteAnswered(u)
  BY <1>1, <1>7 DEF TypeOK, Left, DeleteAnswered, Answered, driveVars, listVars, rollVars, history
<1> QED
  BY <1>2, <1>3, <1>4, <1>5, <1>6, <1>7 DEF UploadStep

(* So does a step of another download or removal. *)
LEMMA ListerLeaves ==
    ASSUME TypeOK, NEW x \in Listers, DownloadStep(x) \/ RemovalStep(x),
           NEW y \in Listers, y # x
    PROVE  Left(y) /\ store' = store
<1>1. y \in Ops /\ x \in Ops
  BY DEF Ops, Listers
<1>2. CASE BeginListing(x) \/ AskPage(x)
  BY <1>1, <1>2 DEF TypeOK, Left, BeginListing, AskPage, AskDrive, Go, driveVars, rollVars, history
<1>3. CASE TurnPage(x)
  BY <1>1, <1>3 DEF TypeOK, Left, TurnPage, Turn, driveVars, rollVars, history
<1>4. CASE ListingDone(x)
  BY <1>1, <1>4 DEF TypeOK, Left, ListingDone, Go, driveVars, history
<1>5. CASE BeginRead(x) \/ RollDone(x) \/ CommitRemoval(x) \/ AbortRemoval(x)
  BY <1>1, <1>5 DEF TypeOK, Left, BeginRead, RollDone, CommitRemoval, AbortRemoval, Go,
     driveVars, listVars, rollVars, history
<1>6. CASE StartNext(x)
  BY <1>1, <1>6 DEF TypeOK, Left, StartNext, StartCall, driveVars, listVars, rollVars, history
<1>7. CASE DeleteAnswered(x) \/ ReadAnswered(x)
  BY <1>1, <1>7 DEF TypeOK, Left, DeleteAnswered, ReadAnswered, Answered, Go,
     driveVars, listVars, rollVars, history
<1> QED
  BY <1>2, <1>3, <1>4, <1>5, <1>6, <1>7 DEF DownloadStep, RemovalStep, ListingStep

-----------------------------------------------------------------------------
(* A listing begins with what the drives hold. *)
LEMMA BeginListingKnows ==
    ASSUME DeliveryInv, NEW x \in Listers, Knows(x), BeginListing(x)
    PROVE  Knows(x)'
<1>1. TypeOK /\ ListerInv(x) /\ x \in Ops
  BY DEF DeliveryInv, CallInv, Ops, Listers
<1>2. /\ step[x] = "init" /\ step'[x] = "list" /\ page'[x] = NoPage /\ ready'[x] = Drives
      /\ marker'[x] = [d \in Drives |-> Start] /\ items'[x] = <<>> /\ steady'[x] = Places
      /\ troubled'[x] = FALSE
      /\ UNCHANGED <<store, calls, plan, waited, got>>
  BY <1>1 DEF TypeOK, BeginListing, MayBegin, Go, driveVars, rollVars
<1>3. calls[x] = <<>> /\ plan[x] = <<>> /\ waited[x] = 0
  BY <1>1, <1>2 DEF ListerInv
<1>4. SteadyInv(x)'
  BY <1>2 DEF SteadyInv, Places
<1>5. \A d \in Drives : PageInv(x, d)'
  BY <1>2 DEF PageInv, NoPage, Increasing
<1>6. ItemsInv(x)'
  <2>1. \A p \in Places : p[1] \in Drives /\ p[2] > Start
    <3>1. PICK top : top = Block(MaxBlocks + MetaBlocks + 1, FALSE)
      OBVIOUS
    <3>2. top \in Nat /\ Keys = 1 .. top
      BY <3>1, SizesAssumption DEF Block, Keys, Manifest
    <3> QED
      BY <3>2 DEF Places, Start
  <2> QED
    BY <1>2, <2>1 DEF ItemsInv, Distinct
<1>7. PlanInv(x)'
  BY <1>2, <1>3 DEF PlanInv, Distinct
<1>8. OutcomeInv(x)'
  BY <1>2, <1>3 DEF OutcomeInv
<1>9. GotInv(x)'
  BY <1>2, <1>3 DEF Knows, GotInv
<1> QED
  BY <1>4, <1>5, <1>6, <1>7, <1>8, <1>9 DEF Knows

(* A drive is asked for a page. *)
LEMMA AskPageKnows ==
    ASSUME DeliveryInv, NEW x \in Listers, Knows(x), AskPage(x)
    PROVE  Knows(x)'
<1>1. TypeOK /\ x \in Ops
  BY DEF DeliveryInv, Ops, Listers
<1>2. PICK d \in Drives : AskDrive(x, d, "list", marker[x][d])
  BY DEF AskPage
<1>3. /\ step[x] = "list" /\ d \in ready[x] /\ page[x][d].st = "none"
      /\ page' = [page EXCEPT ![x][d].st = "asked"]
  BY <1>2 DEF AskDrive, NextToAsk, Asked
<1>4. UNCHANGED <<store, step, calls, ready, marker, items, plan, waited, got, steady, troubled>>
  BY DEF AskPage, rollVars, history
<1>5. /\ page'[x][d].st = "asked" /\ page'[x][d].keys = page[x][d].keys
      /\ \A e \in Drives \ {d} : page'[x][e] = page[x][e]
  <2>1. page[x][d] \in Page /\ page \in [Ops -> [Drives -> Page]]
    BY <1>1 DEF TypeOK
  <2>2. page'[x][d] = [page[x][d] EXCEPT !.st = "asked"]
    BY <1>1, <1>3, <2>1
  <2>3. \A e \in Drives \ {d} : page'[x][e] = page[x][e]
    BY <1>1, <1>3, <2>1
  <2> QED
    BY <2>1, <2>2, <2>3 DEF Page
<1>6. \A e \in Drives : PageInv(x, e)'
  <2>1. ASSUME NEW e \in Drives, e # d PROVE PageInv(x, e)'
    BY <1>4, <1>5, <2>1 DEF Knows, PageInv
  <2>2. PageInv(x, d)'
    <3>1. page[x][d].keys = <<>>
      BY <1>3 DEF Knows, PageInv
    <3> QED
      BY <1>3, <1>4, <1>5, <3>1 DEF PageInv, Increasing
  <2> QED
    BY <2>1, <2>2
<1>7. SteadyInv(x)' /\ ItemsInv(x)' /\ PlanInv(x)'
  BY <1>4 DEF Knows, SteadyInv, ItemsInv, PlanInv
<1>8. OutcomeInv(x)' /\ GotInv(x)'
  BY <1>4 DEF Knows, OutcomeInv, GotInv, Silent, Place
<1> QED
  BY <1>6, <1>7, <1>8 DEF Knows

(* Two sequences without repetition that share nothing. *)
ChainOf(j, s, t) ==
    /\ \A i \in 1 .. Len(j) : Has(s, j[i]) \/ Has(t, j[i])
    /\ \A p : Has(s, p) \/ Has(t, p) => Has(j, p)

Apart(s, t) == \A m \in 1 .. Len(s), n \in 1 .. Len(t) : s[m] # t[n]

(* The chain of two sequences that share nothing repeats nothing. *)
LEMMA Chained ==
    ASSUME NEW S, NEW s \in Seq(S), NEW t \in Seq(S), NEW j, j = s \o t
    PROVE  /\ j \in Seq(S)
           /\ ChainOf(j, s, t)
           /\ Distinct(s) /\ Distinct(t) /\ Apart(s, t) => Distinct(j)
<1>1. PICK a, b : a = Len(s) /\ b = Len(t)
  OBVIOUS
<1>2. /\ a \in Nat /\ b \in Nat /\ j \in Seq(S) /\ Len(j) = a + b
      /\ \A i \in 1 .. a : i \in 1 .. Len(j) /\ j[i] = s[i]
      /\ \A i \in 1 .. b : a + i \in 1 .. Len(j) /\ j[a + i] = t[i]
  BY <1>1
<1>3. \A i \in 1 .. Len(j) :
         \/ i \in 1 .. a /\ j[i] = s[i]
         \/ i - a \in 1 .. b /\ j[i] = t[i - a]
  BY <1>1
<1>4. \A i \in 1 .. Len(j) : Has(s, j[i]) \/ Has(t, j[i])
  BY <1>1, <1>3 DEF Has
<1>5. \A p : Has(s, p) \/ Has(t, p) => Has(j, p)
  BY <1>1, <1>2 DEF Has
<1>6. ASSUME Distinct(s), Distinct(t), Apart(s, t),
             NEW i \in 1 .. Len(j), NEW k \in 1 .. Len(j), i # k
      PROVE  j[i] # j[k]
  <2>1. CASE i \in 1 .. a /\ j[i] = s[i] /\ k \in 1 .. a /\ j[k] = s[k]
    BY <1>1, <1>6, <2>1 DEF Distinct
  <2>2. CASE i \in 1 .. a /\ j[i] = s[i] /\ k - a \in 1 .. b /\ j[k] = t[k - a]
    BY <1>1, <1>6, <2>2 DEF Apart
  <2>3. CASE i - a \in 1 .. b /\ j[i] = t[i - a] /\ k \in 1 .. a /\ j[k] = s[k]
    BY <1>1, <1>6, <2>3 DEF Apart
  <2>4. CASE i - a \in 1 .. b /\ j[i] = t[i - a] /\ k - a \in 1 .. b /\ j[k] = t[k - a]
    <3>1. i - a # k - a
      BY <1>2, <1>6
    <3> QED
      BY <1>1, <1>6, <2>4, <3>1 DEF Distinct
  <2> QED
    BY <1>3, <2>1, <2>2, <2>3, <2>4
<1> QED
  BY <1>2, <1>4, <1>5, <1>6 DEF Distinct, ChainOf

(* The round is over: the pages are kept, and the marks move behind them. *)
LEMMA TurnPageKnows ==
    ASSUME DeliveryInv, NEW x \in Listers, Knows(x), TurnPage(x)
    PROVE  Knows(x)'
<1>1. TypeOK /\ x \in Ops
  BY DEF DeliveryInv, Ops, Listers
<1>2. /\ step[x] = "list" /\ RoundOver(x) /\ Turn(x)
      /\ page' = [page EXCEPT ![x] = NoPage]
      /\ UNCHANGED <<store, step, calls, plan, waited, got, steady, troubled>>
  BY DEF TurnPage, driveVars, rollVars, history
<1>3. PICK I, P, J : I = items[x] /\ P = Pages(x) /\ J = items'[x]
  OBVIOUS
<1>4. /\ ready'[x] = {d \in ready[x] : page[x][d].keys # <<>>}
      /\ \A d \in Drives : marker'[x][d] =
            IF page[x][d].keys = <<>> THEN marker[x][d] ELSE Last(page[x][d].keys)
      /\ J = I \o P /\ page'[x] = NoPage
  BY <1>1, <1>2, <1>3 DEF TypeOK, Turn
<1>5. /\ I \in Seq(Drives \X Keys) /\ ready[x] \subseteq Drives
      /\ \A p \in steady[x] : p \in Drives \X Keys
      /\ \A d \in Drives : marker[x][d] \in Nat
  <2>1. /\ I \in Seq(Drives \X Keys) /\ ready[x] \subseteq Drives
        /\ \A p \in steady[x] : p \in Drives \X Keys
    BY <1>1, <1>3 DEF TypeOK
  <2>2. \A d \in Drives : marker[x][d] \in Keys \cup {Start}
    BY <1>1 DEF TypeOK
  <2> QED
    BY <2>1, <2>2, KeysAreNumbers
<1>18. P \in Seq(Drives \X Keys) /\ OfPages(x, P) /\ Distinct(P)
  <2>1. PagesGrow(x)
    BY DEF Knows, PageInv, PagesGrow
  <2> QED
    BY <1>1, <1>3, <2>1, Paged
<1>6. /\ P \in Seq(Drives \X Keys) /\ Distinct(P)
      /\ \A i \in 1 .. Len(P) : \E d \in Drives : \E j \in 1 .. Len(page[x][d].keys) :
            P[i] = <<d, page[x][d].keys[j]>>
      /\ \A d \in Drives : \A j \in 1 .. Len(page[x][d].keys) : Has(P, <<d, page[x][d].keys[j]>>)
  BY <1>18 DEF OfPages
<1>8. /\ Distinct(I) /\ \A i \in 1 .. Len(I) : I[i][2] <= marker[x][I[i][1]]
      /\ ~troubled[x] => \A p \in steady[x] :
            Has(I, p) \/ (p[1] \in ready[x] /\ p[2] > marker[x][p[1]])
  BY <1>2, <1>3 DEF Knows, ItemsInv
(* The mark of a drive moves behind its page. *)
<1>9. ASSUME NEW d \in Drives
      PROVE  /\ marker'[x][d] \in Nat /\ marker[x][d] <= marker'[x][d]
             /\ \A j \in 1 .. Len(page[x][d].keys) :
                   page[x][d].keys[j] > marker[x][d] /\ page[x][d].keys[j] <= marker'[x][d]
  <2>1. PICK K : K = page[x][d].keys
    OBVIOUS
  <2>2. K \in Seq(Keys) /\ Increasing(K) /\ \A j \in 1 .. Len(K) : K[j] > marker[x][d] /\ K[j] \in Nat
    <3>1. page[x][d] \in Page
      BY <1>1 DEF TypeOK
    <3>2. K \in Seq(Keys)
      BY <2>1, <3>1 DEF Page
    <3> QED
      <4>1. Increasing(K) /\ \A j \in 1 .. Len(K) : K[j] > marker[x][d]
        BY <2>1 DEF Knows, PageInv
      <4>2. \A j \in 1 .. Len(K) : K[j] \in Keys
        BY <3>2
      <4> QED
        BY <3>2, <4>1, <4>2, KeysAreNumbers
  <2>3. CASE K = <<>>
    <3>1. marker'[x][d] = marker[x][d]
      BY <1>4, <2>1, <2>3
    <3>2. \A j \in 1 .. Len(page[x][d].keys) : FALSE
      BY <2>1, <2>3
    <3> QED
      BY <1>5, <3>1, <3>2
  <2>4. CASE K # <<>>
    <3>1. marker'[x][d] = K[Len(K)] /\ Len(K) \in 1 .. Len(K)
      BY <1>1, <1>4, <2>1, <2>4, PageEnd
    <3>2. \A j \in 1 .. Len(K) : j = Len(K) \/ j < Len(K)
      BY <2>2
    <3>3. \A j \in 1 .. Len(K) : K[j] <= K[Len(K)]
      BY <2>2, <3>1, <3>2 DEF Increasing
    <3> QED
      <4>1. marker[x][d] \in Nat /\ K[Len(K)] \in Nat /\ K[Len(K)] > marker[x][d]
        BY <1>5, <2>2, <3>1
      <4>2. \A j \in 1 .. Len(K) : K[j] > marker[x][d] /\ K[j] <= marker'[x][d]
        BY <2>2, <3>1, <3>3
      <4> QED
        BY <2>1, <3>1, <4>1, <4>2
  <2> QED
    BY <2>3, <2>4
<1>10. /\ J \in Seq(Drives \X Keys)
       /\ \A i \in 1 .. Len(J) : Has(I, J[i]) \/ Has(P, J[i])
       /\ \A p : Has(I, p) \/ Has(P, p) => Has(J, p)
  BY <1>4, <1>5, <1>6, Chained DEF ChainOf
<1>11. Distinct(J)
  <2>1. ASSUME NEW m \in 1 .. Len(I), NEW n \in 1 .. Len(P), I[m] = P[n]
        PROVE  FALSE
    <3>4. PICK d \in Drives : \E j \in 1 .. Len(page[x][d].keys) : P[n] = <<d, page[x][d].keys[j]>>
      BY <1>6
    <3>1. PICK j \in 1 .. Len(page[x][d].keys) : P[n] = <<d, page[x][d].keys[j]>>
      BY <3>4
    <3>2. page[x][d].keys[j] > marker[x][d] /\ page[x][d].keys[j] <= marker[x][d]
      BY <1>8, <1>9, <2>1, <3>1
    <3>3. page[x][d].keys[j] \in Nat
      <4>1. P[n] \in Drives \X Keys
        BY <1>6
      <4>2. P[n][2] \in Keys /\ P[n][2] = page[x][d].keys[j]
        BY <3>1, <4>1
      <4> QED
        BY <4>2, KeysAreNumbers
    <3> QED
      BY <1>5, <3>2, <3>3
  <2> QED
    <3>1. Apart(I, P)
      BY <2>1 DEF Apart
    <3> QED
      BY <1>4, <1>5, <1>6, <1>8, <3>1, Chained
<1>12. ASSUME NEW i \in 1 .. Len(J)
       PROVE  J[i][2] <= marker'[x][J[i][1]]
  <2>1. J[i] \in Drives \X Keys
    BY <1>10
  <2>2. CASE Has(I, J[i])
    <3>1. J[i][2] <= marker[x][J[i][1]]
      BY <1>8, <2>2 DEF Has
    <3>2. J[i][1] \in Drives /\ J[i][2] \in Nat
      BY <2>1, KeysAreNumbers
    <3>3. /\ marker[x][J[i][1]] \in Nat /\ marker'[x][J[i][1]] \in Nat
          /\ marker[x][J[i][1]] <= marker'[x][J[i][1]]
      BY <1>5, <1>9, <3>2
    <3> QED
      BY <3>1, <3>2, <3>3
  <2>3. CASE Has(P, J[i])
    <3>3. PICK n \in 1 .. Len(P) : P[n] = J[i]
      BY <2>3 DEF Has
    <3>4. PICK d \in Drives : \E j \in 1 .. Len(page[x][d].keys) : P[n] = <<d, page[x][d].keys[j]>>
      BY <1>6
    <3>1. \E j \in 1 .. Len(page[x][d].keys) : J[i] = <<d, page[x][d].keys[j]>>
      BY <3>3, <3>4
    <3>2. PICK j \in 1 .. Len(page[x][d].keys) : J[i] = <<d, page[x][d].keys[j]>>
      BY <3>1
    <3> QED
      BY <1>9, <3>2
  <2> QED
    BY <1>10, <2>2, <2>3
<1>13. ASSUME ~troubled[x], NEW p \in steady[x]
       PROVE  Has(J, p) \/ (p[1] \in ready'[x] /\ p[2] > marker'[x][p[1]])
  <2>1. CASE Has(I, p)
    BY <1>10, <2>1
  <2>2. CASE p[1] \in ready[x] /\ p[2] > marker[x][p[1]]
    <3>1. PICK d \in Drives, k \in Keys : p = <<d, k>>
      BY <1>5
    <3>2. page[x][d].st = "ok"
      BY <1>2, <1>13, <2>2, <3>1 DEF RoundOver, Knows, PageInv
    <3>3. \/ \E i \in 1 .. Len(page[x][d].keys) : page[x][d].keys[i] = k
          \/ page[x][d].keys # <<>> /\ k > page[x][d].keys[Len(page[x][d].keys)]
      BY <1>13, <2>2, <3>1, <3>2 DEF Knows, PageInv
    <3>4. CASE \E i \in 1 .. Len(page[x][d].keys) : page[x][d].keys[i] = k
      BY <1>6, <1>10, <3>1, <3>4
    <3>5. CASE page[x][d].keys # <<>> /\ k > page[x][d].keys[Len(page[x][d].keys)]
      BY <1>1, <1>4, <2>2, <3>1, <3>5, PageEnd
    <3> QED
      BY <3>3, <3>4, <3>5
  <2> QED
    BY <1>8, <1>13, <2>1, <2>2
<1>14. ItemsInv(x)'
  BY <1>2, <1>3, <1>11, <1>12, <1>13 DEF ItemsInv
<1>15. \A d \in Drives : PageInv(x, d)'
  BY <1>4 DEF PageInv, NoPage, Increasing
<1>16. SteadyInv(x)' /\ PlanInv(x)'
  BY <1>2 DEF Knows, SteadyInv, PlanInv
<1>17. OutcomeInv(x)' /\ GotInv(x)'
  BY <1>2 DEF Knows, OutcomeInv, GotInv, Silent, Place
<1> QED
  BY <1>14, <1>15, <1>16, <1>17 DEF Knows

(* The listing is over: what stays is to be fetched, or deleted. *)
LEMMA ListingDoneKnows ==
    ASSUME DeliveryInv, NEW x \in Listers, Knows(x), ListingDone(x)
    PROVE  Knows(x)'
<1>1. TypeOK /\ ListerInv(x) /\ x \in Ops /\ (x \in Removals => x \notin Downloads)
  BY OpsAssumption DEF DeliveryInv, CallInv, Ops, Listers
<1>2. /\ step[x] = "list" /\ ready[x] = {}
      /\ UNCHANGED <<store, calls, page, ready, waited, got, steady, troubled>>
  BY DEF ListingDone, driveVars, history
<1>3. PICK I : I = items[x]
  OBVIOUS
<1>4. \/ step'[x] = "init" /\ plan'[x] = plan[x]
      \/ /\ step'[x] = "prepared"
         /\ plan'[x] = IF x \in Downloads THEN InOrder(I) ELSE I
  BY <1>1, <1>3 DEF TypeOK, ListingDone, Go
<1>5. I \in Seq(Drives \X Keys) /\ calls[x] = <<>> /\ waited[x] = 0
  BY <1>1, <1>2, <1>3 DEF TypeOK, ListerInv
<1>6. Distinct(I) /\ (~troubled[x] => \A p \in steady[x] : Has(I, p))
  BY <1>2, <1>3 DEF Knows, ItemsInv
<1>7. PlanInv(x)'
  <2>1. CASE step'[x] = "init" /\ plan'[x] = plan[x]
    BY <2>1 DEF Knows, PlanInv
  <2>2. CASE x \notin Downloads /\ step'[x] = "prepared" /\ plan'[x] = I
    BY <1>2, <1>6, <2>2 DEF PlanInv
  <2>3. CASE x \in Downloads /\ step'[x] = "prepared" /\ plan'[x] = InOrder(I)
    <3>1. PICK L : L = InOrder(I)
      OBVIOUS
    <3>2. /\ \A i \in 1 .. Len(I) : I[i][2] # Manifest => Has(L, I[i])
          /\ Distinct(L)
          /\ \A m, n \in 1 .. Len(L) : m < n => NumberOf(L[m][2]) <= NumberOf(L[n][2])
      BY <1>5, <1>6, <3>1, Ordered
    <3>3. \A p : Has(I, p) /\ p[2] # Manifest => Has(L, p)
      BY <3>2 DEF Has
    <3> QED
      BY <1>1, <1>2, <1>6, <2>3, <3>1, <3>2, <3>3 DEF PlanInv
  <2> QED
    BY <1>4, <2>1, <2>2, <2>3
<1>8. \A d \in Drives : PageInv(x, d)'
  <2>1. \A d \in Drives : page[x][d].st = "none" /\ page[x][d].keys = <<>>
    BY <1>2 DEF Knows, PageInv
  <2> QED
    BY <1>2, <2>1 DEF PageInv, Increasing
<1>9. SteadyInv(x)' /\ ItemsInv(x)'
  BY <1>2, <1>4 DEF Knows, SteadyInv, ItemsInv
<1>10. OutcomeInv(x)' /\ GotInv(x)'
  BY <1>2 DEF Knows, OutcomeInv, GotInv, Silent, Place
<1> QED
  BY <1>7, <1>8, <1>9, <1>10 DEF Knows

(* The caller goes on; nothing is listed. *)
LEMMA CallerKnows ==
    ASSUME DeliveryInv, NEW x \in Listers, Knows(x), step[x] \in {"prepared", "roll"},
           step'[x] \notin {"init", "list"},
           UNCHANGED <<driveVars, calls, listVars, rollVars, history>>
    PROVE  Knows(x)'
<1>1. UNCHANGED <<store, calls, page, ready, marker, items, plan, waited, got, steady, troubled>>
  BY DEF driveVars, listVars, rollVars, history
<1>2. \A d \in Drives : PageInv(x, d)'
  BY <1>1 DEF Knows, PageInv
<1>3. SteadyInv(x)' /\ ItemsInv(x)' /\ PlanInv(x)'
  BY <1>1 DEF Knows, SteadyInv, ItemsInv, PlanInv
<1>4. OutcomeInv(x)' /\ GotInv(x)'
  BY <1>1 DEF Knows, OutcomeInv, GotInv, Silent, Place
<1> QED
  BY <1>2, <1>3, <1>4 DEF Knows

(* A call is sent: it has no outcome yet. *)
LEMMA StartNextKnows ==
    ASSUME DeliveryInv, NEW x \in Listers, Knows(x), StartNext(x)
    PROVE  Knows(x)'
<1>1. TypeOK /\ AnswerInv(x) /\ x \in Ops /\ x \notin Uploads
  BY OpsAssumption DEF DeliveryInv, CallInv, Ops, Listers
<1>2. UNCHANGED <<store, step, page, ready, marker, items, plan, waited, got, steady, troubled>>
  BY DEF StartNext, listVars, rollVars, history
<1>3. PICK c : calls'[x] = Append(calls[x], c) /\ c.out = "none"
  <2>1. PICK p : p = plan[x][Started(x) + 1]
    OBVIOUS
  <2>2. PICK c : c = [drive |-> p[1], key |-> p[2], out |-> "none", val |-> Nothing]
    OBVIOUS
  <2>3. calls' = [calls EXCEPT ![x] = Append(calls[x], c)]
    BY <2>1, <2>2 DEF StartNext, StartCall
  <2> QED
    <3>1. c.out = "none"
      BY <2>2
    <3>2. calls'[x] = Append(calls[x], c)
      BY <1>1, <2>3 DEF TypeOK
    <3> QED
      BY <3>1, <3>2, Zenon
<1>4. calls[x] \in Seq(Call) /\ Len(calls[x]) \in Nat /\ waited[x] \in Nat
  BY <1>1, Typed
<1>5. PICK N : N = Len(calls[x]) + 1
  OBVIOUS
<1>6. /\ Len(calls'[x]) = N /\ calls'[x][N] = c
      /\ \A n \in 1 .. Len(calls[x]) : calls'[x][n] = calls[x][n]
      /\ \A n \in 1 .. N : n \in 1 .. Len(calls[x]) \/ n = N
  BY <1>3, <1>4, <1>5, Appended
<1>7. OutcomeInv(x)'
  <2>1. Silent(x, N)'
    BY <1>3, <1>6 DEF Silent
  <2>2. \A n \in 1 .. Len(calls[x]) : Silent(x, n)' = Silent(x, n) /\ Place(x, n)' = Place(x, n)
    BY <1>6 DEF Silent, Place
  <2>3. OutcomeInv(x)
    BY DEF Knows
  <2> SUFFICES ASSUME ~troubled[x], NEW n \in 1 .. N, ~Silent(x, n)', Place(x, n)' \in steady[x]
               PROVE  /\ x \in Downloads
                      /\ calls'[x][n].val = store[calls'[x][n].drive][calls'[x][n].key]
    BY <1>2, <1>6 DEF OutcomeInv
  <2>4. n \in 1 .. Len(calls[x])
    BY <1>6, <2>1
  <2> QED
    BY <1>6, <2>2, <2>3, <2>4 DEF OutcomeInv
<1>8. GotInv(x)'
  <2>1. waited[x] <= Len(calls[x])
    BY <1>1, <1>4 DEF AnswerInv, Earlier
  <2>2. \A n \in 1 .. waited[x] : n \in 1 .. Len(calls[x])
    BY <1>4, <2>1
  <2> QED
    BY <1>2, <1>6, <2>2 DEF Knows, GotInv
<1>9. \A d \in Drives : PageInv(x, d)'
  BY <1>2 DEF Knows, PageInv
<1>10. SteadyInv(x)' /\ ItemsInv(x)' /\ PlanInv(x)'
  BY <1>2 DEF Knows, SteadyInv, ItemsInv, PlanInv
<1> QED
  BY <1>7, <1>8, <1>9, <1>10 DEF Knows

(* The answer of a DELETE is not looked at. *)
LEMMA DeleteAnsweredKnows ==
    ASSUME DeliveryInv, NEW x \in Removals, Knows(x), DeleteAnswered(x)
    PROVE  Knows(x)'
<1>1. x \notin Downloads
  BY OpsAssumption
<1>2. UNCHANGED <<store, step, calls, page, ready, marker, items, plan, steady, troubled>>
  BY DEF DeleteAnswered, driveVars, listVars, history
<1>3. \A d \in Drives : PageInv(x, d)'
  BY <1>2 DEF Knows, PageInv
<1>4. SteadyInv(x)' /\ ItemsInv(x)' /\ PlanInv(x)'
  BY <1>2 DEF Knows, SteadyInv, ItemsInv, PlanInv
<1>5. OutcomeInv(x)' /\ GotInv(x)'
  BY <1>1, <1>2 DEF Knows, OutcomeInv, GotInv, Silent, Place
<1> QED
  BY <1>3, <1>4, <1>5 DEF Knows

(* A block is handed over. *)
LEMMA ReadAnsweredKnows ==
    ASSUME DeliveryInv, NEW x \in Downloads, Knows(x), ReadAnswered(x)
    PROVE  Knows(x)'
<1>1. TypeOK /\ x \in Ops
  BY DEF DeliveryInv, Ops
<1>2. /\ Answered(x) /\ step[x] = "roll" /\ step'[x] = "prepared"
      /\ waited'[x] = waited[x] + 1
      /\ got'[x] = Append(got[x], calls[x][waited[x] + 1].val)
      /\ UNCHANGED <<store, calls, page, ready, marker, items, plan, steady, troubled>>
  BY <1>1 DEF TypeOK, ReadAnswered, Answered, Go, driveVars, listVars, history
<1>3. \A d \in Drives : PageInv(x, d)'
  BY <1>2 DEF Knows, PageInv
<1>4. SteadyInv(x)' /\ ItemsInv(x)' /\ PlanInv(x)'
  BY <1>2 DEF Knows, SteadyInv, ItemsInv, PlanInv
<1>5. OutcomeInv(x)'
  BY <1>2 DEF Knows, OutcomeInv, Silent, Place
<1>6. GotInv(x)'
  <2>1. got[x] \in Seq(Values \cup {Nothing}) /\ waited[x] \in Nat
    BY <1>1 DEF TypeOK
  <2>2. Len(got[x]) = waited[x] /\ \A n \in 1 .. waited[x] : got[x][n] = calls[x][n].val
    BY DEF Knows, GotInv
  <2>3. PICK v : v = calls[x][waited[x] + 1].val
    OBVIOUS
  <2>4. /\ Len(got'[x]) = waited[x] + 1 /\ got'[x][waited[x] + 1] = v
        /\ \A n \in 1 .. waited[x] : got'[x][n] = got[x][n]
    BY <1>2, <2>1, <2>2, <2>3, Appended
  <2>5. \A n \in 1 .. waited[x] + 1 : n \in 1 .. waited[x] \/ n = waited[x] + 1
    BY <2>1
  <2> QED
    BY <1>2, <2>2, <2>3, <2>4, <2>5 DEF GotInv
<1> QED
  BY <1>3, <1>4, <1>5, <1>6 DEF Knows

-----------------------------------------------------------------------------
(* What a drive changes under the operations: a request is done with, or    *)
(* timed out.                                                               *)
Served(d, r) ==
    /\ SettledAt(r.op, r.n)
    /\ PageKept(d, r)
    /\ \A y \in Ops : ~troubled'[y] => ~troubled[y]
    /\ \A x \in Listers : \A p \in steady'[x] :
          p \in steady[x] /\ store'[p[1]][p[2]] = store[p[1]][p[2]]
    /\ UNCHANGED <<step, ready, marker, items, plan, waited, got>>

(* What a drive does keeps what a listing knows, provided the page it sends, or *)
(* the outcome of the call it settles, is right.                                *)
LEMMA ServedKnows ==
    ASSUME DeliveryInv, NEW x \in Listers, Knows(x), NEW d \in Drives, NEW r, r.op \in Ops, Served(d, r),
           r.op = x /\ r.n = 0 => PageInv(x, d)',
           (* the outcome of the call that is settled *)
           r.op = x /\ r.n \in 1 .. Len(calls[x]) /\ Silent(x, r.n) /\ ~troubled'[x]
                 /\ Place(x, r.n) \in steady'[x]
              => x \in Downloads /\ calls'[x][r.n].val = store'[calls[x][r.n].drive][calls[x][r.n].key]
    PROVE  Knows(x)'
<1>1. TypeOK /\ AnswerInv(x) /\ x \in Ops
  BY DEF DeliveryInv, CallInv, Ops, Listers
<1>2. /\ steady'[x] \subseteq steady[x] /\ (troubled[x] => troubled'[x])
      /\ \A p \in steady'[x] : store'[p[1]][p[2]] = store[p[1]][p[2]]
      /\ UNCHANGED <<step, ready, marker, items, plan, waited, got>>
  BY <1>1 DEF Served
<1>3. SteadyInv(x)'
  BY <1>2 DEF Knows, SteadyInv
<1>4. ItemsInv(x)' /\ PlanInv(x)'
  BY <1>2 DEF Knows, ItemsInv, PlanInv
<1>5. \A e \in Drives : PageInv(x, e)'
  <2> SUFFICES ASSUME NEW e \in Drives, page'[x][e] = page[x][e]
               PROVE  PageInv(x, e)'
    BY <1>1 DEF Served, PageKept
  <2> QED
    BY <1>2 DEF Knows, PageInv
<1>6. OutcomeInv(x)'
  <2> SUFFICES ASSUME ~troubled'[x], NEW n \in 1 .. Len(calls'[x]), ~Silent(x, n)',
                      Place(x, n)' \in steady'[x]
               PROVE  /\ x \in Downloads
                      /\ calls'[x][n].val = store'[calls'[x][n].drive][calls'[x][n].key]
    BY DEF OutcomeInv
  <2>1. /\ n \in 1 .. Len(calls[x])
        /\ calls'[x][n].drive = calls[x][n].drive /\ calls'[x][n].key = calls[x][n].key
        /\ ~Silent(x, n) \/ x # r.op \/ n # r.n => calls'[x][n] = calls[x][n]
    BY <1>1 DEF Served, SettledAt
  <2>2. Place(x, n)' = Place(x, n)
    BY <2>1 DEF Place
  <2>3. CASE Silent(x, n)
    <3>1. x = r.op /\ n = r.n
      <4>1. calls'[x][n] # calls[x][n]
        BY <2>3 DEF Silent
      <4> QED
        BY <2>1, <4>1
    <3> QED
      BY <2>1, <2>2, <2>3, <3>1
  <2>4. CASE ~Silent(x, n)
    <3>1. Place(x, n) \in steady[x] /\ ~troubled[x]
      BY <1>2, <2>2
    <3>2. x \in Downloads /\ calls[x][n].val = store[calls[x][n].drive][calls[x][n].key]
      BY <2>1, <2>4, <3>1 DEF Knows, OutcomeInv
    <3>3. store'[calls[x][n].drive][calls[x][n].key] = store[calls[x][n].drive][calls[x][n].key]
      BY <1>2, <2>2 DEF Place
    <3> QED
      BY <2>1, <2>4, <3>2, <3>3
  <2> QED
    BY <2>3, <2>4
<1>7. GotInv(x)'
  <2> SUFFICES ASSUME x \in Downloads
               PROVE  /\ Len(got[x]) = waited[x]
                      /\ \A n \in 1 .. waited[x] : got[x][n] = calls'[x][n].val
    BY <1>2 DEF GotInv
  <2>1. Earlier(x) = 0 /\ waited[x] \in Nat /\ Len(calls[x]) \in Nat
    BY <1>1, OpsAssumption, Typed DEF Earlier
  <2>2. waited[x] <= Len(calls[x]) /\ \A i \in 1 .. waited[x] : ~Silent(x, i)
    BY <1>1, <2>1 DEF AnswerInv
  <2>3. \A n \in 1 .. waited[x] : calls'[x][n] = calls[x][n]
    BY <1>1, <2>1, <2>2 DEF Served, SettledAt
  <2> QED
    BY <2>3 DEF Knows, GotInv
<1> QED
  BY <1>3, <1>4, <1>5, <1>6, <1>7 DEF Knows

(* A reply holds the keys after the mark, or what the key held. *)
LEMMA ServeKnows ==
    ASSUME DeliveryInv, NEW d \in Drives, Serve(d), NEW x \in Listers, Knows(x)
    PROVE  Knows(x)'
<1>1. /\ TypeOK /\ WireInv /\ x \in Ops /\ x \notin Uploads
      /\ (x \notin Downloads => x \in Removals)
  BY OpsAssumption DEF DeliveryInv, Ops, Listers
<1>2. PICK r : r = Head(inbox[d])
  OBVIOUS
<1>3. /\ inbox[d] # <<>> /\ Execute(d, r) /\ Reply(d, r)
      /\ UNCHANGED <<step, ready, marker, items, plan, waited, got, verdict, troubled>>
  BY <1>2 DEF Serve, rollVars
<1>4. /\ r.op \in Ops /\ r.n \in Nat /\ r.val \in Values \cup {Nothing} /\ r.key \in Keys \cup {Start}
      /\ r.n = 0 => PageRequest(d, r)
      /\ r.n # 0 => CallRequest(d, r) /\ r.key \in Keys
      /\ r.kind \in {"put", "delete"} => r.n # 0
  BY <1>1, <1>2, <1>3, First
<1>5. Changed(d, r)
  BY <1>1, <1>3, <1>4, Executed
<1>6. CASE r.n = 0
  <2>1. /\ page' = [page EXCEPT ![r.op][d] = [st |-> "ok", keys |-> Listed(d, r)]]
        /\ UNCHANGED <<calls, store, steady>>
    BY <1>3, <1>4, <1>6 DEF Reply, Execute
  <2>2. PageKept(d, r) /\ page'[r.op][d] = [st |-> "ok", keys |-> Listed(d, r)]
    BY <1>1, <1>4, <1>6, <2>1 DEF TypeOK, PageKept
  <2>3. Served(d, r)
    <3>1. SettledAt(r.op, r.n)
      BY <1>1, <1>4, <1>6, <2>1, NotSettled
    <3> QED
      BY <1>3, <1>5, <2>2, <3>1 DEF Served, Changed
  <2>4. ASSUME r.op = x PROVE PageInv(x, d)'
    <3>1. /\ step[x] = "list" /\ d \in ready[x] /\ r.kind = "list" /\ r.key = marker[x][d]
      BY <1>1, <1>4, <1>6, <2>4 DEF PageRequest
    <3>2. PICK K, key : K = KeysAfter(d, key) /\ key = marker[x][d]
      OBVIOUS
    <3>3. page'[x][d].st = "ok" /\ page'[x][d].keys = K
      BY <2>2, <2>4, <3>1, <3>2 DEF Listed
    <3>4. /\ Increasing(K)
          /\ \A i \in 1 .. Len(K) : K[i] > key
          /\ \A k \in Keys : k > key /\ store[d][k] # Nothing =>
                \/ \E i \in 1 .. Len(K) : K[i] = k
                \/ K # <<>> /\ k > K[Len(K)]
      BY <1>1, <1>4, <3>1, <3>2, After
    <3>5. \A k \in Keys : <<d, k>> \in steady[x] => store[d][k] # Nothing
      BY DEF Knows, SteadyInv
    <3> QED
      BY <1>3, <2>1, <3>1, <3>2, <3>3, <3>4, <3>5 DEF PageInv
  <2>5. r.n \notin 1 .. Len(calls[x])
    BY <1>1, <1>6, Typed
  <2> QED
    BY <1>4, <2>3, <2>4, <2>5, ServedKnows
<1>7. CASE r.n # 0
  <2>1. PICK out \in {"ok", "missing"}, val \in Values \cup {Nothing} :
           /\ Settle(r, out, val)
           /\ r.kind = "get" => val = store[d][r.key]
    <3>1. store[d][r.key] \in Values \cup {Nothing}
      BY <1>1, <1>4, <1>7 DEF TypeOK
    <3> QED
      BY <1>3, <1>7, <3>1 DEF Reply
  <2>2. UNCHANGED page
    BY <1>3, <1>7 DEF Reply
  <2>3. r.n \in 1 .. Len(calls[r.op])
    BY <1>4, <1>7 DEF CallRequest
  <2>4. Served(d, r)
    <3>1. SettledAt(r.op, r.n)
      BY <1>1, <1>4, <2>1, <2>3, Settled DEF Outcomes
    <3>2. PageKept(d, r)
      BY <2>2 DEF PageKept
    <3> QED
      BY <1>3, <1>5, <3>1, <3>2 DEF Served, Changed
  <2>5. ASSUME r.op = x, Silent(x, r.n), Place(x, r.n) \in steady'[x]
        PROVE  x \in Downloads /\ calls'[x][r.n].val = store'[calls[x][r.n].drive][calls[x][r.n].key]
    <3>1. calls[x][r.n].drive = d /\ calls[x][r.n].key = r.key /\ r.kind = KindOf(x, r.n)
      BY <1>4, <1>7, <2>5 DEF CallRequest
    <3>2. Place(x, r.n) = <<d, r.key>>
      BY <3>1 DEF Place
    <3>3. CASE x \in Downloads
      <4>1. r.kind = "get"
        BY <3>1, <3>3 DEF KindOf
      <4>2. store' = store
        BY <1>3, <4>1 DEF Execute
      <4>3. calls' = [calls EXCEPT ![x][r.n] = [@ EXCEPT !.out = out, !.val = val]]
        BY <2>1, <2>5 DEF Settle, Silent
      <4>4. calls[x] \in Seq(Call) /\ calls \in [Ops -> Seq(Call)] /\ calls[x][r.n] \in Call
        BY <1>1, <2>3, <2>5 DEF TypeOK
      <4>5. PICK n, c : n = r.n /\ c = [calls[x][n] EXCEPT !.out = out, !.val = val]
        OBVIOUS
      <4>7. calls' = [calls EXCEPT ![x] = [calls[x] EXCEPT ![n] = c]] /\ n \in 1 .. Len(calls[x])
        BY <2>3, <2>5, <4>3, <4>5
      <4>8. calls'[x][n] = c
        BY <1>1, <4>4, <4>7
      <4>6. calls'[x][r.n].val = val
        BY <4>4, <4>5, <4>8 DEF Call
      <4> QED
        BY <2>1, <3>1, <3>3, <4>1, <4>2, <4>6
    <3>4. CASE x \notin Downloads
      <4>1. r.kind = "delete"
        BY <1>1, <3>1, <3>4 DEF KindOf
      <4>2. steady' = [y \in Listers |-> steady[y] \ {<<d, r.key>>}]
        BY <1>3, <4>1 DEF Execute
      <4> QED
        BY <2>5, <3>2, <4>2
    <3> QED
      BY <3>3, <3>4
  <2> QED
    BY <1>4, <1>7, <2>4, <2>5, ServedKnows
<1> QED
  BY <1>6, <1>7

(* After a failure, only what was known before is. *)
LEMMA FailKnows ==
    ASSUME DeliveryInv, NEW d \in Drives, NEW r, r.op \in Ops, Fail(d, r),
           (r.n = 0 /\ PageRequest(d, r)) \/ (r.n # 0 /\ r.n \in 1 .. Len(calls[r.op])),
           \A x \in Listers : \A p \in steady'[x] :
              p \in steady[x] /\ store'[p[1]][p[2]] = store[p[1]][p[2]],
           UNCHANGED <<step, ready, marker, items, plan, waited, got>>,
           NEW x \in Listers, Knows(x)
    PROVE  Knows(x)'
<1>1. TypeOK /\ x \in Ops
  BY DEF DeliveryInv, Ops, Listers
<1>2. /\ troubled'[r.op] /\ PageKept(d, r) /\ SettledAt(r.op, r.n)
      /\ \A y \in Ops : ~troubled'[y] => ~troubled[y]
      /\ r.n = 0 => page'[r.op][d] = [page[r.op][d] EXCEPT !.st = "error"]
  BY <1>1, Failed
<1>3. Served(d, r)
  BY <1>2 DEF Served
<1>4. ASSUME r.op = x, r.n = 0 PROVE PageInv(x, d)'
  <2>1. page[x][d] \in Page /\ page[x][d].st = "asked" /\ d \in ready[x] /\ step[x] = "list"
    BY <1>1, <1>4 DEF TypeOK, PageRequest
  <2>2. page[x][d].keys = <<>>
    BY <2>1 DEF Knows, PageInv
  <2>3. page'[x][d].st = "error" /\ page'[x][d].keys = <<>>
    BY <1>2, <1>4, <2>1, <2>2 DEF Page
  <2> QED
    BY <1>2, <1>4, <2>1, <2>3 DEF PageInv, Increasing
<1> QED
  BY <1>2, <1>3, <1>4, ServedKnows

(* A lost connection. *)
LEMMA LoseKnows ==
    ASSUME DeliveryInv, NEW d \in Drives, Lose(d), NEW x \in Listers, Knows(x)
    PROVE  Knows(x)'
<1>1. TypeOK /\ WireInv
  BY DEF DeliveryInv
<1>2. PICK r : r = Head(inbox[d])
  OBVIOUS
<1>3. /\ inbox[d] # <<>> /\ Fail(d, r) /\ (Execute(d, r) \/ UNCHANGED <<store, steady>>)
      /\ UNCHANGED <<step, ready, marker, items, plan, waited, got>>
  BY <1>2 DEF Lose, rollVars
<1>4. /\ r.op \in Ops /\ r.n \in Nat /\ r.val \in Values \cup {Nothing}
      /\ r.n = 0 => PageRequest(d, r)
      /\ r.n # 0 => CallRequest(d, r) /\ r.key \in Keys
      /\ r.kind \in {"put", "delete"} => r.n # 0
  BY <1>1, <1>2, <1>3, First
<1>5. Changed(d, r)
  <2>1. troubled'[r.op]
    BY <1>1, <1>3, <1>4 DEF Fail, TypeOK
  <2> QED
    BY <1>1, <1>3, <1>4, <2>1, Executed
<1>6. (r.n = 0 /\ PageRequest(d, r)) \/ (r.n # 0 /\ r.n \in 1 .. Len(calls[r.op]))
  BY <1>4 DEF CallRequest
<1>7. \A y \in Listers : \A p \in steady'[y] :
         p \in steady[y] /\ store'[p[1]][p[2]] = store[p[1]][p[2]]
  BY <1>5 DEF Changed
<1> QED
  BY <1>3, <1>4, <1>6, <1>7, FailKnows

(* A call that times out. *)
LEMMA TimeOutKnows ==
    ASSUME DeliveryInv, NEW d \in Drives, TimeOut(d), NEW x \in Listers, Knows(x)
    PROVE  Knows(x)'
<1>1. TypeOK /\ WireInv
  BY DEF DeliveryInv
<1>2. PICK i \in DOMAIN inbox[d] :
         /\ inbox[d][i].kind \in {"put", "delete"}
         /\ Fail(d, inbox[d][i])
  BY DEF TimeOut
<1>3. PICK r : r = inbox[d][i]
  OBVIOUS
<1>4. r.op \in Ops /\ r.n # 0 /\ r.n \in 1 .. Len(calls[r.op])
  BY <1>1, <1>2, <1>3, Late
<1>5. UNCHANGED <<store, step, ready, marker, items, plan, waited, got, steady>>
  BY DEF TimeOut, driveVars, rollVars
<1> QED
  BY <1>2, <1>3, <1>4, <1>5, FailKnows

-----------------------------------------------------------------------------
(* Every step keeps what the downloads and the removals know. *)
LEMMA ListingStepKeeps ==
    ASSUME DeliveryInv, ListingInv, Next
    PROVE  ListingInv'
<1> SUFFICES ASSUME NEW y \in Listers PROVE Knows(y)'
  BY DEF ListingInv
<1>1. TypeOK /\ Knows(y)
  BY DEF DeliveryInv, ListingInv
<1>2. ASSUME NEW u \in Uploads, UploadStep(u) PROVE Knows(y)'
  BY <1>1, <1>2, UploadLeaves, LeftKnows
<1>3. ASSUME NEW x \in Listers, DownloadStep(x) \/ RemovalStep(x), x # y PROVE Knows(y)'
  BY <1>1, <1>3, ListerLeaves, LeftKnows
<1>4. ASSUME ListingStep(y) PROVE Knows(y)'
  BY <1>1, <1>4, BeginListingKnows, AskPageKnows, TurnPageKnows, ListingDoneKnows DEF ListingStep
<1>5. ASSUME BeginRead(y) \/ RollDone(y) \/ CommitRemoval(y) \/ AbortRemoval(y) PROVE Knows(y)'
  <2>1. /\ step[y] \in {"prepared", "roll"} /\ step'[y] \notin {"init", "list"}
    <3>1. y \in Ops
      BY DEF Ops, Listers
    <3> QED
      BY <1>1, <1>5, <3>1 DEF TypeOK, BeginRead, RollDone, CommitRemoval, AbortRemoval, Go
  <2>2. UNCHANGED <<driveVars, calls, listVars, rollVars, history>>
    BY <1>5 DEF BeginRead, RollDone, CommitRemoval, AbortRemoval
  <2> QED
    BY <1>1, <2>1, <2>2, CallerKnows
<1>6. ASSUME y \in Downloads, DownloadStep(y) PROVE Knows(y)'
  BY <1>1, <1>4, <1>5, <1>6, StartNextKnows, ReadAnsweredKnows DEF DownloadStep
<1>7. ASSUME y \in Removals, RemovalStep(y) PROVE Knows(y)'
  BY <1>1, <1>4, <1>5, <1>7, StartNextKnows, DeleteAnsweredKnows DEF RemovalStep
<1>8. ASSUME NEW d \in Drives, DriveStep(d) PROVE Knows(y)'
  BY <1>1, <1>8, ServeKnows, LoseKnows, TimeOutKnows DEF DriveStep
<1> QED
  BY <1>2, <1>3, <1>6, <1>7, <1>8 DEF Next, Listers

(* No listing has begun when the program begins. *)
LEMMA ListingInit == Init => ListingInv
<1> SUFFICES ASSUME Init, NEW x \in Listers PROVE Knows(x)
  BY DEF ListingInv
<1>1. /\ step[x] = "init" /\ page[x] = NoPage /\ steady[x] = {} /\ Len(calls[x]) = 0
      /\ Len(plan[x]) = 0 /\ waited[x] = 0 /\ (x \in Downloads => Len(got[x]) = 0)
  BY DEF Init, Ops, Listers
<1>2. \A d \in Drives : PageInv(x, d)
  BY <1>1 DEF PageInv, NoPage, Increasing
<1>3. SteadyInv(x) /\ ItemsInv(x)
  BY <1>1 DEF SteadyInv, ItemsInv
<1>4. PlanInv(x)
  BY <1>1 DEF PlanInv, Distinct
<1>5. OutcomeInv(x) /\ GotInv(x)
  BY <1>1 DEF OutcomeInv, GotInv
<1> QED
  BY <1>2, <1>3, <1>4, <1>5 DEF Knows

(* The whole invariant holds of every behaviour. *)
THEOREM Invariance == Spec => []IInv
<1>1. Init => IInv
  BY DeliveryInit, ListingInit DEF IInv
<1>2. IInv /\ Next => IInv'
  BY DeliveryStep, ListingStepKeeps DEF IInv
<1>3. IInv /\ UNCHANGED vars => IInv'
  <2> SUFFICES ASSUME IInv, UNCHANGED vars
               PROVE  IInv'
    OBVIOUS
  <2>1. ASSUME NEW y \in Listers PROVE Knows(y)'
    <3>1. Left(y) /\ store' = store
      BY DEF Left, vars, driveVars, listVars, rollVars, history
    <3> QED
      BY <3>1, LeftKnows DEF IInv, ListingInv
  <2> QED
    BY <2>1, DeliveryStutter DEF IInv, ListingInv
<1> QED
  BY <1>1, <1>2, <1>3, PTL DEF Spec

(* A removal whose RPC all succeed deletes what was there when it began and was *)
(* not written since, whatever the drives, the size of a page and the window    *)
(* (lines 244-295, 372-386).                                                    *)
THEOREM NothingMissed == Spec => []RemovalIsComplete
<1>1. IInv => RemovalIsComplete
  <2> SUFFICES ASSUME IInv, NEW x \in Removals, step[x] = "done", verdict[x] = "ok", ~troubled[x],
                      NEW p \in steady[x]
               PROVE  FALSE
    BY DEF RemovalIsComplete
  <2>1. /\ TypeOK /\ ListerInv(x) /\ AnswerInv(x) /\ Knows(x)
        /\ x \in Ops /\ x \notin Uploads /\ x \notin Downloads
    BY OpsAssumption DEF IInv, DeliveryInv, CallInv, ListingInv, Ops, Listers
  <2>2. Earlier(x) = 0 /\ waited[x] = Len(plan[x]) /\ waited[x] \in Nat /\ Len(calls[x]) \in Nat
    BY <2>1, Typed DEF Earlier, ListerInv
  <2>3. PICK n \in 1 .. Len(plan[x]) : plan[x][n] = p
    BY <2>1 DEF Knows, PlanInv, Has
  <2>4. n \in 1 .. Len(calls[x]) /\ ~Silent(x, n)
    BY <2>1, <2>2 DEF AnswerInv
  <2>5. Place(x, n) = p
    BY <2>1, <2>3, <2>4 DEF ListerInv
  <2> QED
    BY <2>1, <2>4, <2>5 DEF Knows, OutcomeInv
<1> QED
  BY <1>1, Invariance, PTL

(* A download without failure delivers what stayed, each block once and by *)
(* sequence number, whatever the drives, the size of a page and the window *)
(* (lines 87-169).                                                         *)
THEOREM BlocksDelivered == Spec => []DeliversWhatStays
<1>1. IInv => DeliversWhatStays
  <2> SUFFICES ASSUME IInv, NEW x \in Downloads, step[x] = "done", ~troubled[x]
               PROVE  /\ \A p \in steady[x] : p[2] # Manifest =>
                            \E n \in DOMAIN plan[x] :
                               /\ {m \in DOMAIN plan[x] : plan[x][m] = p} = {n}
                               /\ got[x][n] = store[p[1]][p[2]]
                      /\ \A m, n \in DOMAIN plan[x] :
                            m < n => NumberOf(plan[x][m][2]) <= NumberOf(plan[x][n][2])
    BY DEF DeliversWhatStays
  <2>1. /\ TypeOK /\ ListerInv(x) /\ AnswerInv(x) /\ Knows(x)
        /\ x \in Ops /\ x \notin Uploads /\ DOMAIN plan[x] = 1 .. Len(plan[x])
    BY OpsAssumption, Typed DEF IInv, DeliveryInv, CallInv, ListingInv, Ops, Listers
  <2>2. Earlier(x) = 0 /\ waited[x] = Len(plan[x]) /\ waited[x] \in Nat /\ Len(calls[x]) \in Nat
    BY <2>1, Typed DEF Earlier, ListerInv
  <2>3. \A m, n \in 1 .. Len(plan[x]) : m < n => NumberOf(plan[x][m][2]) <= NumberOf(plan[x][n][2])
    BY <2>1 DEF Knows, PlanInv
  <2>4. ASSUME NEW p \in steady[x], p[2] # Manifest
        PROVE  \E n \in 1 .. Len(plan[x]) :
                  /\ {m \in 1 .. Len(plan[x]) : plan[x][m] = p} = {n}
                  /\ got[x][n] = store[p[1]][p[2]]
    <3>1. PICK n \in 1 .. Len(plan[x]) : plan[x][n] = p
      BY <2>1, <2>4 DEF Knows, PlanInv, Has
    <3>2. {m \in 1 .. Len(plan[x]) : plan[x][m] = p} = {n}
      BY <2>1, <3>1 DEF Knows, PlanInv, Distinct
    <3>3. n \in 1 .. waited[x] /\ n \in 1 .. Len(calls[x]) /\ ~Silent(x, n)
      BY <2>1, <2>2 DEF AnswerInv
    <3>4. Place(x, n) = p
      BY <2>1, <3>1, <3>3 DEF ListerInv
    <3>5. calls[x][n].val = store[p[1]][p[2]]
      BY <2>1, <3>3, <3>4 DEF Knows, OutcomeInv, Place
    <3>6. got[x][n] = calls[x][n].val
      BY <2>1, <3>3 DEF Knows, GotInv
    <3> QED
      BY <3>2, <3>5, <3>6
  <2> QED
    BY <2>1, <2>3, <2>4
<1> QED
  BY <1>1, Invariance, PTL

=============================================================================
