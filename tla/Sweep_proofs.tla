------------------------------ MODULE Sweep_proofs ------------------------------
(***************************************************************************)
(* Proofs about the sweeper, for any number of sweeps, withdrawals, faults *)
(* and troubles.                                                           *)
(***************************************************************************)
EXTENDS Sweep, Sums

-----------------------------------------------------------------------------
(* The sweeper's rows and where it stands.                                 *)

Row == [st : {"none", "requested", "gas_funded", "broadcast", "confirmed", "failed"},
        asset : {"", "eth", "tok"}, amt : Int, fn : Int, fa : Int, fsigned : BOOLEAN,
        an : Int, signed : BOOLEAN, gas : Int]
Txs == [kind : {"fund", "sweep", "fill", "other"}, id : Sweeps \cup Others \cup {"none"},
        nonce : Int, val : Int]
Places == {"idle", "release", "clear", "funded", "pin", "sign", "record", "send", "failfunding",
           "recycle", "stepback", "fill", "fillsend", "signsweep", "sendsweep", "mark", "refused"}
Jobs == [at : Places, s : Sweeps \cup {"none"}, v : Int, then : {"", "clear", "failfunding"}]

RowsOK == row \in [Sweeps -> Row] /\ job \in Jobs
WalletOK ==
  /\ other \in [Others -> [nonce : Int, sent : BOOLEAN]]
  /\ nextNonce \in Nat /\ alloc \in Nat \cup {None} /\ fills \subseteq Int
NodeOK ==
  /\ pool \subseteq Txs /\ IsFiniteSet(pool)
  /\ mined \in [{"hot", "addr"} -> Seq([tx : Txs, ok : BOOLEAN])]
MoneyOK ==
  /\ held \in [{"eth", "tok"} -> Int] /\ unseen \in [{"eth", "tok"} -> Int]
  /\ coming \in [Assets -> Int] /\ credited \in [Assets -> Int]
  /\ book \in [eth : Int, tok : Int, gas : Int] /\ fee \in Fees
TypeOK == RowsOK /\ WalletOK /\ NodeOK /\ MoneyOK

\* What a row's state says of the rest of it; the address has one open sweep.
RowInv ==
  /\ \A s, t \in Open : s = t
  /\ \A s \in Sweeps :
       /\ row[s].st = "none" => ~row[s].signed /\ ~row[s].fsigned /\ row[s].fn = None
       /\ row[s].st # "none" => row[s].asset \in Assets
       /\ row[s].fn = None => row[s].fa = 0
       /\ row[s].fn = None \/ row[s].fn \in Nat
       /\ row[s].asset = "eth" => row[s].fn = None /\ ~row[s].fsigned /\ row[s].st # "gas_funded"
       /\ row[s].asset = "tok" /\ row[s].st = "requested" => ~row[s].signed
       /\ row[s].st = "broadcast" => row[s].signed

\* The jobs of the first leg, with what the nonce manager does for it, and of the second.
Clean == {"release", "clear", "funded", "pin", "sign", "record"}
Funds == job.at \in Clean \cup {"send", "failfunding"} \/ job.then # ""
Sends == job.at \in {"signsweep", "sendsweep", "mark", "refused"}

JobInv ==
  /\ Funds => /\ job.s \in Sweeps /\ row[job.s].st = "requested" /\ row[job.s].asset = "tok"
              /\ job.at \in Clean \/ job.then = "clear" => ~row[job.s].fsigned
              /\ job.at \in {"send", "failfunding"} \/ job.then = "failfunding" => row[job.s].fsigned
              /\ job.at = "funded" => row[job.s].fn = None
              /\ job.at \in {"sign", "record", "send", "recycle", "stepback"} => row[job.s].fn # None
              /\ job.at = "record" => job.v = row[job.s].fa
  /\ job.at \in {"recycle", "stepback"} => job.then # ""
  /\ job.at = "failfunding" => job.then = "failfunding"
  /\ job.then # "" => job.at \in {"clear", "funded", "failfunding", "recycle", "stepback", "fill", "fillsend"}
  /\ job.then # "" /\ job.at \in {"stepback", "fill", "fillsend"} => job.v = row[job.s].fn
  /\ Sends => /\ job.s \in Sweeps
              /\ row[job.s].st = "gas_funded" \/ (row[job.s].st = "requested" /\ row[job.s].asset = "eth")
              /\ job.at = "signsweep" => ~row[job.s].signed
              /\ job.at # "signsweep" => row[job.s].signed

-----------------------------------------------------------------------------
(* Credits: what is taken, or will be with its gas.                        *)

Taken(a) ==
  [s \in Sweeps |->
     IF row[s].asset # a THEN 0
     ELSE CASE row[s].st = "confirmed" -> row[s].amt + (IF a = "eth" THEN row[s].gas ELSE 0)
            [] s \in Open              -> row[s].amt + (IF a = "eth" THEN Cost ELSE 0)
            [] OTHER                   -> 0]
CreditInv ==
  /\ \A a \in Assets : SumOf(Taken(a), Sweeps) =< credited[a]
  /\ \A s \in Open : row[s].amt >= 0

-----------------------------------------------------------------------------
(* Transactions: those that exist are the ones the rows stand for.         *)

Genuine(tx) ==
  /\ tx.kind = "fund" => tx.id \in Sweeps /\ row[tx.id].fsigned /\ tx = FundTx(tx.id)
  /\ tx.kind = "sweep" => tx.id \in Sweeps /\ row[tx.id].signed /\ tx = SweepTx(tx.id)

ChainInv ==
  /\ \A a \in {"hot", "addr"} : \A i \in DOMAIN mined[a] :
       LET tx == mined[a][i].tx IN tx.nonce = i - 1 /\ Sender(tx) = a /\ Genuine(tx)
  /\ \A tx \in pool : Genuine(tx) /\ ~Mined(tx)

-----------------------------------------------------------------------------
(* Nonces: each one handed out has a taker.                                *)

\* Either the nonce is nobody's to take, or it has been filled or handed out again.
Freed(n) == n \in Len(mined["hot"])..(nextNonce - 1) => n \in Holders
Claimed(n) == n \in Holders \/ \E s \in Open : row[s].fn = n

NonceInv ==
  /\ alloc # None => alloc = nextNonce /\ \E o \in Others : other[o].nonce = None
  /\ \A s \in Sweeps : row[s].st \in {"gas_funded", "broadcast"} => row[s].fn < Len(mined["hot"])
  /\ \A s \in Open : row[s].fn =< nextNonce
  /\ job.at \in {"clear", "failfunding"} => Freed(row[job.s].fn)
  /\ job.at = "fillsend" => job.v \in fills
  /\ \A n \in Len(mined["hot"])..(nextNonce - 1) : Claimed(n)

-----------------------------------------------------------------------------
(* Types.                                                                  *)

\* eth_getTransactionCount is a nonce: the transactions of an address in the
\* pool cannot fill an interval one longer than they are many.
LEMMA PendingIsNonce ==
  ASSUME NodeOK, NEW a \in {"hot", "addr"}
  PROVE  PendingNonce(a) \in Int
<1> DEFINE base == Len(mined[a])
           own == {t \in pool : Sender(t) = a}
           mine == {tx.nonce : tx \in own}
           k == Cardinality(mine)
           S == {n \in base..(base + k) : n \notin mine}
<1>1. base \in Int /\ base >= 0
  <2>1. mined[a] \in Seq([tx : Txs, ok : BOOLEAN]) BY DEF NodeOK
  <2> QED BY <2>1
<1>2. IsFiniteSet(mine)
  <2>1. IsFiniteSet(own) BY FS_Subset DEF NodeOK
  <2> DEFINE f == [t \in own |-> t.nonce]
  <2>3. f \in Surjection(own, mine) BY DEF Surjection
  <2> HIDE DEF own, f, mine
  <2> QED BY <2>1, <2>3, FS_Surjection
<1>3. k \in Nat
  <2> HIDE DEF mine
  <2> QED BY <1>2, FS_CardinalityType
<1> HIDE DEF base, k
<1>4. IsFiniteSet(base..(base + k)) /\ Cardinality(base..(base + k)) = k + 1
  BY <1>1, <1>3, FS_Interval
<1>5. ~ (base..(base + k) \subseteq mine)
  <2> HIDE DEF mine
  <2>1. base..(base + k) \subseteq mine => k + 1 =< Cardinality(mine) BY <1>2, <1>4, FS_Subset
  <2> QED BY <2>1, <1>3 DEF k
<1>6. S # {} /\ S \subseteq base..(base + k) BY <1>5
<1>7. S \subseteq Int /\ IsFiniteSet(S)
  <2>1. base..(base + k) \subseteq Int BY <1>1, <1>3
  <2> HIDE DEF S
  <2> QED BY <2>1, <1>4, <1>6, FS_Subset
<1>8. Min(S) \in Int
  <2> HIDE DEF S
  <2> QED BY <1>6, <1>7, LeastIs
<1>9. PendingNonce(a) = Min(S) BY DEF PendingNonce, S, base, k
<1> QED BY <1>8, <1>9

LEMMA Idling == Idle \in Jobs /\ Idle.at = "idle" /\ Idle.then = ""
BY DEF Jobs, Idle, Places

\* A job begins, and moves on.
LEMMA Begins ==
  ASSUME NEW x \in Places, NEW s \in Sweeps \cup {"none"}, NEW v \in Int, job' = Job(x, s, v)
  PROVE  job' \in Jobs /\ job'.at = x /\ job'.s = s /\ job'.v = v /\ job'.then = ""
<1>1. /\ Job(x, s, v) \in Jobs /\ Job(x, s, v).at = x /\ Job(x, s, v).s = s
      /\ Job(x, s, v).v = v /\ Job(x, s, v).then = ""
  BY DEF Jobs, Job
<1> QED BY <1>1, Zenon

LEMMA MovesOn ==
  ASSUME job \in Jobs, NEW x \in Places, job' = [job EXCEPT !.at = x]
  PROVE  job' \in Jobs /\ job'.at = x /\ job'.s = job.s /\ job'.v = job.v /\ job'.then = job.then
<1> DEFINE q == [job EXCEPT !.at = x]
<1>1. q \in Jobs /\ q.at = x /\ q.s = job.s /\ q.v = job.v /\ q.then = job.then BY DEF Jobs
<1> HIDE DEF q
<1>2. job' = q BY DEF q
<1> QED BY <1>1, <1>2, Zenon

\* The nonce manager is asked to take the nonce back.
LEMMA Recycles ==
  ASSUME job \in Jobs, NEW x \in {"clear", "failfunding"},
         job' = [job EXCEPT !.at = "recycle", !.then = x]
  PROVE  job' \in Jobs /\ job'.at = "recycle" /\ job'.s = job.s /\ job'.v = job.v /\ job'.then = x
<1> DEFINE q == [job EXCEPT !.at = "recycle", !.then = x]
<1>1. q \in Jobs /\ q.at = "recycle" /\ q.s = job.s /\ q.v = job.v /\ q.then = x
  BY DEF Jobs, Places
<1> HIDE DEF q
<1>2. job' = q BY DEF q
<1> QED BY <1>1, <1>2, Zenon

LEMMA Resolves ==
  ASSUME job \in Jobs, NEW x \in {"stepback", "fill"}, NEW n \in Int,
         job' = [job EXCEPT !.at = x, !.v = n]
  PROVE  job' \in Jobs /\ job'.at = x /\ job'.s = job.s /\ job'.v = n /\ job'.then = job.then
<1> DEFINE q == [job EXCEPT !.at = x, !.v = n]
<1>1. q \in Jobs /\ q.at = x /\ q.s = job.s /\ q.v = n /\ q.then = job.then
  BY DEF Jobs, Places
<1> HIDE DEF q
<1>2. job' = q BY DEF q
<1> QED BY <1>1, <1>2, Zenon

LEMMA TypeInit == Init => TypeOK
<1> SUFFICES ASSUME Init PROVE TypeOK OBVIOUS
<1>1. NodeOK
  <2>1. pool = {} /\ mined = [a \in {"hot", "addr"} |-> << >>] BY Zenon DEF Init
  <2> QED BY <2>1, FS_EmptySet DEF NodeOK
<1>2. RowsOK
  <2> DEFINE r == [st |-> "none", asset |-> "", amt |-> 0, fn |-> None, fa |-> 0,
                   fsigned |-> FALSE, an |-> None, signed |-> FALSE, gas |-> 0]
  <2>1. r \in Row BY DEF Row, None
  <2>2. row = [s \in Sweeps |-> r] /\ job = Idle BY Zenon DEF Init
  <2>3. row \in [Sweeps -> Row]
    <3> HIDE DEF r
    <3> QED BY <2>1, <2>2
  <2>4. job \in Jobs BY <2>2, Idling, Zenon
  <2> QED BY <2>3, <2>4, Zenon DEF RowsOK
<1>3. WalletOK
  <2>1. other = [o \in Others |-> [nonce |-> None, sent |-> FALSE]]
        /\ nextNonce = 0 /\ alloc = None /\ fills = {}
    BY Zenon DEF Init
  <2> QED BY <2>1 DEF WalletOK, None
<1>4. MoneyOK
  <2>1. /\ held = [a \in {"eth", "tok"} |-> 0] /\ unseen = held /\ fee \in Fees
        /\ coming = [a \in Assets |-> 0] /\ credited = [a \in Assets |-> 0]
        /\ book = [eth |-> 0, tok |-> 0, gas |-> 0]
    BY Zenon DEF Init
  <2> QED BY <2>1 DEF MoneyOK
<1> QED BY <1>1, <1>2, <1>3, <1>4 DEF TypeOK

-----------------------------------------------------------------------------
(* Writing a row.                                                          *)

\* The fields of row s but the ones a statement sets.
Kept(s) == row' \in [Sweeps -> Row] /\ \A t \in Sweeps \ {s} : row'[t] = row[t]
KeptPlan(s) == row'[s].asset = row[s].asset /\ row'[s].amt = row[s].amt
KeptFunding(s) == row'[s].fn = row[s].fn /\ row'[s].fa = row[s].fa /\ row'[s].fsigned = row[s].fsigned
KeptSweep(s) == row'[s].an = row[s].an /\ row'[s].signed = row[s].signed

LEMMA WriteState ==
  ASSUME row \in [Sweeps -> Row], NEW s \in Sweeps,
         NEW x \in {"gas_funded", "broadcast", "confirmed", "failed"},
         row' = [row EXCEPT ![s].st = x]
  PROVE  /\ Kept(s) /\ KeptPlan(s) /\ KeptFunding(s) /\ KeptSweep(s)
         /\ row'[s].st = x /\ row'[s].gas = row[s].gas
<1> DEFINE r == row[s]
<1>1. r \in Row OBVIOUS
<1>2. row' = [row EXCEPT ![s] = [r EXCEPT !.st = x]] OBVIOUS
<1>3. [r EXCEPT !.st = x] \in Row
  <2> HIDE DEF r
  <2> QED BY <1>1 DEF Row
<1>4. row'[s] = [r EXCEPT !.st = x] /\ Kept(s)
  <2> HIDE DEF r
  <2> QED BY <1>2, <1>3 DEF Kept
<1> QED BY <1>1, <1>4 DEF Row, KeptPlan, KeptFunding, KeptSweep

LEMMA WriteEnd ==
  ASSUME row \in [Sweeps -> Row], NEW s \in Sweeps, NEW x \in {"confirmed", "failed"},
         NEW g \in Int, row' = [row EXCEPT ![s].st = x, ![s].gas = g]
  PROVE  /\ Kept(s) /\ KeptPlan(s) /\ KeptFunding(s) /\ KeptSweep(s)
         /\ row'[s].st = x /\ row'[s].gas = g
<1> DEFINE r == row[s]
<1>1. r \in Row OBVIOUS
<1>2. row' = [row EXCEPT ![s] = [r EXCEPT !.st = x, !.gas = g]] OBVIOUS
<1>3. [r EXCEPT !.st = x, !.gas = g] \in Row
  <2> HIDE DEF r
  <2> QED BY <1>1 DEF Row
<1>4. row'[s] = [r EXCEPT !.st = x, !.gas = g] /\ Kept(s)
  <2> HIDE DEF r
  <2> QED BY <1>2, <1>3 DEF Kept
<1> QED BY <1>1, <1>4 DEF Row, KeptPlan, KeptFunding, KeptSweep

LEMMA WriteFunding ==
  ASSUME row \in [Sweeps -> Row], NEW s \in Sweeps, NEW n \in Int, NEW v \in Int,
         row' = [row EXCEPT ![s].fn = n, ![s].fa = v]
  PROVE  /\ Kept(s) /\ KeptPlan(s) /\ KeptSweep(s)
         /\ row'[s].st = row[s].st /\ row'[s].gas = row[s].gas
         /\ row'[s].fn = n /\ row'[s].fa = v /\ row'[s].fsigned = row[s].fsigned
<1> DEFINE r == row[s]
<1>1. r \in Row OBVIOUS
<1>2. row' = [row EXCEPT ![s] = [r EXCEPT !.fn = n, !.fa = v]] OBVIOUS
<1>3. [r EXCEPT !.fn = n, !.fa = v] \in Row
  <2> HIDE DEF r
  <2> QED BY <1>1 DEF Row
<1>4. row'[s] = [r EXCEPT !.fn = n, !.fa = v] /\ Kept(s)
  <2> HIDE DEF r
  <2> QED BY <1>2, <1>3 DEF Kept
<1> QED BY <1>1, <1>4 DEF Row, KeptPlan, KeptSweep

LEMMA WriteFunded ==
  ASSUME row \in [Sweeps -> Row], NEW s \in Sweeps, NEW v \in Int,
         row' = [row EXCEPT ![s].fsigned = TRUE, ![s].fa = v]
  PROVE  /\ Kept(s) /\ KeptPlan(s) /\ KeptSweep(s)
         /\ row'[s].st = row[s].st /\ row'[s].gas = row[s].gas
         /\ row'[s].fn = row[s].fn /\ row'[s].fa = v /\ row'[s].fsigned
<1> DEFINE r == row[s]
<1>1. r \in Row OBVIOUS
<1>2. row' = [row EXCEPT ![s] = [r EXCEPT !.fsigned = TRUE, !.fa = v]] OBVIOUS
<1>3. [r EXCEPT !.fsigned = TRUE, !.fa = v] \in Row
  <2> HIDE DEF r
  <2> QED BY <1>1 DEF Row
<1>4. row'[s] = [r EXCEPT !.fsigned = TRUE, !.fa = v] /\ Kept(s)
  <2> HIDE DEF r
  <2> QED BY <1>2, <1>3 DEF Kept
<1> QED BY <1>1, <1>4 DEF Row, KeptPlan, KeptSweep

LEMMA WriteNonce ==
  ASSUME row \in [Sweeps -> Row], NEW s \in Sweeps, NEW n \in Int,
         row' = [row EXCEPT ![s].an = n]
  PROVE  /\ Kept(s) /\ KeptPlan(s) /\ KeptFunding(s)
         /\ row'[s].st = row[s].st /\ row'[s].gas = row[s].gas
         /\ row'[s].an = n /\ row'[s].signed = row[s].signed
<1> DEFINE r == row[s]
<1>1. r \in Row OBVIOUS
<1>2. row' = [row EXCEPT ![s] = [r EXCEPT !.an = n]] OBVIOUS
<1>3. [r EXCEPT !.an = n] \in Row
  <2> HIDE DEF r
  <2> QED BY <1>1 DEF Row
<1>4. row'[s] = [r EXCEPT !.an = n] /\ Kept(s)
  <2> HIDE DEF r
  <2> QED BY <1>2, <1>3 DEF Kept
<1> QED BY <1>1, <1>4 DEF Row, KeptPlan, KeptFunding

LEMMA WriteSigned ==
  ASSUME row \in [Sweeps -> Row], NEW s \in Sweeps, row' = [row EXCEPT ![s].signed = TRUE]
  PROVE  /\ Kept(s) /\ KeptPlan(s) /\ KeptFunding(s)
         /\ row'[s].st = row[s].st /\ row'[s].gas = row[s].gas
         /\ row'[s].an = row[s].an /\ row'[s].signed
<1> DEFINE r == row[s]
<1>1. r \in Row OBVIOUS
<1>2. row' = [row EXCEPT ![s] = [r EXCEPT !.signed = TRUE]] OBVIOUS
<1>3. [r EXCEPT !.signed = TRUE] \in Row
  <2> HIDE DEF r
  <2> QED BY <1>1 DEF Row
<1>4. row'[s] = [r EXCEPT !.signed = TRUE] /\ Kept(s)
  <2> HIDE DEF r
  <2> QED BY <1>2, <1>3 DEF Kept
<1> QED BY <1>1, <1>4 DEF Row, KeptPlan, KeptFunding

LEMMA WritePlan ==
  ASSUME row \in [Sweeps -> Row], NEW s \in Sweeps, NEW a \in {"eth", "tok"}, NEW v \in Int,
         row' = [row EXCEPT ![s] = [@ EXCEPT !.st = "requested", !.asset = a, !.amt = v]]
  PROVE  /\ Kept(s) /\ KeptFunding(s) /\ KeptSweep(s)
         /\ row'[s].st = "requested" /\ row'[s].gas = row[s].gas
         /\ row'[s].asset = a /\ row'[s].amt = v
<1> DEFINE r == row[s]
           q == [r EXCEPT !.st = "requested", !.asset = a, !.amt = v]
<1>1. r \in Row OBVIOUS
<1>2. row' = [row EXCEPT ![s] = q] OBVIOUS
<1>3. q \in Row
  <2> HIDE DEF r
  <2> QED BY <1>1 DEF Row
<1>4. row'[s] = q /\ Kept(s)
  <2> HIDE DEF q, r
  <2> QED BY <1>2, <1>3 DEF Kept
<1> QED BY <1>1, <1>4 DEF Row, KeptFunding, KeptSweep

-----------------------------------------------------------------------------
(* Sums over the rows.                                                     *)

\* A sum the model takes over some sweeps is the sum of a function.
LEMMA AmountsSum ==
  ASSUME NEW S, S \subseteq Sweeps, NEW a
  PROVE  Amounts(S, a) = SumOf([s \in Sweeps |-> row[s].amt], {s \in S : row[s].asset = a})
<1> DEFINE T == {s \in S : row[s].asset = a}
           g == [s \in Sweeps |-> row[s].amt]
           P(it) == it = [s \in SUBSET T |-> IF s = {} THEN 0 ELSE row[Pick(s)].amt + it[s \ {Pick(s)}]]
<1>1. IsFiniteSet(T) BY SweepAssumption, FS_Subset
<1>2. \A s \in SUBSET T : s # {} => g[Pick(s)] = row[Pick(s)].amt BY PickIn
<1>3. ASSUME NEW it PROVE P(it) <=> Sums(g, T, it)
  <2>1. [s \in SUBSET T |-> IF s = {} THEN 0 ELSE row[Pick(s)].amt + it[s \ {Pick(s)}]]
        = [s \in SUBSET T |-> IF s = {} THEN 0 ELSE g[Pick(s)] + it[s \ {Pick(s)}]]
    <3> HIDE DEF T, g
    <3> QED BY <1>2
  <2> HIDE DEF T, g
  <2> QED BY <2>1, Zenon DEF Sums
<1>4. Amounts(S, a) = (CHOOSE it : P(it))[T]
  BY Zenon DEF Amounts, MapThenSumSet, MapThenFoldSet, Pick
<1>5. SumOf(g, T) = (CHOOSE it : Sums(g, T, it))[T] BY SumDef
<1> HIDE DEF T, g, P
<1>6. \E it : Sums(g, T, it) BY <1>1, SumsExist
<1>7. P(CHOOSE it : P(it)) BY <1>3, <1>6, Zenon
<1>8. Sums(g, T, CHOOSE it : P(it)) BY <1>3, <1>7, Zenon
<1>9. Sums(g, T, CHOOSE it : Sums(g, T, it)) BY <1>6, Zenon
<1>10. (CHOOSE it : P(it)) = (CHOOSE it : Sums(g, T, it)) BY <1>1, <1>8, <1>9, SumsUnique
<1> QED BY <1>4, <1>5, <1>10 DEF T, g

Confirmed(a) == {s \in Sweeps : row[s].st = "confirmed" /\ row[s].asset = a}
SweptBy(a) == [s \in Sweeps |-> row[s].amt + (IF a = "eth" THEN row[s].gas ELSE 0)]

LEMMA SweptSum ==
  ASSUME NEW a
  PROVE  SweptFromAddress(a) = SumOf(SweptBy(a), Confirmed(a))
<1> DEFINE T == Confirmed(a)
           g == SweptBy(a)
           P(it) == it = [s \in SUBSET T |-> IF s = {} THEN 0
                            ELSE (row[Pick(s)].amt + (IF a = "eth" THEN row[Pick(s)].gas ELSE 0))
                                 + it[s \ {Pick(s)}]]
<1>1. IsFiniteSet(T) BY SweepAssumption, FS_Subset DEF Confirmed
<1>2. \A s \in SUBSET T : s # {} =>
        g[Pick(s)] = row[Pick(s)].amt + (IF a = "eth" THEN row[Pick(s)].gas ELSE 0)
  BY PickIn DEF Confirmed, SweptBy
<1>3. ASSUME NEW it PROVE P(it) <=> Sums(g, T, it)
  <2>1. [s \in SUBSET T |-> IF s = {} THEN 0
           ELSE (row[Pick(s)].amt + (IF a = "eth" THEN row[Pick(s)].gas ELSE 0)) + it[s \ {Pick(s)}]]
        = [s \in SUBSET T |-> IF s = {} THEN 0 ELSE g[Pick(s)] + it[s \ {Pick(s)}]]
    <3> HIDE DEF T, g
    <3> QED BY <1>2
  <2> HIDE DEF T, g
  <2> QED BY <2>1, Zenon DEF Sums
<1>4. SweptFromAddress(a) = (CHOOSE it : P(it))[T]
  BY Zenon DEF SweptFromAddress, MapThenSumSet, MapThenFoldSet, Pick, Confirmed
<1>5. SumOf(g, T) = (CHOOSE it : Sums(g, T, it))[T] BY SumDef
<1> HIDE DEF T, g, P
<1>6. \E it : Sums(g, T, it) BY <1>1, SumsExist
<1>7. P(CHOOSE it : P(it)) BY <1>3, <1>6, Zenon
<1>8. Sums(g, T, CHOOSE it : P(it)) BY <1>3, <1>7, Zenon
<1>9. Sums(g, T, CHOOSE it : Sums(g, T, it)) BY <1>6, Zenon
<1>10. (CHOOSE it : P(it)) = (CHOOSE it : Sums(g, T, it)) BY <1>1, <1>8, <1>9, SumsUnique
<1> QED BY <1>4, <1>5, <1>10 DEF T, g

LEMMA SweptInt == ASSUME RowsOK, NEW a PROVE SweptFromAddress(a) \in Int
<1>1. IsFiniteSet(Confirmed(a)) BY SweepAssumption, FS_Subset DEF Confirmed
<1>2. \A s \in Sweeps : row[s].amt \in Int /\ row[s].gas \in Int BY DEF RowsOK, Row
<1>3. \A s \in Confirmed(a) : SweptBy(a)[s] \in Int BY <1>2 DEF SweptBy, Confirmed
<1>4. SumOf(SweptBy(a), Confirmed(a)) \in Int BY <1>1, <1>3, SumInt
<1> QED BY <1>4, SweptSum

\* What is planned is within what the ledger credited, less what left, less the fee.
LEMMA SweepableBound ==
  ASSUME RowsOK, MoneyOK, NEW a \in Assets
  PROVE  /\ Sweepable(a) \in Int
         /\ Sweepable(a) =< credited[a] - SweptFromAddress(a) - (IF a = "eth" THEN fee ELSE 0)
         /\ fee \in Nat /\ fee >= Cost /\ a \in {"eth", "tok"}
<1> DEFINE S == {held[a], credited[a] - SweptFromAddress(a)}
<1>1. a \in {"eth", "tok"} /\ fee \in Nat /\ fee >= Cost BY SweepAssumption DEF MoneyOK
<1>2. held[a] \in Int /\ credited[a] \in Int /\ SweptFromAddress(a) \in Int
  BY <1>1, SweptInt DEF MoneyOK
<1>3. S \subseteq Int /\ IsFiniteSet(S) /\ S # {}
  <2>1. IsFiniteSet({held[a]} \cup {credited[a] - SweptFromAddress(a)}) BY FS_Singleton, FS_Union
  <2>2. S = {held[a]} \cup {credited[a] - SweptFromAddress(a)} OBVIOUS
  <2>3. IsFiniteSet(S) BY <2>1, <2>2
  <2> QED BY <1>2, <2>3
<1>4. Min(S) \in S /\ \A y \in S : Min(S) =< y
  <2> HIDE DEF S
  <2> QED BY <1>3, LeastIs
<1>5. Min(S) \in Int /\ Min(S) =< credited[a] - SweptFromAddress(a) BY <1>2, <1>4
<1>6. Sweepable(a) = Min(S) - (IF a = "eth" THEN fee ELSE 0) BY DEF Sweepable
<1> HIDE DEF S
<1> QED BY <1>1, <1>2, <1>5, <1>6

-----------------------------------------------------------------------------
(* Rows and jobs.                                                          *)

Rows == RowsOK /\ RowInv /\ JobInv

\* Actions of others: the sweeper's row and job stay.
LEMMA RowsStay == ASSUME Rows, UNCHANGED <<row, job>> PROVE Rows'
<1>1. RowsOK' BY DEF Rows, RowsOK
<1>2. Open' = Open BY DEF Open
<1>3. RowInv' BY <1>2, Zenon DEF Rows, RowInv
<1>4. JobInv' BY DEF Rows, JobInv, Funds, Sends
<1> QED BY <1>1, <1>3, <1>4 DEF Rows

\* The row stays and a job ends or there is none.
LEMMA JobEnds == ASSUME Rows, row' = row, job' = Idle PROVE Rows'
<1>1. RowsOK' BY Idling, Zenon DEF Rows, RowsOK
<1>2. Open' = Open BY DEF Open
<1>3. RowInv' BY <1>2, Zenon DEF Rows, RowInv
<1>4. job'.at = "idle" /\ job'.then = "" BY Idling
<1>5. JobInv' BY <1>4 DEF JobInv, Funds, Sends, Clean
<1> QED BY <1>1, <1>3, <1>5 DEF Rows

\* A row is written and no job is open afterwards.
LEMMA RowWritten ==
  ASSUME Rows, NEW s \in Sweeps, Kept(s), job' = Idle, RowInv' PROVE Rows'
<1>1. RowsOK' BY Idling, Zenon DEF RowsOK, Kept
<1>2. job'.at = "idle" /\ job'.then = "" BY Idling
<1>3. JobInv' BY <1>2 DEF JobInv, Funds, Sends, Clean
<1> QED BY <1>1, <1>3 DEF Rows

\* An open sweep goes on or ends, its plan kept.
LEMMA StateMoves ==
  ASSUME RowsOK, RowInv, NEW s \in Sweeps, s \in Open,
         Kept(s), KeptPlan(s), KeptFunding(s), KeptSweep(s),
         NEW x \in {"gas_funded", "broadcast", "confirmed", "failed"}, row'[s].st = x,
         x = "gas_funded" => row[s].asset = "tok",
         x = "broadcast" => row[s].signed
  PROVE  RowInv' /\ Open' \subseteq {s}
<1>1. Open' \subseteq Open BY DEF Open, Kept
<1>2. \A t \in Sweeps \ {s} : row'[t] = row[t] BY DEF Kept
<1>3. ASSUME NEW t \in Sweeps
      PROVE  /\ row'[t].st = "none" => ~row'[t].signed /\ ~row'[t].fsigned /\ row'[t].fn = None
             /\ row'[t].st # "none" => row'[t].asset \in Assets
             /\ row'[t].fn = None => row'[t].fa = 0
             /\ row'[t].fn = None \/ row'[t].fn \in Nat
             /\ row'[t].asset = "eth" => row'[t].fn = None /\ ~row'[t].fsigned /\ row'[t].st # "gas_funded"
             /\ row'[t].asset = "tok" /\ row'[t].st = "requested" => ~row'[t].signed
             /\ row'[t].st = "broadcast" => row'[t].signed
  <2>1. CASE t # s BY <1>2, <2>1 DEF RowInv
  <2>2. CASE t = s BY <2>2 DEF RowInv, Open, KeptPlan, KeptFunding, KeptSweep
  <2> QED BY <2>1, <2>2
<1>4. \A t, u \in Open' : t = u BY <1>1 DEF RowInv
<1> QED BY <1>1, <1>3, <1>4 DEF RowInv

\* The job starts or goes on and the row stays.
LEMMA JobMoves == ASSUME Rows, row' = row, job' \in Jobs, JobInv' PROVE Rows'
<1>1. RowsOK' BY DEF Rows, RowsOK
<1>2. Open' = Open BY DEF Open
<1>3. RowInv' BY <1>2, Zenon DEF Rows, RowInv
<1> QED BY <1>1, <1>3 DEF Rows

\* Open rows, by the job.
LEMMA JobIsOpen ==
  ASSUME Rows
  PROVE  /\ Funds => job.s \in Sweeps /\ job.s \in Open
         /\ Sends => job.s \in Sweeps /\ job.s \in Open
BY DEF Rows, JobInv, Open

LEMMA FirstLegRows ==
  ASSUME TypeOK, Rows, NEW s \in Sweeps
  PROVE  /\ FundGas(s) => Rows'
         /\ TrackFunding(s) => Rows'
         /\ ResendFunding(s) => Rows'
<1> USE DEF TypeOK
<1>1. ASSUME FundGas(s) PROVE Rows'
  <2>1. fee \in Int /\ held["eth"] \in Int BY SweepAssumption DEF MoneyOK
  <2>2. /\ row' = row /\ row[s].st = "requested" /\ row[s].asset = "tok" /\ ~row[s].fsigned
        /\ job' = Job("release", s, 0) \/ job' = Job("pin", s, fee - held["eth"])
    BY <1>1 DEF FundGas, ToFund, Ready
  <2>3. /\ job' \in Jobs /\ job'.at \in {"release", "pin"} /\ job'.s = s /\ job'.then = ""
    <3>1. 0 \in Int /\ fee - held["eth"] \in Int BY <2>1
    <3>2. "release" \in Places /\ "pin" \in Places /\ s \in Sweeps \cup {"none"} BY DEF Places
    <3>3. CASE job' = Job("release", s, 0) BY <3>1, <3>2, <3>3, Begins, Zenon
    <3>4. CASE job' = Job("pin", s, fee - held["eth"]) BY <3>1, <3>2, <3>4, Begins, Zenon
    <3> QED BY <2>2, <3>3, <3>4
  <2>4. JobInv' BY <2>2, <2>3 DEF JobInv, Funds, Sends, Clean
  <2> QED BY <2>2, <2>3, <2>4, JobMoves
<1>2. ASSUME TrackFunding(s) PROVE Rows'
  <2>1. /\ job = Idle /\ job' = job /\ row[s].st = "requested" /\ row[s].asset = "tok"
        /\ \/ row' = [row EXCEPT ![s].st = "gas_funded"]
           \/ row' = [row EXCEPT ![s].st = "failed"]
    BY <1>2 DEF TrackFunding, Tracking, Ready, GasFunded, FailFunding
  <2>2. s \in Open BY <2>1 DEF Open
  <2>3. PICK x \in {"gas_funded", "failed"} : row' = [row EXCEPT ![s].st = x] BY <2>1
  <2>4. /\ Kept(s) /\ KeptPlan(s) /\ KeptFunding(s) /\ KeptSweep(s) /\ row'[s].st = x
    BY <2>3, WriteState DEF RowsOK
  <2>5. RowInv' BY <2>1, <2>2, <2>4, StateMoves DEF Rows
  <2> QED BY <2>1, <2>4, <2>5, RowWritten
<1>3. ASSUME ResendFunding(s) PROVE Rows' BY <1>3, RowsStay DEF ResendFunding
<1> QED BY <1>1, <1>2, <1>3

LEMMA SecondLegRows ==
  ASSUME TypeOK, Rows, NEW s \in Sweeps
  PROVE  /\ BalanceChanged(s) => Rows'
         /\ PinSweepNonce(s) => Rows'
         /\ SendSigned(s) => Rows'
         /\ Track(s) => Rows'
         /\ ResendSweep(s) => Rows'
<1> USE DEF TypeOK
<1>1. ASSUME BalanceChanged(s) PROVE Rows'
  <2>1. /\ job = Idle /\ job' = job /\ row[s].st \in {"gas_funded", "requested"}
        /\ row' = [row EXCEPT ![s].st = "failed", ![s].gas = 0]
    BY <1>1 DEF BalanceChanged, ToSend, Ready, Fail
  <2>2. s \in Open BY <2>1 DEF Open
  <2>3. Kept(s) /\ KeptPlan(s) /\ KeptFunding(s) /\ KeptSweep(s) /\ row'[s].st = "failed"
    <3>1. 0 \in Int /\ "failed" \in {"confirmed", "failed"} /\ row \in [Sweeps -> Row] BY DEF RowsOK
    <3> QED BY <2>1, <3>1, WriteEnd, Zenon
  <2>4. RowInv' BY <2>2, <2>3, StateMoves DEF Rows
  <2> QED BY <2>1, <2>3, <2>4, RowWritten
<1>2. ASSUME PinSweepNonce(s) PROVE Rows'
  <2> DEFINE n == IF row[s].an = None THEN PendingNonce("addr") ELSE row[s].an
  <2>1. /\ job' = Job("signsweep", s, 0) /\ ~row[s].signed
        /\ row[s].st = "gas_funded" \/ (row[s].st = "requested" /\ row[s].asset = "eth")
        /\ row' = [row EXCEPT ![s].an = n]
    BY <1>2 DEF PinSweepNonce, ToSend, Ready
  <2>2. n \in Int
    <3>1. row[s].an \in Int BY DEF RowsOK, Row
    <3> QED BY <3>1, PendingIsNonce
  <2> HIDE DEF n
  <2>3. /\ Kept(s) /\ KeptPlan(s) /\ KeptFunding(s)
        /\ row'[s].st = row[s].st /\ row'[s].signed = row[s].signed
    BY <2>1, <2>2, WriteNonce DEF RowsOK
  <2>4. /\ job' \in Jobs /\ job'.at = "signsweep" /\ job'.s = s /\ job'.then = ""
    <3>1. 0 \in Int /\ "signsweep" \in Places /\ s \in Sweeps \cup {"none"} BY DEF Places
    <3> QED BY <2>1, <3>1, Begins, Zenon
  <2>5. RowsOK' BY <2>3, <2>4 DEF RowsOK, Kept
  <2>6. RowInv'
    <3>1. Open' = Open BY <2>3 DEF Open, Kept
    <3>2. \A t \in Sweeps : /\ row'[t].st = row[t].st /\ row'[t].signed = row[t].signed
                            /\ row'[t].fsigned = row[t].fsigned /\ row'[t].fn = row[t].fn
                            /\ row'[t].fa = row[t].fa /\ row'[t].asset = row[t].asset
      BY <2>3 DEF Kept, KeptPlan, KeptFunding
    <3> QED BY <3>1, <3>2 DEF Rows, RowInv
  <2>7. JobInv' BY <2>1, <2>3, <2>4 DEF JobInv, Funds, Sends, Clean, KeptPlan
  <2> QED BY <2>5, <2>6, <2>7 DEF Rows
<1>3. ASSUME SendSigned(s) PROVE Rows'
  <2>1. /\ job' = Job("sendsweep", s, 0) /\ row[s].signed /\ row' = row
        /\ row[s].st = "gas_funded" \/ (row[s].st = "requested" /\ row[s].asset = "eth")
    BY <1>3 DEF SendSigned, ToSend, Ready
  <2>2. /\ job' \in Jobs /\ job'.at = "sendsweep" /\ job'.s = s /\ job'.then = ""
    <3>1. 0 \in Int /\ "sendsweep" \in Places /\ s \in Sweeps \cup {"none"} BY DEF Places
    <3> QED BY <2>1, <3>1, Begins, Zenon
  <2>3. JobInv' BY <2>1, <2>2 DEF JobInv, Funds, Sends, Clean
  <2> QED BY <2>1, <2>2, <2>3, JobMoves
<1>4. ASSUME Track(s) PROVE Rows'
  <2>1. /\ job = Idle /\ job' = job /\ row[s].st = "broadcast"
        /\ \/ row' = [row EXCEPT ![s].st = "confirmed", ![s].gas = Cost]
           \/ row' = [row EXCEPT ![s].st = "failed", ![s].gas = Cost]
    BY <1>4 DEF Track, Ready, Confirm, Fail
  <2>2. s \in Open BY <2>1 DEF Open
  <2>3. PICK x \in {"confirmed", "failed"} : row' = [row EXCEPT ![s].st = x, ![s].gas = Cost] BY <2>1
  <2>4. /\ Kept(s) /\ KeptPlan(s) /\ KeptFunding(s) /\ KeptSweep(s) /\ row'[s].st = x
    <3>1. Cost \in Int /\ row \in [Sweeps -> Row] BY SweepAssumption DEF RowsOK
    <3> QED BY <2>3, <3>1, WriteEnd, Zenon
  <2>5. RowInv' BY <2>2, <2>4, StateMoves DEF Rows
  <2> QED BY <2>1, <2>4, <2>5, RowWritten
<1>5. ASSUME ResendSweep(s) PROVE Rows' BY <1>5, RowsStay DEF ResendSweep
<1> QED BY <1>1, <1>2, <1>3, <1>4, <1>5

\* A plan: the address has no open sweep.
LEMMA PlanRows ==
  ASSUME TypeOK, Rows, NEW s \in Sweeps, NEW a \in Assets, Plan(s, a)
  PROVE  Rows' /\ Open' = {s}
<1>1. /\ job = Idle /\ job' = job /\ row[s].st = "none" /\ Open = {}
      /\ row' = [row EXCEPT ![s] = [@ EXCEPT !.st = "requested", !.asset = a, !.amt = Sweepable(a)]]
  BY DEF Plan
<1>2. Sweepable(a) \in Int /\ a \in {"eth", "tok"} BY SweepableBound DEF TypeOK
<1>3. /\ Kept(s) /\ KeptFunding(s) /\ KeptSweep(s)
      /\ row'[s].st = "requested" /\ row'[s].asset = a
  BY <1>1, <1>2, WritePlan DEF TypeOK, RowsOK
<1>4. Open' = {s} BY <1>1, <1>3 DEF Open, Kept
<1>5. RowInv'
  <2>1. \A t \in Sweeps \ {s} : row'[t] = row[t] BY <1>3 DEF Kept
  <2>2. ASSUME NEW t \in Sweeps
        PROVE  /\ row'[t].st = "none" => ~row'[t].signed /\ ~row'[t].fsigned /\ row'[t].fn = None
               /\ row'[t].st # "none" => row'[t].asset \in Assets
               /\ row'[t].fn = None => row'[t].fa = 0
               /\ row'[t].fn = None \/ row'[t].fn \in Nat
               /\ row'[t].asset = "eth" => row'[t].fn = None /\ ~row'[t].fsigned /\ row'[t].st # "gas_funded"
               /\ row'[t].asset = "tok" /\ row'[t].st = "requested" => ~row'[t].signed
               /\ row'[t].st = "broadcast" => row'[t].signed
    <3>1. CASE t # s BY <2>1, <3>1 DEF Rows, RowInv
    <3>2. CASE t = s BY <1>1, <1>3, <3>2 DEF Rows, RowInv, KeptFunding, KeptSweep
    <3> QED BY <3>1, <3>2
  <2> QED BY <1>4, <2>2 DEF RowInv
<1> QED BY <1>1, <1>3, <1>4, <1>5, RowWritten

\* The row of the job, in the first leg.
LEMMA FirstLegJobs ==
  ASSUME TypeOK, Rows
  PROVE  /\ Release => Rows'
         /\ ClearFunding => Rows'
         /\ AlreadyFunded => Rows'
         /\ PinFunding => Rows'
         /\ SignFunding => Rows'
         /\ SignFundingFails => Rows'
         /\ RecordFunding => Rows'
         /\ SendFunding => Rows'
         /\ FundingRefused => Rows'
<1> USE DEF TypeOK
<1>0. row \in [Sweeps -> Row] /\ job \in Jobs BY DEF RowsOK
<1>v. job.v \in Int BY <1>0 DEF Jobs
<1>n. /\ None \in Int /\ 0 \in Int /\ nextNonce \in Int /\ nextNonce \in Nat /\ nextNonce # None
  BY DEF WalletOK, None
<1>p. {"funded", "recycle", "sign", "record", "send"} \subseteq Places BY DEF Places
<1>1. ASSUME Release PROVE Rows'
  <2>1. row' = row /\ job.at = "release" BY <1>1 DEF Release
  <2>2. /\ job.s \in Sweeps /\ row[job.s].st = "requested" /\ row[job.s].asset = "tok"
        /\ ~row[job.s].fsigned /\ job.then = ""
    BY <2>1 DEF Rows, JobInv, Funds, Sends, Clean
  <2>3. CASE row[job.s].fn = None
    <3>1. job' = [job EXCEPT !.at = "funded"] BY <1>1, <2>3 DEF Release
    <3>2. job' \in Jobs /\ job'.at = "funded" /\ job'.s = job.s /\ job'.then = ""
      BY <1>0, <1>p, <2>2, <3>1, MovesOn
    <3>3. JobInv' BY <2>1, <2>2, <2>3, <3>2 DEF JobInv, Funds, Sends, Clean
    <3> QED BY <2>1, <3>2, <3>3, JobMoves
  <2>4. CASE row[job.s].fn # None
    <3>1. job' = [job EXCEPT !.at = "recycle", !.then = "clear"] BY <1>1, <2>4 DEF Release
    <3>2. job' \in Jobs /\ job'.at = "recycle" /\ job'.s = job.s /\ job'.then = "clear"
      BY <1>0, <3>1, Recycles
    <3>3. JobInv' BY <2>1, <2>2, <2>4, <3>2 DEF JobInv, Funds, Sends, Clean
    <3> QED BY <2>1, <3>2, <3>3, JobMoves
  <2> QED BY <2>3, <2>4
<1>2. ASSUME ClearFunding PROVE Rows'
  <2>1. /\ job.at = "clear" /\ job' = [job EXCEPT !.at = "funded"]
        /\ row' = [row EXCEPT ![job.s].fn = None, ![job.s].fa = 0]
    BY <1>2 DEF ClearFunding
  <2>2. /\ job.s \in Sweeps /\ row[job.s].st = "requested" /\ row[job.s].asset = "tok"
        /\ ~row[job.s].fsigned /\ job.then \in {"", "clear"}
    BY <2>1, <1>0 DEF Rows, JobInv, Funds, Sends, Clean, Jobs
  <2> DEFINE s == job.s
  <2>3. /\ Kept(s) /\ KeptPlan(s) /\ KeptSweep(s) /\ row'[s].st = row[s].st
        /\ row'[s].fn = None /\ row'[s].fa = 0 /\ row'[s].fsigned = row[s].fsigned
    BY <1>0, <1>n, <2>1, <2>2, WriteFunding, ZenonT(60)
  <2>4. job' \in Jobs /\ job'.at = "funded" /\ job'.s = s /\ job'.then \in {"", "clear"}
    BY <1>0, <1>p, <2>1, <2>2, MovesOn
  <2> HIDE DEF s
  <2>5. s \in Sweeps /\ row[s].asset = "tok" /\ row[s].st = "requested" /\ ~row[s].fsigned BY <2>2 DEF s
  <2>6. RowInv'
    <3>1. Open' = Open BY <2>3, <2>5 DEF Open, Kept
    <3>2. \A t \in Sweeps : t # s => row'[t] = row[t] BY <2>3 DEF Kept
    <3> QED BY <2>3, <2>5, <3>1, <3>2 DEF Rows, RowInv, KeptPlan, KeptSweep
  <2>7. JobInv' BY <2>3, <2>4, <2>5 DEF JobInv, Funds, Sends, Clean, KeptPlan
  <2> QED BY <2>3, <2>4, <2>6, <2>7 DEF Rows, RowsOK, Kept
<1>3. ASSUME AlreadyFunded PROVE Rows'
  <2>1. /\ job.at = "funded" /\ job' = Idle /\ row' = [row EXCEPT ![job.s].st = "gas_funded"]
    BY <1>3 DEF AlreadyFunded, GasFunded
  <2>2. job.s \in Sweeps /\ row[job.s].st = "requested" /\ row[job.s].asset = "tok"
    BY <2>1 DEF Rows, JobInv, Funds, Clean
  <2>3. /\ Kept(job.s) /\ KeptPlan(job.s) /\ KeptFunding(job.s) /\ KeptSweep(job.s)
        /\ row'[job.s].st = "gas_funded"
    BY <1>0, <2>1, <2>2, WriteState
  <2>4. RowInv' BY <2>2, <2>3, StateMoves DEF Rows, Open
  <2> QED BY <2>1, <2>2, <2>3, <2>4, RowWritten
<1>4. ASSUME PinFunding PROVE Rows'
  <2>1. job.at = "pin" /\ job' = [job EXCEPT !.at = "sign"] BY <1>4 DEF PinFunding
  <2>2. /\ job.s \in Sweeps /\ row[job.s].st = "requested" /\ row[job.s].asset = "tok"
        /\ ~row[job.s].fsigned /\ job.then = ""
    BY <2>1 DEF Rows, JobInv, Funds, Sends, Clean
  <2>3. job' \in Jobs /\ job'.at = "sign" /\ job'.s = job.s /\ job'.then = ""
    BY <1>0, <1>p, <2>1, <2>2, MovesOn
  <2>4. CASE row[job.s].fn # None /\ row' = row
    <3>1. JobInv' BY <2>2, <2>3, <2>4 DEF JobInv, Funds, Sends, Clean
    <3> QED BY <2>3, <2>4, <3>1, JobMoves
  <2>5. CASE row[job.s].fn = None /\ row' = [row EXCEPT ![job.s].fn = nextNonce, ![job.s].fa = job.v]
    <3> DEFINE s == job.s
    <3>1. /\ Kept(s) /\ KeptPlan(s) /\ KeptSweep(s) /\ row'[s].st = row[s].st
          /\ row'[s].fn = nextNonce /\ row'[s].fa = job.v /\ row'[s].fsigned = row[s].fsigned
      BY <1>0, <1>v, <1>n, <2>2, <2>5, WriteFunding, ZenonT(60)
    <3> HIDE DEF s
    <3>2. s \in Sweeps /\ row[s].asset = "tok" /\ row[s].st = "requested" /\ ~row[s].fsigned
          /\ job'.s = s
      BY <2>2, <2>3 DEF s
    <3>3. RowInv'
      <4>1. Open' = Open BY <3>1, <3>2 DEF Open, Kept
      <4>2. \A t \in Sweeps : t # s => row'[t] = row[t] BY <3>1 DEF Kept
      <4> QED BY <1>n, <3>1, <3>2, <4>1, <4>2 DEF Rows, RowInv, KeptPlan, KeptSweep
    <3>4. JobInv' BY <1>n, <2>3, <3>1, <3>2 DEF JobInv, Funds, Sends, Clean, KeptPlan
    <3> QED BY <2>3, <3>1, <3>3, <3>4 DEF Rows, RowsOK, Kept
  <2> QED BY <1>4, <2>4, <2>5 DEF PinFunding
<1>5. ASSUME SignFunding PROVE Rows'
  <2>1. /\ row' = row /\ job.at = "sign" /\ job' = [job EXCEPT !.at = "record"] /\ row[job.s].fa = job.v
    BY <1>5 DEF SignFunding, FundingSignable
  <2>2. /\ job.s \in Sweeps /\ row[job.s].st = "requested" /\ row[job.s].asset = "tok"
        /\ ~row[job.s].fsigned /\ job.then = "" /\ row[job.s].fn # None
    BY <2>1 DEF Rows, JobInv, Funds, Sends, Clean
  <2>3. job' \in Jobs /\ job'.at = "record" /\ job'.s = job.s /\ job'.then = "" /\ job'.v = job.v
    BY <1>0, <1>p, <2>1, <2>2, MovesOn
  <2>4. JobInv' BY <2>1, <2>2, <2>3 DEF JobInv, Funds, Sends, Clean
  <2> QED BY <2>1, <2>3, <2>4, JobMoves
<1>6. ASSUME SignFundingFails PROVE Rows' BY <1>6, JobEnds DEF SignFundingFails
<1>7. ASSUME RecordFunding PROVE Rows'
  <2>1. /\ job.at = "record" /\ job' = [job EXCEPT !.at = "send"]
        /\ row' = [row EXCEPT ![job.s].fsigned = TRUE, ![job.s].fa = job.v]
    BY <1>7 DEF RecordFunding
  <2>2. /\ job.s \in Sweeps /\ row[job.s].st = "requested" /\ row[job.s].asset = "tok"
        /\ job.v = row[job.s].fa /\ job.then = "" /\ row[job.s].fn # None
    BY <2>1 DEF Rows, JobInv, Funds, Sends, Clean
  <2> DEFINE s == job.s
  <2>3. /\ Kept(s) /\ KeptPlan(s) /\ KeptSweep(s) /\ row'[s].st = row[s].st
        /\ row'[s].fn = row[s].fn /\ row'[s].fa = job.v /\ row'[s].fsigned
    BY <1>0, <1>v, <2>1, <2>2, WriteFunded, Zenon
  <2>4. job' \in Jobs /\ job'.at = "send" /\ job'.s = s /\ job'.then = ""
    BY <1>0, <1>p, <2>1, <2>2, MovesOn
  <2> HIDE DEF s
  <2>5. s \in Sweeps /\ row[s].asset = "tok" /\ row[s].st = "requested" /\ job.v = row[s].fa
        /\ row[s].fn # None
    BY <2>2 DEF s
  <2>6. RowInv'
    <3>1. Open' = Open BY <2>3, <2>5 DEF Open, Kept
    <3>2. \A t \in Sweeps : t # s => row'[t] = row[t] BY <2>3 DEF Kept
    <3> QED BY <2>3, <2>5, <3>1, <3>2 DEF Rows, RowInv, KeptPlan, KeptSweep
  <2>7. JobInv' BY <2>3, <2>4, <2>5 DEF JobInv, Funds, Sends, Clean, KeptPlan
  <2> QED BY <2>3, <2>4, <2>6, <2>7 DEF Rows, RowsOK, Kept
<1>8. ASSUME SendFunding PROVE Rows'
  <2>1. /\ row' = row /\ job.at = "send"
        /\ job' = Idle \/ job' = [job EXCEPT !.at = "recycle", !.then = "failfunding"]
    BY <1>8 DEF SendFunding
  <2>2. CASE job' = Idle BY <2>1, <2>2, JobEnds
  <2>3. CASE job' = [job EXCEPT !.at = "recycle", !.then = "failfunding"]
    <3>1. /\ job.s \in Sweeps /\ row[job.s].st = "requested" /\ row[job.s].asset = "tok"
          /\ row[job.s].fsigned /\ row[job.s].fn # None
      BY <2>1 DEF Rows, JobInv, Funds, Sends, Clean
    <3>2. job' \in Jobs /\ job'.at = "recycle" /\ job'.s = job.s /\ job'.then = "failfunding"
      BY <1>0, <2>3, Recycles
    <3>3. JobInv' BY <2>1, <3>1, <3>2 DEF JobInv, Funds, Sends, Clean
    <3> QED BY <2>1, <3>2, <3>3, JobMoves
  <2> QED BY <2>1, <2>2, <2>3
<1>9. ASSUME FundingRefused PROVE Rows'
  <2>1. /\ job.at = "failfunding" /\ job' = Idle /\ row' = [row EXCEPT ![job.s].st = "failed"]
    BY <1>9 DEF FundingRefused, FailFunding
  <2>2. job.s \in Sweeps /\ row[job.s].st = "requested" /\ row[job.s].asset = "tok"
    BY <2>1 DEF Rows, JobInv, Funds, Clean
  <2>3. /\ Kept(job.s) /\ KeptPlan(job.s) /\ KeptFunding(job.s) /\ KeptSweep(job.s)
        /\ row'[job.s].st = "failed"
    BY <1>0, <2>1, <2>2, WriteState
  <2>4. RowInv' BY <2>2, <2>3, StateMoves DEF Rows, Open
  <2> QED BY <2>1, <2>2, <2>3, <2>4, RowWritten
<1> QED BY <1>1, <1>2, <1>3, <1>4, <1>5, <1>6, <1>7, <1>8, <1>9

LEMMA SecondLegJobs ==
  ASSUME TypeOK, Rows
  PROVE  /\ SignSweep => Rows'
         /\ SignSweepFails => Rows'
         /\ SendSweep => Rows'
         /\ MarkBroadcast => Rows'
         /\ SweepRefused => Rows'
<1> USE DEF TypeOK
<1>0. row \in [Sweeps -> Row] /\ job \in Jobs BY DEF RowsOK
<1>p. {"sendsweep", "mark", "refused"} \subseteq Places BY DEF Places
<1>1. ASSUME SignSweep PROVE Rows'
  <2>1. /\ job.at = "signsweep" /\ job' = [job EXCEPT !.at = "sendsweep"]
        /\ row' = [row EXCEPT ![job.s].signed = TRUE]
    BY <1>1 DEF SignSweep
  <2>2. /\ job.s \in Sweeps /\ job.then = ""
        /\ row[job.s].st = "gas_funded" \/ (row[job.s].st = "requested" /\ row[job.s].asset = "eth")
    BY <2>1 DEF Rows, JobInv, Sends
  <2> DEFINE s == job.s
  <2>3. /\ Kept(s) /\ KeptPlan(s) /\ KeptFunding(s) /\ row'[s].st = row[s].st /\ row'[s].signed
    BY <1>0, <2>1, <2>2, WriteSigned
  <2>4. job' \in Jobs /\ job'.at = "sendsweep" /\ job'.s = s /\ job'.then = ""
    BY <1>0, <1>p, <2>1, <2>2, MovesOn
  <2> HIDE DEF s
  <2>5. s \in Sweeps /\ (row[s].st = "gas_funded" \/ (row[s].st = "requested" /\ row[s].asset = "eth"))
    BY <2>2 DEF s
  <2>6. RowInv'
    <3>1. Open' = Open BY <2>3, <2>5 DEF Open, Kept
    <3>2. \A t \in Sweeps : t # s => row'[t] = row[t] BY <2>3 DEF Kept
    <3> QED BY <2>3, <2>5, <3>1, <3>2 DEF Rows, RowInv, KeptPlan, KeptFunding
  <2>7. JobInv' BY <2>3, <2>4, <2>5 DEF JobInv, Funds, Sends, Clean, KeptPlan
  <2> QED BY <2>3, <2>4, <2>6, <2>7 DEF Rows, RowsOK, Kept
<1>2. ASSUME SignSweepFails PROVE Rows' BY <1>2, JobEnds DEF SignSweepFails
<1>3. ASSUME SendSweep PROVE Rows'
  <2>1. /\ job.at = "sendsweep" /\ row' = row
        /\ job' = [job EXCEPT !.at = "mark"] \/ job' = [job EXCEPT !.at = "refused"]
    BY <1>3 DEF SendSweep
  <2>2. /\ job.s \in Sweeps /\ job.then = "" /\ row[job.s].signed
        /\ row[job.s].st = "gas_funded" \/ (row[job.s].st = "requested" /\ row[job.s].asset = "eth")
    BY <2>1 DEF Rows, JobInv, Sends
  <2>3. job' \in Jobs /\ job'.at \in {"mark", "refused"} /\ job'.s = job.s /\ job'.then = ""
    BY <1>0, <1>p, <2>1, <2>2, MovesOn
  <2>4. JobInv' BY <2>1, <2>2, <2>3 DEF JobInv, Funds, Sends, Clean
  <2> QED BY <2>1, <2>3, <2>4, JobMoves
<1>4. ASSUME MarkBroadcast PROVE Rows'
  <2>1. /\ job.at = "mark" /\ job' = Idle /\ row' = [row EXCEPT ![job.s].st = "broadcast"]
    BY <1>4 DEF MarkBroadcast
  <2>2. job.s \in Sweeps /\ row[job.s].signed /\ job.s \in Open
    BY <2>1 DEF Rows, JobInv, Sends, Open
  <2>3. /\ Kept(job.s) /\ KeptPlan(job.s) /\ KeptFunding(job.s) /\ KeptSweep(job.s)
        /\ row'[job.s].st = "broadcast"
    BY <1>0, <2>1, <2>2, WriteState
  <2>4. RowInv' BY <2>2, <2>3, StateMoves DEF Rows
  <2> QED BY <2>1, <2>2, <2>3, <2>4, RowWritten
<1>5. ASSUME SweepRefused PROVE Rows'
  <2>1. /\ job.at = "refused" /\ job' = Idle
        /\ row' = [row EXCEPT ![job.s].st = "failed", ![job.s].gas = 0]
    BY <1>5 DEF SweepRefused, Fail
  <2>2. job.s \in Sweeps /\ job.s \in Open BY <2>1 DEF Rows, JobInv, Sends, Open
  <2>3. /\ Kept(job.s) /\ KeptPlan(job.s) /\ KeptFunding(job.s) /\ KeptSweep(job.s)
        /\ row'[job.s].st = "failed"
    <3>1. 0 \in Int /\ "failed" \in {"confirmed", "failed"} OBVIOUS
    <3> QED BY <1>0, <2>1, <2>2, <3>1, WriteEnd, Zenon
  <2>4. RowInv' BY <2>2, <2>3, StateMoves DEF Rows
  <2> QED BY <2>1, <2>2, <2>3, <2>4, RowWritten
<1> QED BY <1>1, <1>2, <1>3, <1>4, <1>5

\* What the manager does with a nonce leaves the rows alone, and comes back to
\* where it was asked from.
LEMMA ManagerJobs ==
  ASSUME TypeOK, Rows
  PROVE  /\ Recycle => Rows'
         /\ StepBack => Rows'
         /\ RecordFill => Rows'
         /\ SendFill => Rows'
         /\ StartFill => Rows'
<1> USE DEF TypeOK
<1>0. row \in [Sweeps -> Row] /\ job \in Jobs BY DEF RowsOK
<1>p. {"clear", "failfunding", "fillsend", "fill"} \subseteq Places BY DEF Places
<1>t. job.then \in {"", "clear", "failfunding"} BY <1>0 DEF Jobs
<1>1. ASSUME Recycle PROVE Rows'
  <2>1. /\ job.at = "recycle" /\ row' = row
        /\ \/ job' = [job EXCEPT !.at = "stepback", !.v = row[job.s].fn]
           \/ job' = [job EXCEPT !.at = "fill", !.v = row[job.s].fn]
    BY <1>1 DEF Recycle
  <2>2. job.then # "" /\ job.s \in Sweeps /\ row[job.s].fn # None
    BY <2>1 DEF Rows, JobInv, Funds
  <2>3. row[job.s].fn \in Int BY <1>0, <2>2 DEF Row
  <2>4. /\ job' \in Jobs /\ job'.at \in {"stepback", "fill"} /\ job'.s = job.s
        /\ job'.then = job.then /\ job'.v = row[job.s].fn
    BY <1>0, <2>1, <2>3, Resolves
  <2>5. JobInv' BY <1>t, <2>1, <2>2, <2>4 DEF Rows, JobInv, Funds, Sends, Clean
  <2> QED BY <2>1, <2>4, <2>5, JobMoves
<1>2. ASSUME StepBack PROVE Rows'
  <2>1. job.at = "stepback" /\ row' = row /\ job' = [job EXCEPT !.at = job.then] BY <1>2 DEF StepBack
  <2>2. job.then \in {"clear", "failfunding"} BY <1>t, <2>1 DEF Rows, JobInv
  <2>3. job' \in Jobs /\ job'.at = job.then /\ job'.s = job.s /\ job'.then = job.then
    BY <1>0, <1>p, <2>1, <2>2, MovesOn
  <2>4. JobInv' BY <2>1, <2>2, <2>3 DEF Rows, JobInv, Funds, Sends, Clean
  <2> QED BY <2>1, <2>3, <2>4, JobMoves
<1>3. ASSUME job.at \in {"fill", "fillsend"}, row' = row, job' = AfterError \/ job' = AfterFill
      PROVE  Rows'
  <2>1. CASE job' = Idle BY <1>3, <2>1, JobEnds
  <2>2. CASE job.then # "" /\ job' = [job EXCEPT !.at = job.then]
    <3>1. job' \in Jobs /\ job'.at = job.then /\ job'.s = job.s /\ job'.then = job.then
      BY <1>0, <1>p, <1>t, <2>2, MovesOn
    <3>2. JobInv' BY <1>3, <1>t, <2>2, <3>1 DEF Rows, JobInv, Funds, Sends, Clean
    <3> QED BY <1>3, <3>1, <3>2, JobMoves
  <2> QED BY <1>3, <2>1, <2>2 DEF AfterError, AfterFill
<1>4. ASSUME RecordFill PROVE Rows'
  <2>1. CASE job' = AfterError BY <1>3, <1>4, <2>1 DEF RecordFill
  <2>2. CASE job' = [job EXCEPT !.at = "fillsend"]
    <3>1. /\ job' \in Jobs /\ job'.at = "fillsend" /\ job'.s = job.s /\ job'.then = job.then
          /\ job'.v = job.v
      BY <1>0, <1>p, <2>2, MovesOn
    <3>2. job.at = "fill" /\ row' = row BY <1>4 DEF RecordFill
    <3>3. JobInv' BY <1>t, <3>1, <3>2 DEF Rows, JobInv, Funds, Sends, Clean
    <3> QED BY <3>1, <3>2, <3>3, JobMoves
  <2> QED BY <1>4, <2>1, <2>2 DEF RecordFill
<1>5. ASSUME SendFill PROVE Rows' BY <1>3, <1>5 DEF SendFill
<1>6. ASSUME StartFill PROVE Rows'
  <2>1. PendingNonce("hot") \in Int /\ nextNonce - 1 \in Int BY PendingIsNonce DEF WalletOK
  <2>2. Gaps \subseteq Int /\ IsFiniteSet(Gaps)
    <3>1. IsFiniteSet(PendingNonce("hot")..(nextNonce - 1)) BY <2>1, FS_Interval
    <3>2. Gaps \subseteq PendingNonce("hot")..(nextNonce - 1) BY DEF Gaps
    <3>3. PendingNonce("hot")..(nextNonce - 1) \subseteq Int BY <2>1
    <3>4. IsFiniteSet(Gaps) BY <3>1, <3>2, FS_Subset
    <3> QED BY <3>2, <3>3, <3>4
  <2>3. Gaps # {} /\ row' = row /\ job' = Job("fill", "none", Min(Gaps)) BY <1>6 DEF StartFill
  <2>4. Min(Gaps) \in Int BY <2>2, <2>3, LeastIs
  <2>5. /\ job' \in Jobs /\ job'.at = "fill" /\ job'.then = ""
    <3>1. "none" \in Sweeps \cup {"none"} /\ "fill" \in Places BY <1>p
    <3> QED BY <2>3, <2>4, <3>1, Begins, Zenon
  <2>6. JobInv' BY <2>5 DEF JobInv, Funds, Sends, Clean
  <2> QED BY <2>3, <2>5, <2>6, JobMoves
<1> QED BY <1>1, <1>2, <1>4, <1>5, <1>6

\* Every step keeps the rows and the job consistent.
LEMMA RowsStep == ASSUME TypeOK, Rows, [Next]_vars PROVE Rows'
<1>1. CASE UNCHANGED vars BY <1>1, RowsStay DEF vars
<1>2. ASSUME NEW a \in Assets, Deposit(a) \/ Credit(a) \/ Gift(a) PROVE Rows'
  BY <1>2, RowsStay DEF Deposit, Credit, Gift
<1>3. ASSUME NEW a \in Assets, NEW s \in Sweeps, Plan(s, a) PROVE Rows' BY <1>3, PlanRows
<1>4. ASSUME NEW s \in Sweeps, SweepStep(s) PROVE Rows'
  BY <1>4, FirstLegRows, SecondLegRows, Zenon DEF SweepStep
<1>5. CASE JobStep BY <1>5, FirstLegJobs, SecondLegJobs, ManagerJobs, Zenon DEF JobStep
<1>6. CASE MoveFee \/ OtherAllocates \/ OtherCommits \/ Start \/ Started
  BY <1>6, RowsStay DEF MoveFee, OtherAllocates, OtherCommits, Start, Started
<1>7. ASSUME NEW o \in Others, OtherSends(o) PROVE Rows' BY <1>7, RowsStay DEF OtherSends
<1>8. CASE Crash BY <1>8, JobEnds DEF Crash
<1>9. CASE StartFill BY <1>9, ManagerJobs
<1>10. ASSUME NEW tx \in pool, Mine(tx) \/ Drop(tx) PROVE Rows' BY <1>10, RowsStay DEF Mine, Drop
<1> QED BY <1>1, <1>2, <1>3, <1>4, <1>5, <1>6, <1>7, <1>8, <1>9, <1>10, Zenon DEF Next

-----------------------------------------------------------------------------
(* The other types.                                                        *)

LEMMA WalletStep == ASSUME TypeOK, Rows, [Next]_vars PROVE WalletOK'
<1> USE DEF WalletOK, None
<1>0. WalletOK /\ Rows /\ job \in Jobs /\ row \in [Sweeps -> Row] BY DEF TypeOK, RowsOK
<1>1. ASSUME UNCHANGED <<nextNonce, alloc, fills, other>> PROVE WalletOK' BY <1>0, <1>1
<1>2. CASE PinFunding BY <1>0, <1>2 DEF PinFunding
<1>3. CASE StepBack
  <2>1. /\ nextNonce' = job.v /\ UNCHANGED <<alloc, fills, other>> /\ job.at = "stepback"
    BY <1>3 DEF StepBack
  <2>2. job.v = row[job.s].fn /\ job.s \in Sweeps /\ row[job.s].fn # None
    BY <1>0, <2>1 DEF Rows, JobInv, Funds
  <2>3. row[job.s].fn \in Nat BY <1>0, <2>2 DEF Rows, RowInv
  <2> QED BY <1>0, <2>1, <2>2, <2>3
<1>4. CASE RecordFill
  <2>1. job.v \in Int BY <1>0 DEF Jobs
  <2> QED BY <1>0, <1>4, <2>1 DEF RecordFill
<1>5. CASE OtherAllocates BY <1>0, <1>5 DEF OtherAllocates
<1>6. CASE OtherCommits
  <2> DEFINE x == CHOOSE z \in Others : other[z].nonce = None
  <2>1. /\ alloc # None /\ nextNonce' = alloc + 1 /\ alloc' = None /\ fills' = fills
        /\ other' = [other EXCEPT ![x].nonce = alloc]
    BY <1>6 DEF OtherCommits
  <2>2. alloc \in Nat /\ alloc \in Int BY <1>0, <2>1
  <2> HIDE DEF x
  <2>3. ASSUME NEW o \in Others PROVE [other[o] EXCEPT !.nonce = alloc] \in [nonce : Int, sent : BOOLEAN]
    <3> DEFINE r == other[o]
    <3>1. r \in [nonce : Int, sent : BOOLEAN] BY <1>0
    <3> HIDE DEF r
    <3>2. [r EXCEPT !.nonce = alloc] \in [nonce : Int, sent : BOOLEAN] BY <2>2, <3>1
    <3> QED BY <3>2 DEF r
  <2>4. other' = [other EXCEPT ![x] = [other[x] EXCEPT !.nonce = alloc]] BY <2>1
  <2>5. other \in [Others -> [nonce : Int, sent : BOOLEAN]] BY <1>0
  <2>6. other' \in [Others -> [nonce : Int, sent : BOOLEAN]]
    <3> DEFINE q == [other[x] EXCEPT !.nonce = alloc]
               R == [nonce : Int, sent : BOOLEAN]
    <3>1. x \in Others => q \in R BY <2>3
    <3>2. other' = [other EXCEPT ![x] = q] /\ other \in [Others -> R] BY <2>4, <2>5
    <3> HIDE DEF q, R
    <3>3. other' \in [Others -> R] BY <3>1, <3>2
    <3> QED BY <3>3 DEF R
  <2>7. nextNonce' \in Nat BY <2>1, <2>2
  <2> QED BY <1>0, <2>1, <2>6, <2>7
<1>7. ASSUME NEW o \in Others, OtherSends(o) PROVE WalletOK'
  BY <1>0, <1>7 DEF OtherSends
<1>8. CASE Crash BY <1>0, <1>8 DEF Crash
<1>9. CASE UNCHANGED vars BY <1>1, <1>9 DEF vars
<1>10. ASSUME NEW a \in Assets, Deposit(a) \/ Credit(a) \/ Gift(a) \/ \E s \in Sweeps : Plan(s, a)
       PROVE  WalletOK'
  BY <1>1, <1>10 DEF Deposit, Credit, Gift, Plan, wallet
<1>11. ASSUME NEW s \in Sweeps, SweepStep(s) PROVE WalletOK'
  BY <1>1, <1>11 DEF SweepStep, FundGas, TrackFunding, ResendFunding, BalanceChanged, PinSweepNonce,
       SendSigned, Track, ResendSweep, wallet
<1>12. CASE Release \/ ClearFunding \/ AlreadyFunded \/ SignFunding \/ SignFundingFails \/ RecordFunding
            \/ SendFunding \/ FundingRefused
  BY <1>1, <1>12 DEF Release, ClearFunding, AlreadyFunded, SignFunding, SignFundingFails,
       RecordFunding, SendFunding, FundingRefused, wallet
<1>13. CASE SignSweep \/ SignSweepFails \/ SendSweep \/ MarkBroadcast \/ SweepRefused
            \/ Recycle \/ SendFill
  BY <1>1, <1>13 DEF SignSweep, SignSweepFails, SendSweep, MarkBroadcast, SweepRefused,
       Recycle, SendFill, wallet
<1>14. CASE MoveFee \/ Start \/ StartFill \/ Started
  BY <1>1, <1>14 DEF MoveFee, Start, StartFill, Started, wallet
<1>15. ASSUME NEW tx \in pool, Mine(tx) \/ Drop(tx) PROVE WalletOK'
  BY <1>1, <1>15 DEF Mine, Drop, wallet
<1> HIDE DEF WalletOK, None
<1> QED BY <1>2, <1>3, <1>4, <1>5, <1>6, <1>7, <1>8, <1>9, <1>10, <1>11, <1>12, <1>13, <1>14, <1>15,
           Zenon DEF Next, JobStep

\* The pool after a send: the transaction is there or nothing changed.
LEMMA Sent ==
  ASSUME NEW tx, Accepts(tx) \/ Refuses(tx)
  PROVE  pool' = pool \/ pool' = pool \cup {tx}
BY Zenon DEF Accepts, Refuses

LEMMA PoolGrows ==
  ASSUME NodeOK, NEW tx \in Txs, mined' = mined, pool' = pool \/ pool' = pool \cup {tx}
  PROVE  NodeOK'
<1>1. IsFiniteSet(pool') BY FS_AddElement, SMTT(60) DEF NodeOK
<1>2. pool' \subseteq Txs BY DEF NodeOK
<1> QED BY <1>1, <1>2 DEF NodeOK

LEMMA TxTypes ==
  ASSUME TypeOK
  PROVE  /\ \A s \in Sweeps : FundTx(s) \in Txs /\ SweepTx(s) \in Txs
         /\ FillTx(job.v) \in Txs
         /\ \A o \in Others : Tx("other", o, other[o].nonce, 0) \in Txs
<1>1. ASSUME NEW s \in Sweeps PROVE FundTx(s) \in Txs /\ SweepTx(s) \in Txs
  <2>1. row[s].fn \in Int /\ row[s].fa \in Int /\ row[s].an \in Int /\ row[s].amt \in Int
    BY DEF TypeOK, RowsOK, Row
  <2> QED BY <2>1 DEF FundTx, SweepTx, Tx, Txs
<1>2. FillTx(job.v) \in Txs
  <2>1. job.v \in Int BY DEF TypeOK, RowsOK, Jobs
  <2> QED BY <2>1 DEF FillTx, Tx, Txs
<1>3. ASSUME NEW o \in Others PROVE Tx("other", o, other[o].nonce, 0) \in Txs
  <2>1. other[o].nonce \in Int BY DEF TypeOK, WalletOK
  <2> QED BY <2>1 DEF Tx, Txs
<1> QED BY <1>1, <1>2, <1>3

LEMMA NodeStep == ASSUME TypeOK, Rows, [Next]_vars PROVE NodeOK'
<1>0. NodeOK BY DEF TypeOK
<1>1. ASSUME UNCHANGED <<pool, mined>> PROVE NodeOK' BY <1>0, <1>1 DEF NodeOK
<1>2. ASSUME NEW tx \in Txs, mined' = mined, Accepts(tx) \/ Refuses(tx) PROVE NodeOK'
  BY <1>0, <1>2, Sent, PoolGrows
<1>3. CASE SendFunding
  <2>1. job.s \in Sweeps BY <1>3, JobIsOpen DEF SendFunding, Funds
  <2> QED BY <1>2, <1>3, <2>1, TxTypes DEF SendFunding
<1>4. CASE SendSweep
  <2>1. job.s \in Sweeps BY <1>4, JobIsOpen DEF SendSweep, Sends
  <2> QED BY <1>2, <1>4, <2>1, TxTypes DEF SendSweep
<1>5. CASE SendFill BY <1>2, <1>5, TxTypes DEF SendFill
<1>6. ASSUME NEW s \in Sweeps, ResendFunding(s) \/ ResendSweep(s) PROVE NodeOK'
  BY <1>2, <1>6, TxTypes DEF ResendFunding, ResendSweep
<1>7. ASSUME NEW o \in Others, OtherSends(o) PROVE NodeOK' BY <1>2, <1>7, TxTypes DEF OtherSends
<1>8. ASSUME NEW tx \in pool, Mine(tx) PROVE NodeOK'
  <2>1. pool' = pool \ {tx} /\ tx \in Txs /\ Sender(tx) \in {"hot", "addr"}
    BY <1>0, <1>8 DEF Mine, NodeOK, Sender
  <2>2. PICK ok \in BOOLEAN : mined' = [mined EXCEPT ![Sender(tx)] = Append(@, [tx |-> tx, ok |-> ok])]
    BY <1>8 DEF Mine
  <2>3. [tx |-> tx, ok |-> ok] \in [tx : Txs, ok : BOOLEAN] BY <2>1
  <2>4. mined' \in [{"hot", "addr"} -> Seq([tx : Txs, ok : BOOLEAN])]
    <3>1. mined[Sender(tx)] \in Seq([tx : Txs, ok : BOOLEAN]) BY <1>0, <2>1 DEF NodeOK
    <3>2. Append(mined[Sender(tx)], [tx |-> tx, ok |-> ok]) \in Seq([tx : Txs, ok : BOOLEAN])
      BY <3>1, <2>3
    <3> QED BY <1>0, <2>1, <2>2, <3>2 DEF NodeOK
  <2>5. IsFiniteSet(pool') /\ pool' \subseteq Txs BY <1>0, <2>1, FS_RemoveElement DEF NodeOK
  <2> QED BY <2>4, <2>5 DEF NodeOK
<1>9. ASSUME NEW tx \in pool, Drop(tx) PROVE NodeOK'
  <2>1. pool' = pool \ {tx} /\ mined' = mined BY <1>9 DEF Drop
  <2>2. IsFiniteSet(pool') /\ pool' \subseteq Txs BY <1>0, <2>1, FS_RemoveElement DEF NodeOK
  <2> QED BY <1>0, <2>1, <2>2 DEF NodeOK
<1>10. CASE UNCHANGED vars BY <1>1, <1>10 DEF vars
<1>11. ASSUME NEW a \in Assets, Deposit(a) \/ Credit(a) \/ Gift(a) \/ \E s \in Sweeps : Plan(s, a)
       PROVE  NodeOK'
  BY <1>1, <1>11 DEF Deposit, Credit, Gift, Plan, node
<1>12. ASSUME NEW s \in Sweeps,
              FundGas(s) \/ TrackFunding(s) \/ BalanceChanged(s) \/ PinSweepNonce(s) \/ SendSigned(s)
              \/ Track(s)
       PROVE  NodeOK'
  BY <1>1, <1>12 DEF FundGas, TrackFunding, BalanceChanged, PinSweepNonce, SendSigned, Track, node
<1>13. CASE Release \/ ClearFunding \/ AlreadyFunded \/ PinFunding \/ SignFunding \/ SignFundingFails
            \/ RecordFunding \/ FundingRefused
  BY <1>1, <1>13 DEF Release, ClearFunding, AlreadyFunded, PinFunding, SignFunding, SignFundingFails,
       RecordFunding, FundingRefused, node
<1>14. CASE SignSweep \/ SignSweepFails \/ MarkBroadcast \/ SweepRefused \/ Recycle \/ StepBack \/ RecordFill
  BY <1>1, <1>14 DEF SignSweep, SignSweepFails, MarkBroadcast, SweepRefused, Recycle, StepBack,
       RecordFill, node
<1>15. CASE MoveFee \/ OtherAllocates \/ OtherCommits \/ Crash \/ Start \/ StartFill \/ Started
  BY <1>1, <1>15 DEF MoveFee, OtherAllocates, OtherCommits, Crash, Start, StartFill, Started, node
<1> QED BY <1>3, <1>4, <1>5, <1>6, <1>7, <1>8, <1>9, <1>10, <1>11, <1>12, <1>13, <1>14, <1>15,
           Zenon DEF Next, JobStep, SweepStep

-----------------------------------------------------------------------------
(* Postings.                                                               *)

Books == [eth : Int, tok : Int, gas : Int]

LEMMA TwoPosted ==
  ASSUME NEW k \in Books, NEW x \in Int, NEW y \in Int
  PROVE  /\ [k EXCEPT !.eth = x, !.gas = y] \in Books
         /\ [k EXCEPT !.eth = x, !.gas = y].eth = x /\ [k EXCEPT !.eth = x, !.gas = y].tok = k.tok
BY DEF Books

LEMMA Posts ==
  ASSUME book \in Books, NEW s \in Sweeps, row \in [Sweeps -> Row], NEW g \in Int
  PROVE  /\ GasFunded(s, g) => book' \in Books /\ book'.eth = book.eth + row[s].fa /\ book'.tok = book.tok
         /\ FailFunding(s, g) => book' \in Books /\ book'.eth = book.eth /\ book'.tok = book.tok
         /\ Fail(s, g) => book' \in Books /\ book'.eth = book.eth - g /\ book'.tok = book.tok
<1>0. row[s].fa \in Int BY DEF Row
<1> DEFINE v == row[s].fa
<1>1. ASSUME GasFunded(s, g)
      PROVE  book' \in Books /\ book'.eth = book.eth + v /\ book'.tok = book.tok
  <2> DEFINE b == [book EXCEPT !.eth = @ + v, !.gas = @ + g]
  <2>1. book' = b BY <1>1 DEF GasFunded
  <2>2. v \in Int BY <1>0
  <2>3. b \in Books /\ b.eth = book.eth + v /\ b.tok = book.tok
    <3>1. book.eth + v \in Int /\ book.gas + g \in Int BY <2>2 DEF Books
    <3> HIDE DEF v
    <3> QED BY <3>1, TwoPosted, ZenonT(60) DEF b
  <2> HIDE DEF b, v
  <2> QED BY <2>1, <2>3
<1>2. ASSUME FailFunding(s, g)
      PROVE  book' \in Books /\ book'.eth = book.eth /\ book'.tok = book.tok
  <2> DEFINE b == [book EXCEPT !.gas = @ + g]
  <2>1. book' = b BY <1>2 DEF FailFunding
  <2>2. b \in Books /\ b.eth = book.eth /\ b.tok = book.tok BY DEF Books
  <2> HIDE DEF b
  <2> QED BY <2>1, <2>2
<1>3. ASSUME Fail(s, g)
      PROVE  book' \in Books /\ book'.eth = book.eth - g /\ book'.tok = book.tok
  <2> DEFINE b == [book EXCEPT !.eth = @ - g, !.gas = @ + g]
  <2>1. book' = b BY <1>3 DEF Fail
  <2>2. b \in Books /\ b.eth = book.eth - g /\ b.tok = book.tok
    <3>1. book.eth - g \in Int /\ book.gas + g \in Int BY DEF Books
    <3> QED BY <3>1, TwoPosted, ZenonT(60)
  <2> HIDE DEF b
  <2> QED BY <2>1, <2>2
<1> QED BY <1>1, <1>2, <1>3

LEMMA ConfirmPosts ==
  ASSUME book \in Books, NEW s \in Sweeps, row \in [Sweeps -> Row],
         row[s].asset \in {"eth", "tok"}, Confirm(s)
  PROVE  /\ book' \in Books
         /\ book'.eth = book.eth - Cost - (IF row[s].asset = "eth" THEN row[s].amt ELSE 0)
         /\ book'.tok = book.tok - (IF row[s].asset = "tok" THEN row[s].amt ELSE 0)
<1> DEFINE v == row[s].amt
           a == row[s].asset
           moved == [book EXCEPT ![a] = @ - v]
<1>1. book' = [moved EXCEPT !.eth = @ - Cost, !.gas = @ + Cost] BY DEF Confirm
<1>2. v \in Int /\ Cost \in Int /\ a \in {"eth", "tok"}
  <2>1. row[s] \in Row /\ Cost \in Int BY SweepAssumption
  <2> QED BY <2>1 DEF Row
<1> HIDE DEF v, a
<1>3. CASE a = "eth"
  <2>1. moved \in Books /\ moved.eth = book.eth - v /\ moved.tok = book.tok BY <1>2, <1>3 DEF Books
  <2>m. PICK m \in Books : m = moved BY <2>1
  <2> HIDE DEF moved
  <2>2. book' \in Books /\ book'.eth = moved.eth - Cost /\ book'.tok = moved.tok
    <3> DEFINE b == [m EXCEPT !.eth = @ - Cost, !.gas = @ + Cost]
    <3>0. m.eth - Cost \in Int /\ m.gas + Cost \in Int BY <1>2, <2>m DEF Books
    <3>1. b \in Books /\ b.eth = m.eth - Cost /\ b.tok = m.tok
      <4>1. m \in Books BY <2>m
      <4> QED BY ONLY <4>1, <3>0, TwoPosted, ZenonT(60)
    <3>2. book' = b BY <1>1, <2>m
    <3> HIDE DEF b
    <3> QED BY <2>m, <3>1, <3>2
  <2>3. book'.eth = book.eth - Cost - v /\ book'.tok = book.tok - 0
    BY <1>2, <2>1, <2>2 DEF Books
  <2> QED BY <1>3, <2>2, <2>3 DEF v, a
<1>4. CASE a = "tok"
  <2>1. moved \in Books /\ moved.eth = book.eth /\ moved.tok = book.tok - v BY <1>2, <1>4 DEF Books
  <2>m. PICK m \in Books : m = moved BY <2>1
  <2> HIDE DEF moved
  <2>2. book' \in Books /\ book'.eth = moved.eth - Cost /\ book'.tok = moved.tok
    <3> DEFINE b == [m EXCEPT !.eth = @ - Cost, !.gas = @ + Cost]
    <3>0. m.eth - Cost \in Int /\ m.gas + Cost \in Int BY <1>2, <2>m DEF Books
    <3>1. b \in Books /\ b.eth = m.eth - Cost /\ b.tok = m.tok
      <4>1. m \in Books BY <2>m
      <4> QED BY ONLY <4>1, <3>0, TwoPosted, ZenonT(60)
    <3>2. book' = b BY <1>1, <2>m
    <3> HIDE DEF b
    <3> QED BY <2>m, <3>1, <3>2
  <2>3. book'.eth = book.eth - Cost - 0 /\ book'.tok = book.tok - v
    BY <1>2, <2>1, <2>2 DEF Books
  <2> QED BY <1>4, <2>2, <2>3 DEF v, a
<1> QED BY <1>2, <1>3, <1>4

LEMMA CreditPosts ==
  ASSUME MoneyOK, NEW a \in Assets, Credit(a)
  PROVE  /\ book' \in Books
         /\ book'.eth = book.eth + (IF a = "eth" THEN coming[a] ELSE 0)
         /\ book'.tok = book.tok + (IF a = "tok" THEN coming[a] ELSE 0)
         /\ coming' = [coming EXCEPT ![a] = 0]
         /\ credited' = [credited EXCEPT ![a] = @ + coming[a]]
<1> DEFINE v == coming[a]
<1>1. a \in {"eth", "tok"} /\ v \in Int /\ book \in Books BY SweepAssumption DEF MoneyOK, Books
<1> DEFINE b == [book EXCEPT ![a] = @ + v]
<1>2. book' = b BY DEF Credit
<1> HIDE DEF v
<1>3. /\ b \in Books
      /\ b.eth = book.eth + (IF a = "eth" THEN v ELSE 0) /\ b.tok = book.tok + (IF a = "tok" THEN v ELSE 0)
  <2>1. CASE a = "eth"
    <3>1. b = [book EXCEPT !.eth = @ + v] BY <2>1
    <3>2. [book EXCEPT !.eth = @ + v] \in Books BY <1>1 DEF Books
    <3>3. [book EXCEPT !.eth = @ + v].eth = book.eth + v /\ [book EXCEPT !.eth = @ + v].tok = book.tok + 0
      BY <1>1 DEF Books
    <3> QED BY <2>1, <3>1, <3>2, <3>3
  <2>2. CASE a = "tok"
    <3>1. b = [book EXCEPT !.tok = @ + v] BY <2>2
    <3>2. [book EXCEPT !.tok = @ + v] \in Books BY <1>1 DEF Books
    <3>3. [book EXCEPT !.tok = @ + v].tok = book.tok + v /\ [book EXCEPT !.tok = @ + v].eth = book.eth + 0
      BY <1>1 DEF Books
    <3> QED BY <2>2, <3>1, <3>2, <3>3
  <2> QED BY <1>1, <2>1, <2>2
<1> HIDE DEF b
<1> QED BY <1>2, <1>3 DEF Credit, v

\* What mining a transaction does to the address.
LEMMA MinedHolds ==
  ASSUME TypeOK, NEW tx \in pool, tx.kind = "sweep" => tx.id \in Sweeps
  PROVE  /\ Succeeds(tx) =>
              /\ held' \in [{"eth", "tok"} -> Int]
              /\ held'["eth"] = held["eth"]
                   + (IF tx.kind = "fund" THEN tx.val ELSE 0)
                   - (IF tx.kind = "sweep" THEN Cost + (IF row[tx.id].asset = "eth" THEN tx.val ELSE 0) ELSE 0)
              /\ held'["tok"] = held["tok"]
                   - (IF tx.kind = "sweep" /\ row[tx.id].asset # "eth" THEN tx.val ELSE 0)
         /\ Reverts(tx) =>
              /\ held' \in [{"eth", "tok"} -> Int]
              /\ held'["eth"] = held["eth"] - (IF tx.kind = "sweep" THEN Cost ELSE 0)
              /\ held'["tok"] = held["tok"]
<1> DEFINE v == tx.val
           native == row[tx.id].asset = "eth"
<1>1. v \in Int /\ tx.kind \in {"fund", "sweep", "fill", "other"} BY DEF TypeOK, NodeOK, Txs
<1>2. Cost \in Int /\ held \in [{"eth", "tok"} -> Int] BY SweepAssumption DEF TypeOK, MoneyOK
<1> HIDE DEF v, native
<1>3. ASSUME Succeeds(tx), tx.kind = "fund" PROVE held' = [held EXCEPT !["eth"] = @ + v]
  BY <1>3 DEF Succeeds, v
<1>4. ASSUME Succeeds(tx), tx.kind = "sweep"
      PROVE  held' = IF native THEN [held EXCEPT !["eth"] = @ - v - Cost]
                     ELSE [held EXCEPT !["eth"] = @ - Cost, !["tok"] = @ - v]
  BY <1>4 DEF Succeeds, v, native
<1>5. ASSUME Succeeds(tx), tx.kind \in {"fill", "other"} PROVE held' = held
  BY <1>5 DEF Succeeds
<1>6. ASSUME Reverts(tx)
      PROVE  held' = IF tx.kind = "sweep" THEN [held EXCEPT !["eth"] = @ - Cost] ELSE held
  BY <1>6 DEF Reverts
<1>7. ASSUME Succeeds(tx)
      PROVE  /\ held' \in [{"eth", "tok"} -> Int]
             /\ held'["eth"] = held["eth"]
                  + (IF tx.kind = "fund" THEN v ELSE 0)
                  - (IF tx.kind = "sweep" THEN Cost + (IF native THEN v ELSE 0) ELSE 0)
             /\ held'["tok"] = held["tok"] - (IF tx.kind = "sweep" /\ ~native THEN v ELSE 0)
  <2>1. CASE tx.kind = "fund" BY <1>1, <1>2, <1>3, <1>7, <2>1
  <2>2. CASE tx.kind = "sweep" /\ native BY <1>1, <1>2, <1>4, <1>7, <2>2
  <2>3. CASE tx.kind = "sweep" /\ ~native BY <1>1, <1>2, <1>4, <1>7, <2>3
  <2>4. CASE tx.kind \in {"fill", "other"} BY <1>1, <1>2, <1>5, <1>7, <2>4
  <2> QED BY <1>1, <2>1, <2>2, <2>3, <2>4
<1>8. ASSUME Reverts(tx)
      PROVE  /\ held' \in [{"eth", "tok"} -> Int]
             /\ held'["eth"] = held["eth"] - (IF tx.kind = "sweep" THEN Cost ELSE 0)
             /\ held'["tok"] = held["tok"]
  BY <1>1, <1>2, <1>6, <1>8
<1> QED BY <1>7, <1>8 DEF v, native

LEMMA MoneyStep ==
  ASSUME TypeOK, Rows, [Next]_vars,
         \A tx \in pool : tx.kind = "sweep" => tx.id \in Sweeps
  PROVE  MoneyOK'
<1>0. /\ MoneyOK /\ row \in [Sweeps -> Row] /\ book \in Books /\ Cost \in Int /\ 0 \in Int
      /\ Assets \subseteq {"eth", "tok"}
  BY SweepAssumption DEF TypeOK, MoneyOK, RowsOK, Books
<1>1. ASSUME UNCHANGED <<held, unseen, coming, credited, book, fee>> PROVE MoneyOK'
  BY <1>0, <1>1 DEF MoneyOK
<1>2. ASSUME UNCHANGED <<held, unseen, coming, credited, fee>>, book' \in Books PROVE MoneyOK'
  BY <1>0, <1>2 DEF MoneyOK, Books
<1>3. ASSUME NEW a \in Assets, Deposit(a) PROVE MoneyOK'
  <2>1. DepositAmount[a] \in Nat /\ a \in {"eth", "tok"} BY SweepAssumption, <1>0
  <2> QED BY <1>0, <1>3, <2>1 DEF MoneyOK, Deposit
<1>4. ASSUME NEW a \in Assets, Credit(a) PROVE MoneyOK'
  <2>1. /\ book' \in Books /\ coming' = [coming EXCEPT ![a] = 0]
        /\ credited' = [credited EXCEPT ![a] = @ + coming[a]]
    BY <1>0, <1>4, CreditPosts
  <2> QED BY <1>0, <1>4, <2>1 DEF MoneyOK, Credit, Books, node
<1>5. ASSUME NEW a \in Assets, Gift(a) PROVE MoneyOK' BY <1>0, <1>5 DEF MoneyOK, Gift
<1>6. CASE MoveFee BY <1>0, <1>6 DEF MoneyOK, MoveFee, node, users
<1>7. ASSUME NEW a \in Assets, NEW s \in Sweeps, Plan(s, a) PROVE MoneyOK'
  BY <1>1, <1>7 DEF Plan, node, users
<1>8. ASSUME NEW s \in Sweeps, TrackFunding(s) PROVE MoneyOK'
  <2>1. GasFunded(s, Cost) \/ FailFunding(s, Cost) BY <1>8 DEF TrackFunding
  <2>2. book' \in Books BY <1>0, <2>1, Posts
  <2> QED BY <1>2, <1>8, <2>2 DEF TrackFunding, node, users
<1>9. ASSUME NEW s \in Sweeps, BalanceChanged(s) PROVE MoneyOK'
  <2>1. book' \in Books BY <1>0, <1>9, Posts DEF BalanceChanged
  <2> QED BY <1>2, <1>9, <2>1 DEF BalanceChanged, node, users
<1>10. ASSUME NEW s \in Sweeps, Track(s) PROVE MoneyOK'
  <2>1. row[s].asset \in {"eth", "tok"} BY <1>0, <1>10 DEF Track, Ready, Rows, RowInv
  <2>2. Confirm(s) \/ Fail(s, Cost) BY <1>10 DEF Track
  <2>3. book' \in Books BY <1>0, <2>1, <2>2, Posts, ConfirmPosts
  <2> QED BY <1>2, <1>10, <2>3 DEF Track, node, users
<1>11. CASE AlreadyFunded
  <2>1. job.s \in Sweeps BY <1>11, JobIsOpen DEF AlreadyFunded, Funds, Clean
  <2>2. book' \in Books BY <1>0, <1>11, <2>1, Posts DEF AlreadyFunded
  <2> QED BY <1>2, <1>11, <2>2 DEF AlreadyFunded, node, users
<1>12. CASE FundingRefused
  <2>1. job.s \in Sweeps BY <1>12, JobIsOpen DEF FundingRefused, Funds, Clean
  <2>2. book' \in Books BY <1>0, <1>12, <2>1, Posts DEF FundingRefused
  <2> QED BY <1>2, <1>12, <2>2 DEF FundingRefused, node, users
<1>13. CASE SweepRefused
  <2>1. job.s \in Sweeps BY <1>13, JobIsOpen DEF SweepRefused, Sends
  <2>2. book' \in Books BY <1>0, <1>13, <2>1, Posts DEF SweepRefused
  <2> QED BY <1>2, <1>13, <2>2 DEF SweepRefused, node, users
<1>14. ASSUME NEW tx \in pool, Mine(tx) PROVE MoneyOK'
  <2>1. Succeeds(tx) \/ Reverts(tx) BY <1>14 DEF Mine
  <2>2. held' \in [{"eth", "tok"} -> Int] BY <2>1, MinedHolds
  <2> QED BY <1>0, <1>14, <2>2 DEF MoneyOK, Mine, users
<1>15. ASSUME NEW s \in Sweeps,
              FundGas(s) \/ ResendFunding(s) \/ PinSweepNonce(s) \/ SendSigned(s) \/ ResendSweep(s)
       PROVE  MoneyOK'
  BY <1>1, <1>15 DEF FundGas, ResendFunding, PinSweepNonce, SendSigned, ResendSweep, node, users
<1>16. CASE Release \/ ClearFunding \/ PinFunding \/ SignFunding \/ SignFundingFails
            \/ RecordFunding \/ SendFunding
  BY <1>1, <1>16 DEF Release, ClearFunding, PinFunding, SignFunding, SignFundingFails,
       RecordFunding, SendFunding, node, users
<1>17. CASE SignSweep \/ SignSweepFails \/ SendSweep \/ MarkBroadcast \/ Recycle \/ StepBack
            \/ RecordFill \/ SendFill
  BY <1>1, <1>17 DEF SignSweep, SignSweepFails, SendSweep, MarkBroadcast, Recycle, StepBack,
       RecordFill, SendFill, node, users
<1>18. CASE OtherAllocates \/ OtherCommits \/ Crash \/ Start \/ StartFill \/ Started
  BY <1>1, <1>18 DEF OtherAllocates, OtherCommits, Crash, Start, StartFill, Started, node, users
<1>19. ASSUME NEW o \in Others, OtherSends(o) PROVE MoneyOK' BY <1>1, <1>19 DEF OtherSends, users
<1>20. ASSUME NEW tx \in pool, Drop(tx) PROVE MoneyOK' BY <1>1, <1>20 DEF Drop, users
<1>21. CASE UNCHANGED vars BY <1>1, <1>21 DEF vars
<1> QED BY <1>3, <1>4, <1>5, <1>6, <1>7, <1>8, <1>9, <1>10, <1>11, <1>12, <1>13, <1>14, <1>15,
           <1>16, <1>17, <1>18, <1>19, <1>20, <1>21, Zenon DEF Next, JobStep, SweepStep

-----------------------------------------------------------------------------
(* What a step may do to a row.                                            *)

\* What was signed and recorded is not touched again.
Stays(s) ==
  /\ row[s].fsigned => KeptFunding(s)
  /\ row[s].signed => KeptPlan(s) /\ KeptSweep(s)

Planned(s) ==
  /\ row[s].st = "none" /\ Open = {} /\ row'[s].st = "requested" /\ row'[s].asset \in Assets
  /\ row'[s].amt = Sweepable(row'[s].asset) /\ row'[s].amt > 0
Prepared(s) == KeptPlan(s) /\ row'[s].st = row[s].st /\ row'[s].gas = row[s].gas
Advanced(s) == KeptPlan(s) /\ s \in Open /\ row'[s].st \in {"gas_funded", "broadcast", "failed"}
Collected(s) == KeptPlan(s) /\ s \in Open /\ row'[s].st = "confirmed" /\ row'[s].gas = Cost

Change(s) == Kept(s) /\ Stays(s) /\ (Planned(s) \/ Prepared(s) \/ Advanced(s) \/ Collected(s))

\* Every statement of the sweeper, by the row it writes.
LEMMA RowWrites ==
  ASSUME TypeOK, Rows
  PROVE  /\ \A s \in Sweeps : \A a \in Assets : Plan(s, a) => Change(s) /\ Planned(s)
         /\ \A s \in Sweeps : TrackFunding(s) =>
              /\ Change(s) /\ Advanced(s) /\ KeptFunding(s) /\ KeptSweep(s)
              /\ row'[s].st = IF Succeeded(FundTx(s)) THEN "gas_funded" ELSE "failed"
         /\ \A s \in Sweeps : BalanceChanged(s) => Change(s) /\ Advanced(s) /\ row'[s].st = "failed"
         /\ \A s \in Sweeps : PinSweepNonce(s) =>
              Change(s) /\ Prepared(s) /\ KeptFunding(s) /\ row'[s].signed = row[s].signed
         /\ \A s \in Sweeps : Track(s) =>
              /\ Change(s) /\ KeptFunding(s) /\ KeptSweep(s) /\ KeptPlan(s)
              /\ row'[s].st = IF Succeeded(SweepTx(s)) THEN "confirmed" ELSE "failed"
         /\ ClearFunding =>
              /\ job.s \in Sweeps /\ Change(job.s) /\ Prepared(job.s) /\ KeptSweep(job.s)
              /\ ~row[job.s].fsigned /\ ~row'[job.s].fsigned /\ row'[job.s].fn = None
         /\ AlreadyFunded =>
              /\ job.s \in Sweeps /\ Change(job.s) /\ Advanced(job.s) /\ KeptFunding(job.s) /\ KeptSweep(job.s)
              /\ row[job.s].st = "requested" /\ row'[job.s].st = "gas_funded"
         /\ PinFunding => row' = row \/
              /\ job.s \in Sweeps /\ Change(job.s) /\ Prepared(job.s) /\ KeptSweep(job.s)
              /\ ~row[job.s].fsigned /\ ~row'[job.s].fsigned /\ row'[job.s].fn = nextNonce
         /\ RecordFunding =>
              /\ job.s \in Sweeps /\ Change(job.s) /\ Prepared(job.s) /\ KeptSweep(job.s)
              /\ ~row[job.s].fsigned /\ row'[job.s].fn = row[job.s].fn /\ row'[job.s].fa = row[job.s].fa
              /\ row[job.s].st = "requested"
         /\ FundingRefused =>
              /\ job.s \in Sweeps /\ Change(job.s) /\ Advanced(job.s) /\ KeptFunding(job.s) /\ KeptSweep(job.s)
              /\ row'[job.s].st = "failed"
         /\ SignSweep =>
              /\ job.s \in Sweeps /\ Change(job.s) /\ Prepared(job.s) /\ KeptFunding(job.s)
              /\ ~row[job.s].signed /\ row'[job.s].an = row[job.s].an
         /\ MarkBroadcast =>
              /\ job.s \in Sweeps /\ Change(job.s) /\ Advanced(job.s) /\ KeptFunding(job.s) /\ KeptSweep(job.s)
              /\ row'[job.s].st = "broadcast"
         /\ SweepRefused =>
              /\ job.s \in Sweeps /\ Change(job.s) /\ Advanced(job.s) /\ KeptFunding(job.s) /\ KeptSweep(job.s)
              /\ row'[job.s].st = "failed"
<1> USE DEF Change, Stays
<1>0. /\ row \in [Sweeps -> Row] /\ job \in Jobs /\ Cost \in Int /\ 0 \in Int /\ None \in Int
      /\ nextNonce \in Int
  BY SweepAssumption DEF TypeOK, RowsOK, WalletOK, None
<1>v. job.v \in Int BY <1>0 DEF Jobs
<1>1. ASSUME NEW s \in Sweeps, NEW a \in Assets, Plan(s, a) PROVE Change(s) /\ Planned(s)
  <2>1. /\ row[s].st = "none" /\ Open = {} /\ Sweepable(a) > 0
        /\ row' = [row EXCEPT ![s] = [@ EXCEPT !.st = "requested", !.asset = a, !.amt = Sweepable(a)]]
    BY <1>1 DEF Plan
  <2>2. Sweepable(a) \in Int /\ a \in {"eth", "tok"} BY SweepableBound DEF TypeOK
  <2>3. /\ Kept(s) /\ KeptFunding(s) /\ KeptSweep(s)
        /\ row'[s].st = "requested" /\ row'[s].asset = a /\ row'[s].amt = Sweepable(a)
    BY <1>0, <2>1, <2>2, WritePlan
  <2>4. ~row[s].signed BY <2>1 DEF Rows, RowInv
  <2> QED BY <2>1, <2>3, <2>4 DEF Planned
<1>2. ASSUME NEW s \in Sweeps, NEW x \in {"gas_funded", "broadcast", "confirmed", "failed"},
             row' = [row EXCEPT ![s].st = x]
      PROVE  /\ Kept(s) /\ KeptPlan(s) /\ KeptFunding(s) /\ KeptSweep(s) /\ row'[s].st = x
  BY <1>0, <1>2, WriteState
<1>3. ASSUME NEW s \in Sweeps, NEW x \in {"confirmed", "failed"}, NEW g \in Int,
             row' = [row EXCEPT ![s].st = x, ![s].gas = g]
      PROVE  /\ Kept(s) /\ KeptPlan(s) /\ KeptFunding(s) /\ KeptSweep(s)
             /\ row'[s].st = x /\ row'[s].gas = g
  BY <1>0, <1>3, WriteEnd
<1>4. ASSUME NEW s \in Sweeps, TrackFunding(s)
      PROVE  /\ Change(s) /\ Advanced(s) /\ KeptFunding(s) /\ KeptSweep(s)
             /\ row'[s].st = IF Succeeded(FundTx(s)) THEN "gas_funded" ELSE "failed"
  <2>1. /\ row[s].st = "requested"
        /\ row' = [row EXCEPT ![s].st = IF Succeeded(FundTx(s)) THEN "gas_funded" ELSE "failed"]
    BY <1>4 DEF TrackFunding, Tracking, Ready, GasFunded, FailFunding
  <2>2. s \in Open BY <2>1 DEF Open
  <2> QED BY <1>2, <2>1, <2>2 DEF Advanced
<1>5. ASSUME NEW s \in Sweeps, BalanceChanged(s) PROVE Change(s) /\ Advanced(s) /\ row'[s].st = "failed"
  <2>1. s \in Open /\ row' = [row EXCEPT ![s].st = "failed", ![s].gas = 0]
    BY <1>5 DEF BalanceChanged, ToSend, Ready, Fail, Open
  <2> QED BY <1>0, <1>3, <2>1 DEF Advanced
<1>6. ASSUME NEW s \in Sweeps, PinSweepNonce(s)
      PROVE  Change(s) /\ Prepared(s) /\ KeptFunding(s) /\ row'[s].signed = row[s].signed
  <2> DEFINE n == IF row[s].an = None THEN PendingNonce("addr") ELSE row[s].an
  <2>1. ~row[s].signed /\ row' = [row EXCEPT ![s].an = n] BY <1>6 DEF PinSweepNonce
  <2>2. n \in Int
    <3>1. row[s].an \in Int BY <1>0 DEF Row
    <3> QED BY <3>1, PendingIsNonce DEF TypeOK
  <2> HIDE DEF n
  <2> QED BY <1>0, <2>1, <2>2, WriteNonce DEF Prepared
<1>7. ASSUME NEW s \in Sweeps, Track(s)
      PROVE  /\ Change(s) /\ KeptFunding(s) /\ KeptSweep(s) /\ KeptPlan(s)
             /\ row'[s].st = IF Succeeded(SweepTx(s)) THEN "confirmed" ELSE "failed"
  <2>1. /\ s \in Open
        /\ row' = [row EXCEPT ![s].st = IF Succeeded(SweepTx(s)) THEN "confirmed" ELSE "failed", ![s].gas = Cost]
    BY <1>7 DEF Track, Ready, Confirm, Fail, Open
  <2>2. CASE Succeeded(SweepTx(s)) BY <1>0, <1>3, <2>1, <2>2 DEF Collected
  <2>3. CASE ~Succeeded(SweepTx(s)) BY <1>0, <1>3, <2>1, <2>3 DEF Advanced
  <2> QED BY <2>2, <2>3
<1>8. ASSUME Funds \/ Sends PROVE job.s \in Sweeps /\ job.s \in Open BY <1>8, JobIsOpen
<1>9. ASSUME job.at \in Clean PROVE job.s \in Sweeps /\ ~row[job.s].fsigned /\ row[job.s].st = "requested"
  BY <1>9 DEF Rows, JobInv, Funds
<1>10. ASSUME ClearFunding
       PROVE  /\ job.s \in Sweeps /\ Change(job.s) /\ Prepared(job.s) /\ KeptSweep(job.s)
              /\ ~row[job.s].fsigned /\ ~row'[job.s].fsigned /\ row'[job.s].fn = None
  <2>1. job.at \in Clean /\ row' = [row EXCEPT ![job.s].fn = None, ![job.s].fa = 0]
    BY <1>10 DEF ClearFunding, Clean
  <2> QED BY <1>0, <1>9, <2>1, WriteFunding, Zenon DEF Prepared
<1>11. ASSUME AlreadyFunded
       PROVE  /\ job.s \in Sweeps /\ Change(job.s) /\ Advanced(job.s) /\ KeptFunding(job.s) /\ KeptSweep(job.s)
              /\ row[job.s].st = "requested" /\ row'[job.s].st = "gas_funded"
  <2>1. job.at \in Clean /\ row' = [row EXCEPT ![job.s].st = "gas_funded"]
    BY <1>11 DEF AlreadyFunded, GasFunded, Clean
  <2> QED BY <1>2, <1>8, <1>9, <2>1 DEF Advanced, Funds
<1>12. ASSUME PinFunding, row' # row
       PROVE  /\ job.s \in Sweeps /\ Change(job.s) /\ Prepared(job.s) /\ KeptSweep(job.s)
              /\ ~row[job.s].fsigned /\ ~row'[job.s].fsigned /\ row'[job.s].fn = nextNonce
  <2>1. job.at \in Clean /\ row' = [row EXCEPT ![job.s].fn = nextNonce, ![job.s].fa = job.v]
    BY <1>12 DEF PinFunding, Clean
  <2> QED BY <1>0, <1>v, <1>9, <2>1, WriteFunding, Zenon DEF Prepared
<1>13. ASSUME RecordFunding
       PROVE  /\ job.s \in Sweeps /\ Change(job.s) /\ Prepared(job.s) /\ KeptSweep(job.s)
              /\ ~row[job.s].fsigned /\ row'[job.s].fn = row[job.s].fn /\ row'[job.s].fa = row[job.s].fa
              /\ row[job.s].st = "requested"
  <2>1. job.at = "record" /\ row' = [row EXCEPT ![job.s].fsigned = TRUE, ![job.s].fa = job.v]
    BY <1>13 DEF RecordFunding
  <2>2. job.at \in Clean BY <2>1 DEF Clean
  <2>3. job.v = row[job.s].fa BY <2>1, <2>2 DEF Rows, JobInv, Funds
  <2>4. /\ Kept(job.s) /\ KeptPlan(job.s) /\ KeptSweep(job.s)
        /\ row'[job.s].st = row[job.s].st /\ row'[job.s].gas = row[job.s].gas
        /\ row'[job.s].fn = row[job.s].fn /\ row'[job.s].fa = job.v
    BY <1>0, <1>v, <1>9, <2>1, <2>2, WriteFunded, Zenon
  <2> QED BY <1>9, <2>2, <2>3, <2>4 DEF Prepared
<1>14. ASSUME FundingRefused
       PROVE  /\ job.s \in Sweeps /\ Change(job.s) /\ Advanced(job.s) /\ KeptFunding(job.s) /\ KeptSweep(job.s)
              /\ row'[job.s].st = "failed"
  <2>1. job.at = "failfunding" /\ row' = [row EXCEPT ![job.s].st = "failed"]
    BY <1>14 DEF FundingRefused, FailFunding
  <2> QED BY <1>2, <1>8, <2>1 DEF Advanced, Funds
<1>15. ASSUME SignSweep
       PROVE  /\ job.s \in Sweeps /\ Change(job.s) /\ Prepared(job.s) /\ KeptFunding(job.s)
              /\ ~row[job.s].signed /\ row'[job.s].an = row[job.s].an
  <2>1. job.at = "signsweep" /\ row' = [row EXCEPT ![job.s].signed = TRUE] BY <1>15 DEF SignSweep
  <2>2. job.s \in Sweeps /\ ~row[job.s].signed BY <2>1 DEF Rows, JobInv, Sends
  <2> QED BY <1>0, <2>1, <2>2, WriteSigned, Zenon DEF Prepared
<1>16. ASSUME MarkBroadcast
       PROVE  /\ job.s \in Sweeps /\ Change(job.s) /\ Advanced(job.s) /\ KeptFunding(job.s) /\ KeptSweep(job.s)
              /\ row'[job.s].st = "broadcast"
  <2>1. job.at = "mark" /\ row' = [row EXCEPT ![job.s].st = "broadcast"] BY <1>16 DEF MarkBroadcast
  <2> QED BY <1>2, <1>8, <2>1 DEF Advanced, Sends
<1>17. ASSUME SweepRefused
       PROVE  /\ job.s \in Sweeps /\ Change(job.s) /\ Advanced(job.s) /\ KeptFunding(job.s) /\ KeptSweep(job.s)
              /\ row'[job.s].st = "failed"
  <2>1. job.at = "refused" /\ row' = [row EXCEPT ![job.s].st = "failed", ![job.s].gas = 0]
    BY <1>17 DEF SweepRefused, Fail
  <2> QED BY <1>0, <1>3, <1>8, <2>1 DEF Advanced, Sends
<1> HIDE DEF Change, Stays
<1> QED BY <1>1, <1>4, <1>5, <1>6, <1>7, <1>10, <1>11, <1>12, <1>13, <1>14, <1>15, <1>16, <1>17, Zenon

\* A step writes one row at most.
LEMMA RowChanges ==
  ASSUME TypeOK, Rows, [Next]_vars
  PROVE  row' = row \/ \E s \in Sweeps : Change(s)
<1>1. CASE UNCHANGED vars BY <1>1 DEF vars
<1>2. ASSUME NEW a \in Assets, Deposit(a) \/ Credit(a) \/ Gift(a) PROVE row' = row
  BY <1>2 DEF Deposit, Credit, Gift
<1>3. ASSUME NEW s \in Sweeps, SweepStep(s) PROVE row' = row \/ \E t \in Sweeps : Change(t)
  <2>1. CASE FundGas(s) \/ ResendFunding(s) \/ SendSigned(s) \/ ResendSweep(s)
    BY <2>1 DEF FundGas, ResendFunding, SendSigned, ResendSweep
  <2>2. CASE TrackFunding(s) \/ BalanceChanged(s) \/ PinSweepNonce(s) \/ Track(s)
    BY <2>2, RowWrites
  <2> QED BY <1>3, <2>1, <2>2 DEF SweepStep
<1>4. CASE JobStep
  <2>1. CASE Release \/ SignFunding \/ SignFundingFails \/ SendFunding \/ SignSweepFails \/ SendSweep
             \/ Recycle \/ StepBack \/ RecordFill \/ SendFill
    BY <2>1 DEF Release, SignFunding, SignFundingFails, SendFunding, SignSweepFails, SendSweep,
                Recycle, StepBack, RecordFill, SendFill
  <2>2. CASE ClearFunding \/ AlreadyFunded \/ PinFunding \/ RecordFunding \/ FundingRefused
             \/ SignSweep \/ MarkBroadcast \/ SweepRefused
    BY <2>2, RowWrites
  <2> QED BY <1>4, <2>1, <2>2 DEF JobStep
<1>5. CASE MoveFee \/ OtherAllocates \/ OtherCommits \/ Crash \/ Start \/ StartFill \/ Started
  BY <1>5 DEF MoveFee, OtherAllocates, OtherCommits, Crash, Start, StartFill, Started
<1>6. ASSUME NEW o \in Others, OtherSends(o) PROVE row' = row BY <1>6 DEF OtherSends
<1>7. ASSUME NEW tx \in pool, Mine(tx) \/ Drop(tx) PROVE row' = row BY <1>7 DEF Mine, Drop
<1>8. ASSUME NEW a \in Assets, NEW s \in Sweeps, Plan(s, a) PROVE Change(s) BY <1>8, RowWrites
<1> QED BY <1>1, <1>2, <1>3, <1>4, <1>5, <1>6, <1>7, <1>8, Zenon DEF Next

-----------------------------------------------------------------------------
(* Transactions.                                                           *)

LEMMA GenuineStays ==
  ASSUME TypeOK, Rows, [Next]_vars, NEW tx, Genuine(tx)
  PROVE  Genuine(tx)'
<1>1. CASE row' = row BY <1>1 DEF Genuine, FundTx, SweepTx
<1>2. ASSUME NEW s \in Sweeps, Change(s) PROVE Genuine(tx)'
  <2>1. Kept(s) /\ Stays(s) BY <1>2 DEF Change
  <2>2. CASE tx.id # s /\ tx.id \in Sweeps
    <3>1. row'[tx.id] = row[tx.id] BY <2>1, <2>2 DEF Kept
    <3> QED BY <3>1 DEF Genuine, FundTx, SweepTx
  <2>3. CASE tx.id = s
    BY <2>1, <2>3 DEF Genuine, FundTx, SweepTx, Stays, KeptFunding, KeptPlan, KeptSweep
  <2>4. CASE tx.id \notin Sweeps BY <2>4 DEF Genuine
  <2> QED BY <2>2, <2>3, <2>4
<1> QED BY <1>1, <1>2, RowChanges

LEMMA MinedNonce ==
  ASSUME NodeOK, ChainInv, NEW tx, Mined(tx)
  PROVE  tx.nonce < Len(mined[Sender(tx)])
<1>1. Sender(tx) \in {"hot", "addr"} BY DEF Sender
<1>2. PICK i \in DOMAIN mined[Sender(tx)] : mined[Sender(tx)][i].tx = tx BY DEF Mined
<1>3. tx.nonce = i - 1 BY <1>1, <1>2 DEF ChainInv
<1>4. i \in 1..Len(mined[Sender(tx)]) /\ Len(mined[Sender(tx)]) \in Nat
  <2>1. mined[Sender(tx)] \in Seq([tx : Txs, ok : BOOLEAN]) BY <1>1 DEF NodeOK
  <2> QED BY <1>2, <2>1
<1> QED BY <1>3, <1>4

LEMMA UnknownNotMined ==
  ASSUME NodeOK, ChainInv, NEW tx, ~Known(tx)
  PROVE  ~Mined(tx) /\ tx \notin pool
BY MinedNonce DEF Known

\* What a send may add.
LEMMA ChainGrows ==
  ASSUME TypeOK, Rows, ChainInv, [Next]_vars, NEW tx, Genuine(tx), Accepts(tx) \/ Refuses(tx),
         mined' = mined
  PROVE  ChainInv'
<1>1. pool' = pool \/ (pool' = pool \cup {tx} /\ ~Known(tx)) BY DEF Accepts, Refuses
<1>2. \A t : Mined(t)' <=> Mined(t) BY DEF Mined
<1>3. \A t \in pool' : Genuine(t) /\ ~Mined(t) BY <1>1, UnknownNotMined DEF ChainInv, TypeOK
<1>4. \A t \in pool' : Genuine(t)' /\ ~Mined(t)' BY <1>2, <1>3, GenuineStays
<1>5. \A a \in {"hot", "addr"} : \A i \in DOMAIN mined[a] : Genuine(mined[a][i].tx)'
  BY GenuineStays DEF ChainInv
<1> QED BY <1>4, <1>5 DEF ChainInv

LEMMA ChainStays ==
  ASSUME TypeOK, Rows, ChainInv, [Next]_vars, mined' = mined, pool' \subseteq pool
  PROVE  ChainInv'
<1>1. \A t : Mined(t)' <=> Mined(t) BY DEF Mined
<1>2. \A t \in pool' : Genuine(t)' /\ ~Mined(t)' BY <1>1, GenuineStays DEF ChainInv
<1>3. \A a \in {"hot", "addr"} : \A i \in DOMAIN mined[a] : Genuine(mined[a][i].tx)'
  BY GenuineStays DEF ChainInv
<1> QED BY <1>2, <1>3 DEF ChainInv

\* Mining puts one transaction at the end of its sender's.
LEMMA MinesOne ==
  ASSUME TypeOK, NEW tx \in pool, Mine(tx)
  PROVE  \E ok \in BOOLEAN :
           LET a == Sender(tx) IN
           /\ a \in {"hot", "addr"} /\ tx.nonce = Len(mined[a]) /\ Len(mined[a]) \in Nat
           /\ \A b \in {"hot", "addr"} \ {a} : mined'[b] = mined[b]
           /\ DOMAIN mined[a] = 1..Len(mined[a])
           /\ DOMAIN mined'[a] = 1..(Len(mined[a]) + 1)
           /\ Len(mined'[a]) = Len(mined[a]) + 1
           /\ \A i \in DOMAIN mined[a] : mined'[a][i] = mined[a][i]
           /\ mined'[a][Len(mined[a]) + 1] = [tx |-> tx, ok |-> ok]
           /\ IF ok THEN Succeeds(tx) ELSE Reverts(tx) /\ tx.kind \in {"fund", "sweep"}
<1> DEFINE a == Sender(tx)
<1>1. a \in {"hot", "addr"} BY DEF Sender
<1>2. PICK ok \in BOOLEAN :
        /\ mined' = [mined EXCEPT ![a] = Append(@, [tx |-> tx, ok |-> ok])]
        /\ IF ok THEN Succeeds(tx) ELSE Reverts(tx) /\ tx.kind \in {"fund", "sweep"}
  BY DEF Mine
<1>3. tx.nonce = Len(mined[a]) BY DEF Mine
<1>4. mined[a] \in Seq([tx : Txs, ok : BOOLEAN]) /\ mined \in [{"hot", "addr"} -> Seq([tx : Txs, ok : BOOLEAN])]
  BY <1>1 DEF TypeOK, NodeOK
<1> DEFINE e == [tx |-> tx, ok |-> ok]
<1>5. e \in [tx : Txs, ok : BOOLEAN] BY DEF TypeOK, NodeOK
<1> HIDE DEF a, e
<1>6. mined'[a] = Append(mined[a], e) /\ \A b \in {"hot", "addr"} \ {a} : mined'[b] = mined[b]
  BY <1>1, <1>2, <1>4 DEF e
<1>7. /\ Len(mined[a]) \in Nat /\ DOMAIN mined[a] = 1..Len(mined[a])
      /\ DOMAIN mined'[a] = 1..(Len(mined[a]) + 1) /\ Len(mined'[a]) = Len(mined[a]) + 1
      /\ \A i \in DOMAIN mined[a] : mined'[a][i] = mined[a][i]
      /\ mined'[a][Len(mined[a]) + 1] = e
  BY <1>4, <1>5, <1>6
<1> QED BY <1>1, <1>2, <1>3, <1>6, <1>7, Zenon DEF a, e

\* What is mined afterwards: what was, and the transaction.
LEMMA MinedThen ==
  ASSUME TypeOK, NEW tx \in pool, Mine(tx), NEW t
  PROVE  /\ Mined(t)' <=> Mined(t) \/ t = tx
         /\ t # tx => (Succeeded(t)' <=> Succeeded(t))
         /\ Succeeds(tx) \/ Reverts(tx)
<1> DEFINE a == Sender(tx)
<1>1. PICK ok \in BOOLEAN :
        /\ a \in {"hot", "addr"} /\ Len(mined[a]) \in Nat
        /\ \A b \in {"hot", "addr"} \ {a} : mined'[b] = mined[b]
        /\ DOMAIN mined[a] = 1..Len(mined[a])
        /\ DOMAIN mined'[a] = 1..(Len(mined[a]) + 1)
        /\ \A i \in DOMAIN mined[a] : mined'[a][i] = mined[a][i]
        /\ mined'[a][Len(mined[a]) + 1] = [tx |-> tx, ok |-> ok]
        /\ Succeeds(tx) \/ Reverts(tx)
  BY MinesOne
<1>2. Sender(t) \in {"hot", "addr"} /\ Sender(t)' = Sender(t) BY DEF Sender
<1>3. CASE Sender(t) # a
  <2>1. mined'[Sender(t)] = mined[Sender(t)] BY <1>1, <1>2, <1>3
  <2>2. t # tx BY <1>3
  <2> QED BY <1>1, <1>2, <2>1, <2>2 DEF Mined, Succeeded
<1>4. CASE Sender(t) = a
  <2> DEFINE n == Len(mined[a]) + 1
  <2>1. /\ n \in DOMAIN mined'[a] /\ \A i \in DOMAIN mined'[a] : i = n \/ i \in DOMAIN mined[a]
        /\ DOMAIN mined[a] \subseteq DOMAIN mined'[a]
    BY <1>1
  <2>2. mined'[a][n].tx = tx BY <1>1
  <2>3. t # tx => mined'[a][n] # [tx |-> t, ok |-> TRUE] BY <1>1
  <2> HIDE DEF n, a
  <2> QED BY <1>1, <1>2, <1>4, <2>1, <2>2, <2>3, Zenon DEF Mined, Succeeded
<1> QED BY <1>3, <1>4

LEMMA ChainStep == ASSUME TypeOK, Rows, ChainInv, [Next]_vars PROVE ChainInv'
<1>1. ASSUME UNCHANGED <<pool, mined>> PROVE ChainInv' BY <1>1, ChainStays
<1>2. ASSUME NEW tx, Genuine(tx), Accepts(tx) \/ Refuses(tx), mined' = mined PROVE ChainInv'
  BY <1>2, ChainGrows
<1>g. /\ \A s \in Sweeps : row[s].fsigned => Genuine(FundTx(s))
      /\ \A s \in Sweeps : row[s].signed => Genuine(SweepTx(s))
      /\ Genuine(FillTx(job.v))
      /\ \A o \in Others : Genuine(Tx("other", o, other[o].nonce, 0))
  BY DEF Genuine, FundTx, SweepTx, FillTx, Tx
<1>3. CASE SendFunding
  <2>1. job.s \in Sweeps /\ row[job.s].fsigned BY <1>3 DEF SendFunding, Funds, Rows, JobInv, Clean
  <2> QED BY <1>2, <1>3, <1>g, <2>1 DEF SendFunding
<1>4. CASE SendSweep
  <2>1. job.s \in Sweeps /\ row[job.s].signed BY <1>4 DEF SendSweep, Sends, Rows, JobInv
  <2> QED BY <1>2, <1>4, <1>g, <2>1 DEF SendSweep
<1>5. CASE SendFill BY <1>2, <1>5, <1>g DEF SendFill
<1>6. ASSUME NEW s \in Sweeps, ResendFunding(s) \/ ResendSweep(s) PROVE ChainInv'
  <2>1. ResendFunding(s) => row[s].fsigned BY DEF ResendFunding, Tracking
  <2>2. ResendSweep(s) => row[s].signed BY DEF ResendSweep, Ready, Rows, RowInv
  <2> QED BY <1>2, <1>6, <1>g, <2>1, <2>2 DEF ResendFunding, ResendSweep
<1>7. ASSUME NEW o \in Others, OtherSends(o) PROVE ChainInv' BY <1>2, <1>7, <1>g DEF OtherSends
<1>8. ASSUME NEW tx \in pool, Mine(tx) PROVE ChainInv'
  <2> DEFINE a == Sender(tx)
             n == Len(mined[a]) + 1
  <2>1. PICK ok \in BOOLEAN :
          /\ a \in {"hot", "addr"} /\ tx.nonce = Len(mined[a]) /\ Len(mined[a]) \in Nat
          /\ \A b \in {"hot", "addr"} \ {a} : mined'[b] = mined[b]
          /\ DOMAIN mined[a] = 1..Len(mined[a])
          /\ DOMAIN mined'[a] = 1..(Len(mined[a]) + 1)
          /\ \A i \in DOMAIN mined[a] : mined'[a][i] = mined[a][i]
          /\ mined'[a][Len(mined[a]) + 1] = [tx |-> tx, ok |-> ok]
    BY <1>8, MinesOne
  <2>2. Genuine(tx)' BY GenuineStays DEF ChainInv
  <2>3. \A t \in pool' : t \in pool /\ t # tx BY <1>8 DEF Mine
  <2>4. \A t \in pool' : Genuine(t)' BY <2>3, GenuineStays DEF ChainInv
  <2>5. \A t \in pool' : ~Mined(t)' BY <1>8, <2>3, MinedThen DEF ChainInv
  <2>6. ASSUME NEW b \in {"hot", "addr"}, NEW i \in DOMAIN mined[b], NEW x, x = mined[b][i].tx
        PROVE  x.nonce = i - 1 /\ Sender(x) = b /\ Genuine(x)'
    <3>1. x.nonce = i - 1 /\ Sender(x) = b /\ Genuine(x) BY <2>6 DEF ChainInv
    <3> QED BY <3>1, GenuineStays
  <2>7. ASSUME NEW b \in {"hot", "addr"}, NEW i \in DOMAIN mined'[b], NEW x, x = mined'[b][i].tx
        PROVE  x.nonce = i - 1 /\ Sender(x) = b /\ Genuine(x)'
    <3>1. CASE b # a
      <4>1. mined'[b] = mined[b] BY <2>1, <3>1
      <4>2. i \in DOMAIN mined[b] /\ x = mined[b][i].tx BY <2>7, <4>1
      <4> QED BY <2>6, <4>2
    <3>2. CASE b = a /\ i \in DOMAIN mined[b]
      <4>1. mined'[b][i] = mined[b][i] BY <2>1, <3>2
      <4>2. x = mined[b][i].tx BY <2>7, <4>1
      <4> QED BY <2>6, <3>2, <4>2
    <3>3. CASE b = a /\ i = n
      <4>1. x = tx BY <2>1, <2>7, <3>3
      <4>2. tx.nonce = i - 1 BY <2>1, <3>3
      <4> QED BY <2>2, <3>3, <4>1, <4>2
    <3>4. b = a => i = n \/ i \in DOMAIN mined[b] BY <2>1
    <3> QED BY <3>1, <3>2, <3>3, <3>4
  <2>8. \A b \in {"hot", "addr"} : \A i \in DOMAIN mined'[b] :
          LET x == mined'[b][i].tx IN x.nonce = i - 1 /\ Sender(x) = b /\ Genuine(mined[b][i].tx)'
    <3> SUFFICES ASSUME NEW b \in {"hot", "addr"}, NEW i \in DOMAIN mined'[b]
                 PROVE  LET x == mined'[b][i].tx IN
                        x.nonce = i - 1 /\ Sender(x) = b /\ Genuine(mined[b][i].tx)'
      OBVIOUS
    <3>1. PICK x : x = mined'[b][i].tx OBVIOUS
    <3>2. x.nonce = i - 1 /\ Sender(x) = b /\ Genuine(x)' BY <2>7, <3>1
    <3> QED BY <3>1, <3>2
  <2> QED BY <2>4, <2>5, <2>8 DEF ChainInv, Sender
<1>9. ASSUME NEW tx \in pool, Drop(tx) PROVE ChainInv'
  BY <1>9, ChainStays DEF Drop
<1>10. CASE UNCHANGED vars BY <1>1, <1>10 DEF vars
<1>11. ASSUME NEW a \in Assets, Deposit(a) \/ Credit(a) \/ Gift(a) \/ \E s \in Sweeps : Plan(s, a)
       PROVE  ChainInv'
  BY <1>1, <1>11 DEF Deposit, Credit, Gift, Plan, node
<1>12. ASSUME NEW s \in Sweeps,
              FundGas(s) \/ TrackFunding(s) \/ BalanceChanged(s) \/ PinSweepNonce(s) \/ SendSigned(s)
              \/ Track(s)
       PROVE  ChainInv'
  BY <1>1, <1>12 DEF FundGas, TrackFunding, BalanceChanged, PinSweepNonce, SendSigned, Track, node
<1>13. CASE Release \/ ClearFunding \/ AlreadyFunded \/ PinFunding \/ SignFunding \/ SignFundingFails
            \/ RecordFunding \/ FundingRefused
  BY <1>1, <1>13 DEF Release, ClearFunding, AlreadyFunded, PinFunding, SignFunding, SignFundingFails,
       RecordFunding, FundingRefused, node
<1>14. CASE SignSweep \/ SignSweepFails \/ MarkBroadcast \/ SweepRefused \/ Recycle \/ StepBack \/ RecordFill
  BY <1>1, <1>14 DEF SignSweep, SignSweepFails, MarkBroadcast, SweepRefused, Recycle, StepBack,
       RecordFill, node
<1>15. CASE MoveFee \/ OtherAllocates \/ OtherCommits \/ Crash \/ Start \/ StartFill \/ Started
  BY <1>1, <1>15 DEF MoveFee, OtherAllocates, OtherCommits, Crash, Start, StartFill, Started, node
<1> QED BY <1>3, <1>4, <1>5, <1>6, <1>7, <1>8, <1>9, <1>10, <1>11, <1>12, <1>13, <1>14, <1>15,
           Zenon DEF Next, JobStep, SweepStep

\* What every step keeps: types, rows, the job and the transactions.
Core == TypeOK /\ Rows /\ ChainInv

LEMMA CoreInit == Init => Core
<1> SUFFICES ASSUME Init PROVE Core OBVIOUS
<1>1. TypeOK BY TypeInit
<1>2. /\ pool = {} /\ job = Idle /\ mined = [a \in {"hot", "addr"} |-> << >>]
      /\ row = [s \in Sweeps |-> [st |-> "none", asset |-> "", amt |-> 0, fn |-> None, fa |-> 0,
                                  fsigned |-> FALSE, an |-> None, signed |-> FALSE, gas |-> 0]]
  BY Zenon DEF Init
<1>3. ChainInv
  <2>1. ASSUME NEW a \in {"hot", "addr"} PROVE DOMAIN mined[a] = {}
    <3>1. mined[a] = << >> BY <1>2
    <3>2. mined[a] \in Seq([tx : Txs, ok : BOOLEAN]) BY <1>1 DEF TypeOK, NodeOK
    <3>3. Len(mined[a]) = 0 BY <3>1
    <3> QED BY <3>2, <3>3
  <2> QED BY <1>2, <2>1 DEF ChainInv
<1>4. RowInv BY <1>2 DEF RowInv, Open
<1>5. job.at = "idle" /\ job.then = "" BY <1>2, Idling
<1>6. JobInv BY <1>5 DEF JobInv, Funds, Sends, Clean
<1> QED BY <1>1, <1>3, <1>4, <1>6 DEF Core, Rows, TypeOK

LEMMA CoreStep == Core /\ [Next]_vars => Core'
<1> SUFFICES ASSUME Core, [Next]_vars PROVE Core' OBVIOUS
<1>1. Rows' /\ WalletOK' /\ NodeOK' /\ ChainInv' BY RowsStep, WalletStep, NodeStep, ChainStep DEF Core
<1>2. \A tx \in pool : tx.kind = "sweep" => tx.id \in Sweeps BY DEF Core, ChainInv, Genuine
<1>3. MoneyOK' BY <1>2, MoneyStep DEF Core
<1> QED BY <1>1, <1>3 DEF Core, TypeOK, Rows

\* Whatever fails, the address has at most one open sweep, every transaction of
\* it that exists is the one its row records, and the row of a job is where the
\* job takes it to be.
THEOREM SweepInvariance == Spec => []Core
<1>1. Core /\ UNCHANGED vars => Core' BY CoreStep
<1> QED BY CoreInit, CoreStep, PTL DEF Spec

-----------------------------------------------------------------------------
(* Credits.                                                                *)

LEMMA TakenInt ==
  ASSUME RowsOK, NEW a
  PROVE  \A s \in Sweeps : Taken(a)[s] \in Int /\ row[s].amt \in Int /\ row[s].gas \in Int
<1>1. Cost \in Int /\ 0 \in Int BY SweepAssumption
<1>2. \A s \in Sweeps : row[s].amt \in Int /\ row[s].gas \in Int BY DEF RowsOK, Row
<1> QED BY <1>1, <1>2 DEF Taken

\* What is taken is what was swept and what open sweeps will take.
LEMMA TakenSum ==
  ASSUME RowsOK, NEW a
  PROVE  SumOf(Taken(a), Sweeps) =
           SweptFromAddress(a) + SumOf(Taken(a), {s \in Open : row[s].asset = a})
<1> DEFINE C == Confirmed(a)
           O == {s \in Open : row[s].asset = a}
           R == Sweeps \ (C \cup O)
           g == Taken(a)
<1>1. IsFiniteSet(C) /\ IsFiniteSet(O) /\ IsFiniteSet(R) /\ IsFiniteSet(C \cup O)
  BY SweepAssumption, FS_Subset, FS_Union DEF Confirmed, Open
<1>2. C \cap O = {} /\ (C \cup O) \cap R = {} /\ (C \cup O) \cup R = Sweeps BY DEF Confirmed, Open
<1>3. \A s \in Sweeps : g[s] \in Int BY TakenInt
<1>4. \A s \in R : g[s] = 0 BY DEF Taken, Confirmed
<1>5. \A s \in C : g[s] = SweptBy(a)[s]
  <2> SUFFICES ASSUME NEW s \in C PROVE g[s] = SweptBy(a)[s] OBVIOUS
  <2>1. s \in Sweeps /\ row[s].st = "confirmed" /\ row[s].asset = a BY DEF Confirmed
  <2>2. g[s] = row[s].amt + (IF a = "eth" THEN row[s].gas ELSE 0) BY <2>1 DEF Taken, Open
  <2>3. SweptBy(a)[s] = row[s].amt + (IF a = "eth" THEN row[s].gas ELSE 0) BY <2>1 DEF SweptBy
  <2> QED BY <2>2, <2>3
<1>6. C \subseteq Sweeps /\ O \subseteq Sweeps /\ R \subseteq Sweeps BY DEF Confirmed, Open
<1> HIDE DEF C, O, R, g
<1>7. SumOf(g, Sweeps) = SumOf(g, C \cup O) + SumOf(g, R)
  <2>1. \A s \in (C \cup O) \cup R : g[s] \in Int BY <1>3, <1>6
  <2>2. SumOf(g, (C \cup O) \cup R) = SumOf(g, C \cup O) + SumOf(g, R) BY <1>1, <1>2, <2>1, SumDisjoint
  <2> QED BY <1>2, <2>2
<1>8. SumOf(g, C \cup O) = SumOf(g, C) + SumOf(g, O)
  <2>1. \A s \in C \cup O : g[s] \in Int BY <1>3, <1>6
  <2> QED BY <1>1, <1>2, <2>1, SumDisjoint
<1>9. SumOf(g, R) = 0 BY <1>1, <1>4, SumZero
<1>10. SumOf(g, C) = SweptFromAddress(a)
  <2>1. SumOf(g, C) = SumOf(SweptBy(a), C) BY <1>1, <1>5, SumSame
  <2> QED BY <2>1, SweptSum DEF C
<1>11. SumOf(g, C) \in Int /\ SumOf(g, O) \in Int
  <2>1. \A s \in C : g[s] \in Int BY <1>3, <1>6
  <2>2. \A s \in O : g[s] \in Int BY <1>3, <1>6
  <2> QED BY <1>1, <2>1, <2>2, SumInt
<1> QED BY <1>7, <1>8, <1>9, <1>10, <1>11 DEF g, O

\* Only a credit changes what was credited, and it adds.
LEMMA CreditedStep ==
  ASSUME Core, [Next]_vars
  PROVE  /\ \A a \in Assets : credited'[a] \in Int /\ credited'[a] >= credited[a]
         /\ row' = row \/ credited' = credited
<1>0. credited \in [Assets -> Int] /\ coming \in [Assets -> Int] BY DEF Core, TypeOK, MoneyOK
<1>1. ASSUME credited' = credited
      PROVE  /\ \A a \in Assets : credited'[a] \in Int /\ credited'[a] >= credited[a]
             /\ row' = row \/ credited' = credited
  BY <1>0, <1>1
<1>2. ASSUME NEW a \in Assets, Credit(a)
      PROVE  /\ \A b \in Assets : credited'[b] \in Int /\ credited'[b] >= credited[b]
             /\ row' = row \/ credited' = credited
  BY <1>0, <1>2 DEF Credit
<1>3. ASSUME NEW a \in Assets, Deposit(a) \/ Gift(a) \/ \E s \in Sweeps : Plan(s, a)
      PROVE  credited' = credited
  BY <1>3 DEF Deposit, Gift, Plan, users
<1>4. ASSUME NEW s \in Sweeps, SweepStep(s) PROVE credited' = credited
  BY <1>4 DEF SweepStep, FundGas, TrackFunding, ResendFunding, BalanceChanged, PinSweepNonce,
       SendSigned, Track, ResendSweep, users
<1>5. CASE JobStep
  <2>1. CASE Release \/ ClearFunding \/ AlreadyFunded \/ PinFunding \/ SignFunding \/ SignFundingFails
             \/ RecordFunding \/ SendFunding \/ FundingRefused
    BY <1>1, <2>1 DEF Release, ClearFunding, AlreadyFunded, PinFunding, SignFunding,
         SignFundingFails, RecordFunding, SendFunding, FundingRefused, users
  <2>2. CASE SignSweep \/ SignSweepFails \/ SendSweep \/ MarkBroadcast \/ SweepRefused \/ Recycle
             \/ StepBack \/ RecordFill \/ SendFill
    BY <1>1, <2>2 DEF SignSweep, SignSweepFails, SendSweep, MarkBroadcast, SweepRefused,
         Recycle, StepBack, RecordFill, SendFill, users
  <2> QED BY <1>5, <2>1, <2>2 DEF JobStep
<1>6. CASE MoveFee \/ OtherAllocates \/ OtherCommits \/ Crash \/ Start \/ StartFill \/ Started
  BY <1>1, <1>6 DEF MoveFee, OtherAllocates, OtherCommits, Crash, Start, StartFill, Started, users
<1>7. ASSUME NEW o \in Others, OtherSends(o) PROVE credited' = credited BY <1>7 DEF OtherSends, users
<1>8. ASSUME NEW tx \in pool, Mine(tx) \/ Drop(tx) PROVE credited' = credited BY <1>8 DEF Mine, Drop, users
<1>9. CASE UNCHANGED vars BY <1>1, <1>9 DEF vars
<1>10. CASE Next
  <2>1. CASE \E a \in Assets : Deposit(a) \/ Gift(a) \/ \E s \in Sweeps : Plan(s, a) BY <1>1, <1>3, <2>1
  <2>2. CASE \E a \in Assets : Credit(a) BY <1>2, <2>2
  <2>3. CASE \E s \in Sweeps : SweepStep(s) BY <1>1, <1>4, <2>3
  <2>4. CASE \E o \in Others : OtherSends(o) BY <1>1, <1>7, <2>4
  <2>5. CASE \E tx \in pool : Mine(tx) \/ Drop(tx) BY <1>1, <1>8, <2>5
  <2> QED BY <1>5, <1>6, <1>10, <2>1, <2>2, <2>3, <2>4, <2>5, Zenon DEF Next
<1> QED BY <1>9, <1>10

LEMMA CreditStep == ASSUME Core, CreditInv, [Next]_vars PROVE CreditInv'
<1>0. RowsOK /\ RowsOK' /\ MoneyOK BY CoreStep DEF Core, TypeOK
<1>c. \A a \in Assets : credited'[a] \in Int /\ credited'[a] >= credited[a] /\ credited[a] \in Int
  BY <1>0, CreditedStep DEF MoneyOK
<1>i. Cost \in Int /\ Cost > 0 /\ 0 \in Int BY SweepAssumption
<1>1. CASE row' = row
  <2>1. \A a : Taken(a)' = Taken(a) BY <1>1 DEF Taken, Open
  <2>2. Open' = Open BY <1>1 DEF Open
  <2>3. \A a \in Assets : SumOf(Taken(a), Sweeps) \in Int
    BY <1>0, TakenInt, SumInt, SweepAssumption
  <2>4. ASSUME NEW a \in Assets PROVE SumOf(Taken(a)', Sweeps) =< credited'[a]
    <3>1. SumOf(Taken(a), Sweeps) =< credited[a] BY DEF CreditInv
    <3>2. SumOf(Taken(a)', Sweeps) = SumOf(Taken(a), Sweeps) BY <2>1
    <3>3. SumOf(Taken(a), Sweeps) =< credited'[a] BY <1>c, <2>3, <3>1
    <3> QED BY <3>2, <3>3
  <2> QED BY <1>1, <2>2, <2>4 DEF CreditInv
<1>2. ASSUME NEW s \in Sweeps, Change(s) PROVE CreditInv'
  <2>1. Kept(s) BY <1>2 DEF Change
  <2>2. \A t \in Sweeps \ {s} : row'[t] = row[t] BY <2>1 DEF Kept
  <2>3. ASSUME NEW a \in Assets PROVE SumOf(Taken(a)', Sweeps) =< credited'[a]
    <3> DEFINE g == Taken(a)
               h == Taken(a)'
    <3> SUFFICES SumOf(h, Sweeps) =< credited'[a] OBVIOUS
    <3>1. \A t \in Sweeps : g[t] \in Int /\ row[t].amt \in Int /\ row[t].gas \in Int BY <1>0, TakenInt
    <3>2. \A t \in Sweeps : h[t] \in Int /\ row'[t].amt \in Int
      <4>1. Cost \in Int /\ 0 \in Int BY <1>i
      <4>2. \A t \in Sweeps : row'[t].amt \in Int /\ row'[t].gas \in Int BY <1>0 DEF RowsOK, Row
      <4> QED BY <4>1, <4>2 DEF Taken
    <3>3. \A t \in Sweeps \ {s} : h[t] = g[t] BY <2>2 DEF Taken, Open
    <3>4. SumOf(h, Sweeps) = SumOf(g, Sweeps) + (h[s] - g[s])
      <4> HIDE DEF g, h
      <4> QED BY <3>1, <3>2, <3>3, SumChange, SweepAssumption
    <3>5. SumOf(g, Sweeps) \in Int
      <4> HIDE DEF g
      <4> QED BY <3>1, SumInt, SweepAssumption
    <3>6. SumOf(g, Sweeps) =< credited[a] BY DEF CreditInv
    <3>7. ASSUME h[s] =< g[s] PROVE SumOf(h, Sweeps) =< credited'[a]
      <4>1. h[s] \in Int /\ g[s] \in Int BY <3>1, <3>2
      <4> HIDE DEF g, h
      <4> QED BY <1>c, <3>4, <3>5, <3>6, <3>7, <4>1
    <3>8. CASE Prepared(s)
      <4>1. h[s] = g[s] BY <3>8 DEF Prepared, KeptPlan, Taken, Open
      <4> HIDE DEF g, h
      <4> QED BY <3>1, <3>7, <4>1
    <3>9. CASE Advanced(s)
      <4>1. row[s].amt >= 0 BY <3>9 DEF Advanced, CreditInv
      <4>2. CASE row'[s].st = "failed"
        <5>1. h[s] = 0 BY <4>2 DEF Taken, Open
        <5>2. g[s] >= 0
          <6>1. g[s] = 0 \/ g[s] = row[s].amt \/ g[s] = row[s].amt + 0 \/ g[s] = row[s].amt + Cost
            BY <3>9 DEF Advanced, Taken, Open
          <6> HIDE DEF g
          <6> QED BY <1>i, <3>1, <4>1, <6>1
        <5> HIDE DEF g, h
        <5> QED BY <3>1, <3>7, <5>1, <5>2
      <4>3. CASE row'[s].st \in {"gas_funded", "broadcast"}
        <5>1. h[s] = g[s] BY <3>9, <4>3 DEF Advanced, KeptPlan, Taken, Open
        <5> HIDE DEF g, h
        <5> QED BY <3>1, <3>7, <5>1
      <4> QED BY <3>9, <4>2, <4>3 DEF Advanced
    <3>10. CASE Collected(s)
      <4>1. h[s] = g[s] BY <3>10 DEF Collected, KeptPlan, Taken, Open
      <4> HIDE DEF g, h
      <4> QED BY <3>1, <3>7, <4>1
    <3>11. CASE Planned(s)
      <4>1. g[s] = 0 BY <3>11 DEF Planned, Taken, Open
      <4>2. CASE row'[s].asset # a
        <5>1. h[s] = 0 BY <4>2 DEF Taken
        <5> HIDE DEF g, h
        <5> QED BY <3>7, <4>1, <5>1
      <4>3. CASE row'[s].asset = a
        <5>1. row'[s].amt = Sweepable(a) BY <3>11, <4>3 DEF Planned
        <5>2. h[s] = row'[s].amt + (IF a = "eth" THEN Cost ELSE 0)
          BY <3>11, <4>3 DEF Planned, Taken, Open
        <5>3. /\ Sweepable(a) =< credited[a] - SweptFromAddress(a) - (IF a = "eth" THEN fee ELSE 0)
              /\ fee \in Nat /\ fee >= Cost /\ Sweepable(a) \in Int
          BY <1>0, SweepableBound
        <5>4. SumOf(g, Sweeps) = SweptFromAddress(a) + SumOf(g, {}) /\ SumOf(g, {}) = 0
          <6>1. {t \in Open : row[t].asset = a} = {} BY <3>11 DEF Planned
          <6>2. SumOf(g, {}) = 0 BY SumRec, FS_EmptySet
          <6> QED BY <1>0, <6>1, <6>2, TakenSum
        <5>5. SweptFromAddress(a) \in Int BY <1>0, SweptInt
        <5>6. Sweepable(a) + (IF a = "eth" THEN Cost ELSE 0) =< credited[a] - SweptFromAddress(a)
          BY <1>c, <1>i, <5>3, <5>5
        <5>7. h[s] \in Int BY <3>2
        <5>8. h[s] =< credited[a] - SweptFromAddress(a) BY <5>1, <5>2, <5>6
        <5> HIDE DEF g, h
        <5> QED BY <1>c, <3>4, <3>5, <4>1, <5>4, <5>5, <5>7, <5>8
      <4> QED BY <4>2, <4>3
    <3> QED BY <1>2, <3>8, <3>9, <3>10, <3>11 DEF Change
  <2>4. ASSUME NEW t \in Open' PROVE row'[t].amt >= 0
    <3>1. CASE t # s
      <4>1. t \in Open /\ row'[t] = row[t] BY <2>2, <2>4, <3>1 DEF Open
      <4> QED BY <4>1 DEF CreditInv
    <3>2. CASE t = s /\ Planned(s)
      <4>1. row'[t].amt > 0 BY <3>2 DEF Planned
      <4>2. row'[t].amt \in Int BY <1>0, <3>2 DEF RowsOK, Row
      <4> QED BY <4>1, <4>2
    <3>3. CASE t = s /\ ~Planned(s)
      <4>1. KeptPlan(s) /\ s \in Open
        BY <1>2, <2>4, <3>3 DEF Change, Prepared, Advanced, Collected, Open
      <4> QED BY <3>3, <4>1 DEF KeptPlan, CreditInv
    <3> QED BY <3>1, <3>2, <3>3
  <2> QED BY <2>3, <2>4 DEF CreditInv
<1> QED BY <1>1, <1>2, RowChanges DEF Core

LEMMA CreditInit == ASSUME Init PROVE CreditInv
<1>1. \A s \in Sweeps : row[s].st = "none" BY DEF Init
<1>2. Open = {} BY <1>1 DEF Open
<1>3. ASSUME NEW a \in Assets PROVE SumOf(Taken(a), Sweeps) =< credited[a]
  <2>1. \A s \in Sweeps : Taken(a)[s] = 0 BY <1>1 DEF Taken, Open
  <2>2. SumOf(Taken(a), Sweeps) = 0 BY <2>1, SumZero, SweepAssumption
  <2>3. credited[a] = 0 BY DEF Init
  <2> QED BY <2>2, <2>3
<1> QED BY <1>2, <1>3 DEF CreditInv

LEMMA CreditBound == ASSUME Core, CreditInv PROVE SweptWasCredited
<1>0. RowsOK /\ MoneyOK BY DEF Core, TypeOK
<1>1. ASSUME NEW a \in Assets PROVE SweptFromAddress(a) + Amounts(Open, a) =< credited[a]
  <2> DEFINE O == {s \in Open : row[s].asset = a}
             g == Taken(a)
             h == [s \in Sweeps |-> row[s].amt]
  <2>1. O \subseteq Sweeps /\ Open \subseteq Sweeps BY DEF Open
  <2>2. IsFiniteSet(O) BY <2>1, SweepAssumption, FS_Subset
  <2>3. \A s \in Sweeps : g[s] \in Int /\ h[s] \in Int BY <1>0, TakenInt
  <2>4. \A s \in O : h[s] =< g[s]
    <3> SUFFICES ASSUME NEW s \in O PROVE h[s] =< g[s] OBVIOUS
    <3>1. s \in Sweeps /\ h[s] = row[s].amt BY <2>1
    <3>2. g[s] = row[s].amt + (IF a = "eth" THEN Cost ELSE 0) BY <3>1 DEF Taken, Open
    <3>3. Cost \in Nat BY SweepAssumption
    <3> HIDE DEF g, h, O
    <3> QED BY <2>3, <3>1, <3>2, <3>3
  <2>5. Amounts(Open, a) = SumOf(h, O) BY <2>1, AmountsSum
  <2>6. SumOf(g, Sweeps) = SweptFromAddress(a) + SumOf(g, O) BY <1>0, TakenSum
  <2>7. SumOf(g, Sweeps) =< credited[a] /\ credited[a] \in Int BY <1>0 DEF CreditInv, MoneyOK
  <2>8. SweptFromAddress(a) \in Int BY <1>0, SweptInt
  <2> HIDE DEF g, h, O
  <2>9. SumOf(h, O) =< SumOf(g, O) /\ SumOf(h, O) \in Int /\ SumOf(g, O) \in Int
    <3>1. \A s \in O : h[s] \in Int /\ g[s] \in Int /\ h[s] =< g[s] BY <2>1, <2>3, <2>4
    <3> QED BY <2>2, <3>1, SumMono, SumInt
  <2> QED BY <2>5, <2>6, <2>7, <2>8, <2>9
<1> QED BY <1>1 DEF SweptWasCredited

\* What sweeps take from the address was credited to users first: the ceiling of
\* the plan and the one-open-sweep index bound the sum over any number of sweeps,
\* whatever fails, and the native asset's gas is part of it.
THEOREM SweptCredited == Spec => []SweptWasCredited
<1>1. Init => Core /\ CreditInv BY CoreInit, CreditInit
<1>2. Core /\ CreditInv /\ [Next]_vars => (Core /\ CreditInv)' BY CoreStep, CreditStep
<1>3. Core /\ CreditInv => SweptWasCredited BY CreditBound
<1> QED BY <1>1, <1>2, <1>3, PTL DEF Spec

-----------------------------------------------------------------------------
(* Nonces.                                                                 *)

LEMMA Lengths ==
  ASSUME NodeOK
  PROVE  Len(mined["hot"]) \in Nat
<1>1. mined["hot"] \in Seq([tx : Txs, ok : BOOLEAN]) BY DEF NodeOK
<1> QED BY <1>1

\* Mining only adds.
LEMMA HotGrows ==
  ASSUME Core, [Next]_vars
  PROVE  Len(mined["hot"]) \in Nat /\ Len(mined'["hot"]) \in Nat /\ Len(mined["hot"]) =< Len(mined'["hot"])
<1>1. NodeOK /\ NodeOK' /\ TypeOK BY CoreStep DEF Core, TypeOK
<1>2. Len(mined["hot"]) \in Nat /\ Len(mined'["hot"]) \in Nat
  <2>1. mined'["hot"] \in Seq([tx : Txs, ok : BOOLEAN]) BY <1>1 DEF NodeOK
  <2> QED BY <1>1, <2>1, Lengths
<1>3. CASE mined' = mined BY <1>2, <1>3
<1>4. ASSUME NEW tx \in pool, Mine(tx) PROVE Len(mined["hot"]) =< Len(mined'["hot"])
  <2> DEFINE a == Sender(tx)
  <2>1. /\ a \in {"hot", "addr"} /\ Len(mined'[a]) = Len(mined[a]) + 1
        /\ \A b \in {"hot", "addr"} \ {a} : mined'[b] = mined[b]
    BY <1>1, <1>4, MinesOne
  <2> HIDE DEF a
  <2>2. CASE a = "hot" BY <1>2, <2>1, <2>2
  <2>3. CASE a # "hot"
    <3>1. mined'["hot"] = mined["hot"] BY <2>1, <2>3
    <3> QED BY <1>2, <3>1
  <2> QED BY <2>2, <2>3
<1>5. mined' = mined \/ \E tx \in pool : Mine(tx)
  <2>1. CASE UNCHANGED vars BY <2>1 DEF vars
  <2>2. ASSUME NEW a \in Assets, Deposit(a) \/ Credit(a) \/ Gift(a) \/ \E s \in Sweeps : Plan(s, a)
        PROVE  mined' = mined
    BY <2>2 DEF Deposit, Credit, Gift, Plan, node
  <2>3. ASSUME NEW s \in Sweeps, SweepStep(s) PROVE mined' = mined
    BY <2>3 DEF SweepStep, FundGas, TrackFunding, ResendFunding, BalanceChanged, PinSweepNonce,
         SendSigned, Track, ResendSweep, node
  <2>4. CASE Release \/ ClearFunding \/ AlreadyFunded \/ PinFunding \/ SignFunding \/ SignFundingFails
             \/ RecordFunding \/ SendFunding \/ FundingRefused
    BY <2>4 DEF Release, ClearFunding, AlreadyFunded, PinFunding, SignFunding,
         SignFundingFails, RecordFunding, SendFunding, FundingRefused, node
  <2>5. CASE SignSweep \/ SignSweepFails \/ SendSweep \/ MarkBroadcast \/ SweepRefused \/ Recycle
             \/ StepBack \/ RecordFill \/ SendFill
    BY <2>5 DEF SignSweep, SignSweepFails, SendSweep, MarkBroadcast, SweepRefused, Recycle,
         StepBack, RecordFill, SendFill, node
  <2>6. CASE MoveFee \/ OtherAllocates \/ OtherCommits \/ Crash \/ Start \/ StartFill \/ Started
    BY <2>6 DEF MoveFee, OtherAllocates, OtherCommits, Crash, Start, StartFill, Started, node
  <2>7. ASSUME NEW o \in Others, OtherSends(o) PROVE mined' = mined BY <2>7 DEF OtherSends
  <2>8. ASSUME NEW tx \in pool, Drop(tx) PROVE mined' = mined BY <2>8 DEF Drop
  <2> QED BY <2>1, <2>2, <2>3, <2>4, <2>5, <2>6, <2>7, <2>8, Zenon DEF Next, JobStep
<1> QED BY <1>2, <1>3, <1>4, <1>5

\* The nonces' takers stay, while the counter does.
LEMMA NoncesKept ==
  ASSUME Core, NonceInv, [Next]_vars,
         nextNonce' = nextNonce, alloc' \in {alloc, None}, fills \subseteq fills',
         \A o \in Others : other'[o].nonce = other[o].nonce,
         \A s \in Open : \/ s \in Open' /\ row'[s].fn = row[s].fn
                         \/ row[s].fn < Len(mined'["hot"])
                         \/ Freed(row[s].fn),
         \A s \in Sweeps : row'[s].st \in {"gas_funded", "broadcast"} => row'[s].fn < Len(mined'["hot"]),
         \A s \in Open' : row'[s].fn =< nextNonce,
         job'.at \in {"clear", "failfunding"} =>
            row'[job'.s].fn \in fills' \/ (row'[job'.s].fn = row[job.s].fn /\ Freed(row[job.s].fn)),
         job'.at = "fillsend" => job'.v \in fills'
  PROVE  NonceInv'
<1>1. Len(mined["hot"]) \in Nat /\ Len(mined'["hot"]) \in Nat /\ Len(mined["hot"]) =< Len(mined'["hot"])
  BY HotGrows
<1>2. nextNonce \in Nat BY DEF Core, TypeOK, WalletOK
<1>3. Len(mined'["hot"])..(nextNonce' - 1) \subseteq Len(mined["hot"])..(nextNonce - 1) BY <1>1, <1>2
<1>4. Holders \subseteq Holders' BY DEF Holders
<1>5. \A n : Freed(n) => Freed(n)' BY <1>3, <1>4 DEF Freed
<1>6. ASSUME NEW n \in Len(mined'["hot"])..(nextNonce' - 1) PROVE Claimed(n)'
  <2>1. n \in Len(mined["hot"])..(nextNonce - 1) BY <1>3
  <2>2. Claimed(n) BY <2>1 DEF NonceInv
  <2>3. CASE n \in Holders BY <1>4, <2>3 DEF Claimed
  <2>4. ASSUME NEW s \in Open, row[s].fn = n PROVE Claimed(n)'
    <3>1. CASE s \in Open' /\ row'[s].fn = row[s].fn BY <2>4, <3>1 DEF Claimed
    <3>2. CASE row[s].fn < Len(mined'["hot"]) BY <1>1, <1>2, <1>6, <2>4, <3>2
    <3>3. CASE Freed(row[s].fn) BY <1>4, <2>1, <2>4, <3>3 DEF Freed, Claimed
    <3> QED BY <3>1, <3>2, <3>3
  <2> QED BY <2>2, <2>3, <2>4 DEF Claimed
<1>8. job'.at \in {"clear", "failfunding"} => Freed(row[job.s].fn)'
  <2>1. ASSUME NEW n \in fills' PROVE Freed(n)' BY DEF Freed, Holders
  <2>2. ASSUME job'.at \in {"clear", "failfunding"}, NEW m, m = row'[job'.s].fn PROVE Freed(m)'
    <3>1. CASE m \in fills' BY <2>1, <3>1
    <3>2. CASE m = row[job.s].fn /\ Freed(row[job.s].fn)
      <4>1. Freed(m) BY <3>2
      <4> QED BY <1>5, <4>1
    <3> QED BY <2>2, <3>1, <3>2
  <2> QED BY <2>2
<1>9. alloc' # None => alloc' = nextNonce' /\ \E o \in Others : other'[o].nonce = None BY DEF NonceInv
<1> QED BY <1>6, <1>8, <1>9 DEF NonceInv

Quietly == job' = job \/ job'.at \notin {"clear", "failfunding", "fillsend"}

LEMMA NoncesQuiet ==
  ASSUME Core, NonceInv, [Next]_vars, row' = row, Quietly,
         UNCHANGED <<nextNonce, fills>>, alloc' \in {alloc, None},
         \A o \in Others : other'[o].nonce = other[o].nonce
  PROVE  NonceInv'
<1>1. Open' = Open BY DEF Open
<1>2. \A s \in Sweeps : row[s].fn \in Int BY DEF Core, TypeOK, RowsOK, Row
<1>3. Len(mined["hot"]) \in Nat /\ Len(mined'["hot"]) \in Nat /\ Len(mined["hot"]) =< Len(mined'["hot"])
  BY HotGrows
<1>4. \A s \in Sweeps : row'[s].st \in {"gas_funded", "broadcast"} => row'[s].fn < Len(mined'["hot"])
  <2>1. ASSUME NEW s \in Sweeps, row[s].st \in {"gas_funded", "broadcast"}
        PROVE  row[s].fn < Len(mined'["hot"])
    <3>1. row[s].fn < Len(mined["hot"]) BY <2>1 DEF NonceInv
    <3> QED BY <1>2, <1>3, <3>1
  <2> QED BY <2>1
<1>5. job'.at \in {"clear", "failfunding"} =>
        row'[job'.s].fn \in fills' \/ (row'[job'.s].fn = row[job.s].fn /\ Freed(row[job.s].fn))
  BY DEF Quietly, NonceInv
<1>6. job'.at = "fillsend" => job'.v \in fills' BY DEF Quietly, NonceInv
<1>7. \A s \in Open' : row'[s].fn =< nextNonce BY <1>1 DEF NonceInv
<1> QED BY <1>1, <1>4, <1>5, <1>6, <1>7, NoncesKept

\* A sweep that ends, or goes to its second leg, leaves no nonce behind.
LEMMA NoncesRow ==
  ASSUME Core, NonceInv, [Next]_vars, NEW s \in Sweeps, Change(s), KeptFunding(s), s \in Open,
         job'.at \notin {"clear", "failfunding", "fillsend"},
         UNCHANGED <<nextNonce, fills, alloc, other>>,
         row'[s].st = row[s].st \/ row[s].fn < Len(mined'["hot"])
           \/ (row'[s].st = "failed" /\ Freed(row[s].fn))
  PROVE  NonceInv'
<1>2. \A t \in Sweeps : row[t].fn \in Int BY DEF Core, TypeOK, RowsOK, Row
<1>3. Len(mined["hot"]) \in Nat /\ Len(mined'["hot"]) \in Nat /\ Len(mined["hot"]) =< Len(mined'["hot"])
  BY HotGrows
<1>4. \A t \in Sweeps \ {s} : row'[t] = row[t] BY DEF Change, Kept
<1>5. \A t \in Sweeps : row'[t].fn = row[t].fn BY <1>4 DEF KeptFunding
<1>6. \A t \in Open : t \in Open' \/ row[t].fn < Len(mined'["hot"]) \/ Freed(row[t].fn)
  BY <1>4 DEF Open
<1>7. \A t \in Open' : t \in Open BY <1>4 DEF Open
<1>8. \A t \in Sweeps : row'[t].st \in {"gas_funded", "broadcast"} => row'[t].fn < Len(mined'["hot"])
  <2>1. ASSUME NEW t \in Sweeps, row'[t].st \in {"gas_funded", "broadcast"}
        PROVE  row[t].fn < Len(mined'["hot"])
    <3>1. CASE row'[t].st = row[t].st
      <4>1. row[t].fn < Len(mined["hot"]) BY <2>1, <3>1 DEF NonceInv
      <4> QED BY <1>2, <1>3, <4>1
    <3>2. CASE row'[t].st # row[t].st BY <1>4, <2>1, <3>2
    <3> QED BY <3>1, <3>2
  <2> QED BY <1>5, <2>1
<1>9. \A t \in Open' : row'[t].fn =< nextNonce BY <1>5, <1>7 DEF NonceInv, Open
<1>10. \A t \in Open : \/ t \in Open' /\ row'[t].fn = row[t].fn
                       \/ row[t].fn < Len(mined'["hot"]) \/ Freed(row[t].fn)
  BY <1>5, <1>6 DEF Open
<1> QED BY <1>8, <1>9, <1>10, NoncesKept

\* The first leg and the nonce manager's part in it.
LEMMA NonceFirstLeg ==
  ASSUME Core, NonceInv, [Next]_vars,
         ClearFunding \/ AlreadyFunded \/ PinFunding \/ RecordFunding \/ FundingRefused
  PROVE  NonceInv'
<1>0. /\ Rows /\ job \in Jobs /\ nextNonce \in Nat /\ \A s \in Sweeps : row[s].fn \in Int
      /\ TypeOK
  BY DEF Core, TypeOK, Rows, RowsOK, Row, WalletOK
<1>1. Len(mined["hot"]) \in Nat /\ Len(mined'["hot"]) \in Nat /\ Len(mined["hot"]) =< Len(mined'["hot"])
  BY HotGrows
<1>i. Idle.at = "idle" BY Idling
<1>2. CASE ClearFunding
  <2> DEFINE s == job.s
  <2>1. /\ job.at = "clear" /\ UNCHANGED <<nextNonce, alloc, fills, other, mined>>
        /\ job' = [job EXCEPT !.at = "funded"]
    BY <1>2 DEF ClearFunding, wallet, node
  <2>2. /\ s \in Sweeps /\ Kept(s) /\ Prepared(s) /\ row'[s].fn = None
    BY <1>0, <1>2, RowWrites DEF Change
  <2>3. job'.at = "funded" BY <1>0, <2>1, MovesOn DEF Places
  <2>4. Freed(row[s].fn) BY <2>1 DEF NonceInv
  <2> HIDE DEF s
  <2>5. \A t \in Sweeps \ {s} : row'[t] = row[t] BY <2>2 DEF Kept
  <2>6. \A t \in Open : (t \in Open' /\ row'[t].fn = row[t].fn) \/ Freed(row[t].fn)
    BY <2>2, <2>4, <2>5 DEF Open, Prepared
  <2>7. \A t \in Sweeps : row'[t].st \in {"gas_funded", "broadcast"} => row'[t].fn < Len(mined'["hot"])
    <3>1. None < Len(mined'["hot"]) BY <1>1 DEF None
    <3> QED BY <2>1, <2>2, <2>5, <3>1 DEF Prepared, NonceInv
  <2>8. \A t \in Open' : row'[t].fn =< nextNonce
    <3>1. None =< nextNonce BY <1>0 DEF None
    <3> QED BY <2>2, <2>5, <3>1 DEF Open, NonceInv
  <2> QED BY <2>1, <2>3, <2>6, <2>7, <2>8, NoncesKept
<1>3. CASE AlreadyFunded
  <2>1. /\ job.at = "funded" /\ job'.at = "idle" /\ UNCHANGED <<nextNonce, alloc, fills, other>>
    BY <1>3, <1>i DEF AlreadyFunded, wallet
  <2>2. job.s \in Sweeps /\ Change(job.s) /\ KeptFunding(job.s) BY <1>0, <1>3, RowWrites
  <2>3. job.s \in Open /\ row[job.s].fn = None
    BY <1>0, <2>1, JobIsOpen DEF Rows, JobInv, Funds, Clean
  <2>4. row[job.s].fn < Len(mined'["hot"]) BY <1>1, <2>3 DEF None
  <2> QED BY <2>1, <2>2, <2>3, <2>4, NoncesRow
<1>4. CASE PinFunding /\ row[job.s].fn # None
  <2>1. /\ job.at = "pin" /\ UNCHANGED <<row, nextNonce, alloc, fills, other>>
        /\ job' = [job EXCEPT !.at = "sign"]
    BY <1>4 DEF PinFunding
  <2>2. job'.at = "sign" BY <1>0, <2>1, MovesOn DEF Places
  <2> QED BY <2>1, <2>2, NoncesQuiet DEF Quietly
<1>5. CASE PinFunding /\ row[job.s].fn = None
  <2> DEFINE s == job.s
             n0 == nextNonce
  <2>1. /\ job.at = "pin" /\ alloc = None /\ nextNonce' = n0 + 1 /\ UNCHANGED <<alloc, fills, other, mined>>
        /\ row' = [row EXCEPT ![s].fn = n0, ![s].fa = job.v] /\ job' = [job EXCEPT !.at = "sign"]
    BY <1>5 DEF PinFunding, node
  <2>2. job'.at = "sign" BY <1>0, <2>1, MovesOn DEF Places
  <2>3. s \in Sweeps /\ row[s].st = "requested" BY <1>0, <2>1 DEF Rows, JobInv, Funds, Clean
  <2>4. Kept(s) /\ row'[s].st = "requested" /\ row'[s].fn = n0
    <3>0. job.v \in Int BY <1>0 DEF Jobs
    <3>1. n0 \in Int /\ job.v \in Int BY <1>0, <3>0
    <3>2. row \in [Sweeps -> Row] BY <1>0 DEF TypeOK, RowsOK
    <3> HIDE DEF s, n0
    <3> QED BY <2>1, <2>3, <3>1, <3>2, WriteFunding
  <2> HIDE DEF s
  <2>5. \A t \in Sweeps \ {s} : row'[t] = row[t] BY <2>4 DEF Kept
  <2>6. \A t \in Open : t \in Open' BY <2>4, <2>5 DEF Open
  <2>7. ASSUME NEW n \in Len(mined'["hot"])..(nextNonce' - 1) PROVE Claimed(n)'
    <3>1. CASE n = n0 BY <2>3, <2>4, <3>1 DEF Claimed, Open
    <3>2. CASE n # n0
      <4>1. n \in Len(mined["hot"])..(nextNonce - 1) BY <1>0, <1>1, <2>1, <2>7, <3>2
      <4>2. Claimed(n) BY <4>1 DEF NonceInv
      <4>3. CASE n \in Holders BY <2>1, <4>3 DEF Claimed, Holders
      <4>4. ASSUME NEW t \in Open, row[t].fn = n PROVE Claimed(n)'
        <5>1. n # None BY <1>1, <4>1 DEF None
        <5>2. t # s BY <1>5, <4>4, <5>1 DEF s
        <5> QED BY <2>5, <2>6, <4>4, <5>2 DEF Claimed, Open
      <4> QED BY <4>2, <4>3, <4>4 DEF Claimed
    <3> QED BY <3>1, <3>2
  <2>8. \A t \in Sweeps : row'[t].st \in {"gas_funded", "broadcast"} => row'[t].fn < Len(mined'["hot"])
    BY <2>1, <2>4, <2>5 DEF NonceInv
  <2>9. \A t \in Open' : row'[t].fn =< nextNonce'
    <3>1. ASSUME NEW t \in Open', t # s PROVE row'[t].fn =< nextNonce'
      <4>1. t \in Open /\ row'[t] = row[t] /\ t \in Sweeps BY <2>5, <3>1 DEF Open
      <4>2. row[t].fn =< nextNonce /\ row[t].fn \in Int BY <1>0, <4>1 DEF NonceInv
      <4> QED BY <1>0, <2>1, <4>1, <4>2
    <3>2. n0 =< nextNonce' BY <1>0, <2>1
    <3> QED BY <2>4, <3>1, <3>2
  <2> QED BY <2>1, <2>2, <2>7, <2>8, <2>9 DEF NonceInv
<1>6. CASE RecordFunding
  <2>1. /\ job.at = "record" /\ UNCHANGED <<nextNonce, alloc, fills, other>>
        /\ job' = [job EXCEPT !.at = "send"]
    BY <1>6 DEF RecordFunding, wallet
  <2>2. job'.at = "send" BY <1>0, <2>1, MovesOn DEF Places
  <2>3. job.s \in Sweeps /\ Kept(job.s) /\ Prepared(job.s) /\ row'[job.s].fn = row[job.s].fn
    BY <1>0, <1>6, RowWrites DEF Change
  <2>4. \A t \in Sweeps : row'[t].st = row[t].st /\ row'[t].fn = row[t].fn
    BY <2>3 DEF Kept, Prepared
  <2>5. Open' = Open BY <2>4 DEF Open
  <2>6. \A t \in Sweeps : row'[t].st \in {"gas_funded", "broadcast"} => row'[t].fn < Len(mined'["hot"])
    <3>1. mined' = mined BY <1>6 DEF RecordFunding, node
    <3> QED BY <2>4, <3>1 DEF NonceInv
  <2>7. \A t \in Open' : row'[t].fn =< nextNonce BY <2>4, <2>5 DEF NonceInv, Open
  <2>8. \A t \in Open : t \in Open' /\ row'[t].fn = row[t].fn BY <2>4, <2>5 DEF Open
  <2> QED BY <2>1, <2>2, <2>6, <2>7, <2>8, NoncesKept
<1>7. CASE FundingRefused
  <2>1. /\ job.at = "failfunding" /\ job'.at = "idle" /\ UNCHANGED <<nextNonce, alloc, fills, other>>
    BY <1>7, <1>i DEF FundingRefused, wallet
  <2>2. job.s \in Sweeps /\ Change(job.s) /\ KeptFunding(job.s) /\ row'[job.s].st = "failed"
    BY <1>0, <1>7, RowWrites
  <2>3. job.s \in Open BY <1>0, <2>1, JobIsOpen DEF Funds
  <2>4. Freed(row[job.s].fn) BY <2>1 DEF NonceInv
  <2> QED BY <2>1, <2>2, <2>3, <2>4, NoncesRow
<1> QED BY <1>2, <1>3, <1>4, <1>5, <1>6, <1>7

\* The nonce manager: the last nonce steps back, another is filled.
LEMMA NonceManager ==
  ASSUME Core, NonceInv, [Next]_vars, "fill" \notin Faults, \A f \in Fees : f =< Ceiling,
         StepBack \/ RecordFill \/ SendFill
  PROVE  NonceInv'
<1>0. Rows /\ job \in Jobs /\ nextNonce \in Nat BY DEF Core, TypeOK, Rows, RowsOK, WalletOK
<1>1. Len(mined["hot"]) \in Nat BY Lengths DEF Core, TypeOK
<1>i. Idle.at = "idle" BY Idling
<1>2. CASE StepBack
  <2>1. /\ job.at = "stepback" /\ alloc = None /\ nextNonce' = job.v
        /\ UNCHANGED <<row, alloc, fills, other, mined>> /\ job' = [job EXCEPT !.at = job.then]
    BY <1>2 DEF StepBack, node
  <2>2. job.then \in {"clear", "failfunding"} BY <1>0, <2>1 DEF Rows, JobInv, Jobs
  <2>3. job'.at = job.then /\ job'.s = job.s BY <1>0, <2>1, <2>2, MovesOn DEF Places
  <2>4. job.s \in Open /\ job.s \in Sweeps /\ job.v = row[job.s].fn /\ row[job.s].fn # None
    BY <1>0, <2>1, <2>2, JobIsOpen DEF Rows, JobInv, Funds
  <2>5. job.v =< nextNonce /\ job.v \in Nat
    BY <1>0, <2>4 DEF NonceInv, Rows, RowInv
  <2>6. Len(mined'["hot"])..(nextNonce' - 1) \subseteq Len(mined["hot"])..(nextNonce - 1)
    BY <1>0, <1>1, <2>1, <2>5
  <2>7. Holders' = Holders /\ Open' = Open BY <2>1 DEF Holders, Open
  <2>8. \A n \in Len(mined'["hot"])..(nextNonce' - 1) : Claimed(n)'
    <3>1. \A n : Claimed(n)' <=> Claimed(n) BY <2>1, <2>7 DEF Claimed
    <3> QED BY <2>6, <3>1 DEF NonceInv
  <2>9. row'[job'.s].fn \notin Len(mined'["hot"])..(nextNonce' - 1)
    BY <1>1, <2>1, <2>3, <2>4, <2>5
  <2>10. \A s \in Open' : row'[s].fn =< nextNonce'
    <3>1. \A s \in Open : s = job.s BY <1>0, <2>4 DEF Rows, RowInv
    <3>2. row[job.s].fn =< nextNonce' BY <2>1, <2>4, <2>5
    <3> QED BY <2>1, <2>7, <3>1, <3>2
  <2>11. \A s \in Sweeps : row'[s].st \in {"gas_funded", "broadcast"} => row'[s].fn < Len(mined'["hot"])
    BY <2>1 DEF NonceInv
  <2>12. job'.at # "fillsend" BY <2>2, <2>3
  <2> QED BY <2>1, <2>8, <2>9, <2>10, <2>11, <2>12 DEF NonceInv, Freed
<1>3. ASSUME row' = row, fills \subseteq fills', UNCHANGED <<nextNonce, alloc, other, mined>>,
             job'.at \in {"clear", "failfunding"} => row[job'.s].fn \in fills' \/
                                                     (job'.s = job.s /\ Freed(row[job.s].fn)),
             job'.at = "fillsend" => job'.v \in fills'
      PROVE  NonceInv'
  <2>1. Open' = Open BY <1>3 DEF Open
  <2>2. \A s \in Sweeps : row'[s].st \in {"gas_funded", "broadcast"} => row'[s].fn < Len(mined'["hot"])
    BY <1>3 DEF NonceInv
  <2>3. \A s \in Open' : row'[s].fn =< nextNonce BY <1>3, <2>1 DEF NonceInv
  <2>4. \A s \in Open : s \in Open' /\ row'[s].fn = row[s].fn BY <1>3, <2>1
  <2>5. job'.at \in {"clear", "failfunding"} =>
          row'[job'.s].fn \in fills' \/ (row'[job'.s].fn = row[job.s].fn /\ Freed(row[job.s].fn))
    BY <1>3
  <2> HIDE <1>3
  <2>6. nextNonce' = nextNonce /\ alloc' \in {alloc, None} /\ fills \subseteq fills'
        /\ (\A o \in Others : other'[o].nonce = other[o].nonce) /\ (job'.at = "fillsend" => job'.v \in fills')
    BY <1>3
  <2> QED BY <2>2, <2>3, <2>4, <2>5, <2>6, NoncesKept
<1>4. CASE RecordFill
  <2>0. /\ job.at = "fill" /\ UNCHANGED <<row, nextNonce, alloc, other, mined>>
        /\ \/ FillFails /\ job' = AfterError /\ UNCHANGED fills
           \/ fills' = fills \cup {job.v} /\ job' = [job EXCEPT !.at = "fillsend"]
    BY <1>4 DEF RecordFill, node
  <2>1. CASE FillFails /\ job' = AfterError /\ UNCHANGED fills
    <3>1. job.v \in fills
      <4>1. fee =< Ceiling BY DEF Core, TypeOK, MoneyOK
      <4>2. fee \in Int /\ Ceiling \in Int BY SweepAssumption DEF Core, TypeOK, MoneyOK
      <4> QED BY <2>1, <4>1, <4>2 DEF FillFails
    <3>2. CASE job.then = "failfunding"
      <4>1. job'.at = "failfunding" /\ job'.s = job.s
        BY <1>0, <2>1, <3>2, MovesOn DEF AfterError, Places
      <4>2. row[job.s].fn = job.v BY <1>0, <2>0, <3>2 DEF Rows, JobInv
      <4> QED BY <1>3, <2>0, <2>1, <3>1, <4>1, <4>2
    <3>3. CASE job.then # "failfunding"
      <4>1. job'.at = "idle" BY <1>i, <2>1, <3>3 DEF AfterError
      <4> QED BY <1>3, <2>0, <2>1, <4>1
    <3> QED BY <3>2, <3>3
  <2>2. CASE fills' = fills \cup {job.v} /\ job' = [job EXCEPT !.at = "fillsend"]
    <3>1. job'.at = "fillsend" /\ job'.v = job.v BY <1>0, <2>2, MovesOn DEF Places
    <3> QED BY <1>3, <2>0, <2>2, <3>1
  <2> QED BY <2>0, <2>1, <2>2
<1>5. CASE SendFill
  <2>0. /\ job.at = "fillsend" /\ UNCHANGED <<row, nextNonce, alloc, fills, other, mined>>
        /\ job' = AfterFill \/ job' = AfterError
    BY <1>5 DEF SendFill, wallet
  <2>1. job.v \in fills BY <2>0 DEF NonceInv
  <2>2. CASE job.then \in {"clear", "failfunding"} /\ job' = [job EXCEPT !.at = job.then]
    <3>1. job'.at = job.then /\ job'.s = job.s BY <1>0, <2>2, MovesOn DEF Places
    <3>2. row[job.s].fn = job.v BY <1>0, <2>0, <2>2 DEF Rows, JobInv
    <3> QED BY <1>3, <2>0, <2>1, <2>2, <3>1, <3>2
  <2>3. CASE job' = Idle
    <3>1. job'.at = "idle" BY <1>i, <2>3
    <3> QED BY <1>3, <2>0, <3>1
  <2>4. job.then \in {"", "clear", "failfunding"} BY <1>0 DEF Jobs
  <2>5. job' = Idle \/ (job.then \in {"clear", "failfunding"} /\ job' = [job EXCEPT !.at = job.then])
    BY <2>0, <2>4 DEF AfterFill, AfterError
  <2> QED BY <2>2, <2>3, <2>5
<1> QED BY <1>2, <1>4, <1>5

\* A withdrawal's nonce is claimed once its transaction commits.
LEMMA NonceCommitted ==
  ASSUME Core, NonceInv, [Next]_vars, OtherCommits
  PROVE  NonceInv'
<1> DEFINE o == CHOOSE x \in Others : other[x].nonce = None
<1>0. /\ nextNonce \in Nat /\ other \in [Others -> [nonce : Int, sent : BOOLEAN]]
      /\ \A s \in Sweeps : row[s].fn \in Int
  BY DEF Core, TypeOK, WalletOK, RowsOK, Row
<1>1. Len(mined["hot"]) \in Nat BY Lengths DEF Core, TypeOK
<1>2. alloc = nextNonce /\ alloc # None /\ o \in Others /\ other[o].nonce = None
  BY DEF OtherCommits, NonceInv
<1>3. /\ nextNonce' = nextNonce + 1 /\ alloc' = None /\ other' = [other EXCEPT ![o].nonce = nextNonce]
      /\ UNCHANGED <<row, fills, job, mined>>
  BY <1>2 DEF OtherCommits, node
<1> HIDE DEF o
<1>4. other'[o].nonce = nextNonce /\ \A x \in Others \ {o} : other'[x] = other[x] BY <1>0, <1>2, <1>3
<1>5. ASSUME NEW n \in Holders, n # None PROVE n \in Holders'
  <2>1. CASE n \in fills BY <1>3, <2>1 DEF Holders
  <2>2. ASSUME NEW x \in Others, n = other[x].nonce PROVE n \in Holders'
    <3>1. x # o BY <1>2, <1>5, <2>2
    <3>2. other'[x].nonce = n BY <1>4, <2>2, <3>1
    <3> QED BY <3>2 DEF Holders
  <2> QED BY <1>5, <2>1, <2>2 DEF Holders
<1>6. nextNonce \in Holders'
  <2>1. other'[o].nonce \in Holders' BY <1>2 DEF Holders
  <2> QED BY <1>4, <2>1
<1>7. ASSUME NEW n \in Len(mined'["hot"])..(nextNonce' - 1)
      PROVE  n # None /\ (n \in Len(mined["hot"])..(nextNonce - 1) \/ n = nextNonce)
  BY <1>0, <1>1, <1>3, <1>7 DEF None
<1>8. Open' = Open BY <1>3 DEF Open
<1>9. ASSUME NEW n \in Len(mined'["hot"])..(nextNonce' - 1) PROVE Claimed(n)'
  <2>1. CASE n = nextNonce BY <1>6, <2>1 DEF Claimed
  <2>2. CASE n # nextNonce
    <3>1. Claimed(n) /\ n # None BY <1>7, <1>9, <2>2 DEF NonceInv
    <3> QED BY <1>3, <1>5, <1>8, <3>1 DEF Claimed
  <2> QED BY <2>1, <2>2
<1>10. ASSUME NEW n, Freed(n) PROVE Freed(n)'
  <2> SUFFICES ASSUME n \in Len(mined'["hot"])..(nextNonce' - 1) PROVE n \in Holders' BY DEF Freed
  <2>1. n # None /\ (n \in Len(mined["hot"])..(nextNonce - 1) \/ n = nextNonce) BY <1>7
  <2> QED BY <1>5, <1>6, <1>10, <2>1 DEF Freed
<1>11. job'.at \in {"clear", "failfunding"} => Freed(row[job.s].fn)'
  <2>1. ASSUME NEW m, m = row[job.s].fn, job.at \in {"clear", "failfunding"} PROVE Freed(m)'
    <3>1. Freed(m) BY <2>1 DEF NonceInv
    <3> QED BY <1>10, <3>1
  <2>2. row'[job'.s].fn = row[job.s].fn BY <1>3
  <2> QED BY <1>3, <2>1, <2>2
<1>12. \A s \in Open' : row'[s].fn =< nextNonce'
  <2>1. ASSUME NEW s \in Open PROVE row[s].fn =< nextNonce'
    <3>1. row[s].fn =< nextNonce /\ row[s].fn \in Int BY <1>0 DEF NonceInv, Open
    <3> QED BY <1>0, <1>3, <3>1
  <2> QED BY <1>3, <1>8, <2>1
<1>13. \A s \in Sweeps : row'[s].st \in {"gas_funded", "broadcast"} => row'[s].fn < Len(mined'["hot"])
  BY <1>3 DEF NonceInv
<1>14. job'.at = "fillsend" => job'.v \in fills' BY <1>3 DEF NonceInv
<1> QED BY <1>3, <1>9, <1>11, <1>12, <1>13, <1>14 DEF NonceInv

\* The steps of a sweep that write its row, the second leg's and the plan's.
LEMMA NonceRows ==
  ASSUME Core, NonceInv, [Next]_vars, NEW s \in Sweeps,
         \/ TrackFunding(s) \/ BalanceChanged(s) \/ PinSweepNonce(s) \/ Track(s)
         \/ job.s = s /\ (SignSweep \/ MarkBroadcast \/ SweepRefused)
  PROVE  NonceInv'
<1>0. /\ Rows /\ job \in Jobs /\ TypeOK /\ NodeOK /\ ChainInv /\ \A t \in Sweeps : row[t].fn \in Int
  BY DEF Core, TypeOK, Rows, RowsOK, Row
<1>1. Len(mined["hot"]) \in Nat /\ Len(mined'["hot"]) \in Nat /\ Len(mined["hot"]) =< Len(mined'["hot"])
  BY HotGrows
<1>i. Idle.at = "idle" BY Idling
<1>l. ASSUME row[s].asset = "eth" \/ row[s].st \in {"gas_funded", "broadcast"}
      PROVE  row[s].fn < Len(mined'["hot"])
  <2>1. row[s].fn = None \/ row[s].fn < Len(mined["hot"]) BY <1>0, <1>l DEF Rows, RowInv, NonceInv
  <2> QED BY <1>0, <1>1, <2>1 DEF None
<1>s. ASSUME Sends, job.s = s
      PROVE  s \in Open /\ (row[s].asset = "eth" \/ row[s].st \in {"gas_funded", "broadcast"})
  BY <1>0, <1>s, JobIsOpen DEF Rows, JobInv
<1>2. CASE TrackFunding(s)
  <2>1. /\ Change(s) /\ KeptFunding(s) /\ s \in Open BY <1>0, <1>2, RowWrites DEF Advanced
  <2>2. job.at = "idle" /\ UNCHANGED <<job, nextNonce, fills, alloc, other>> /\ Mined(FundTx(s))
    BY <1>2, <1>i DEF TrackFunding, Tracking, Ready, wallet
  <2>3. row[s].fn < Len(mined["hot"])
    <3>1. FundTx(s).nonce < Len(mined[Sender(FundTx(s))]) BY <1>0, <2>2, MinedNonce
    <3> QED BY <3>1 DEF FundTx, Tx, Sender
  <2>4. row[s].fn < Len(mined'["hot"]) BY <1>0, <1>1, <2>3
  <2> QED BY <2>1, <2>2, <2>4, NoncesRow
<1>3. CASE BalanceChanged(s)
  <2>1. Change(s) /\ s \in Open /\ row'[s].st = "failed" BY <1>0, <1>3, RowWrites DEF Advanced
  <2>2. /\ job.at = "idle" /\ UNCHANGED <<job, nextNonce, fills, alloc, other>>
        /\ row[s].asset = "eth" \/ row[s].st = "gas_funded"
        /\ row' = [row EXCEPT ![s].st = "failed", ![s].gas = 0]
    BY <1>3, <1>i DEF BalanceChanged, ToSend, Ready, Fail, wallet
  <2>3. KeptFunding(s)
    <3>1. row \in [Sweeps -> Row] /\ 0 \in Int BY <1>0 DEF TypeOK, RowsOK
    <3> QED BY <2>2, <3>1, WriteEnd
  <2> QED BY <1>l, <2>1, <2>2, <2>3, NoncesRow
<1>4. CASE PinSweepNonce(s)
  <2>1. Change(s) /\ Prepared(s) /\ KeptFunding(s) BY <1>0, <1>4, RowWrites
  <2>2. /\ s \in Open /\ UNCHANGED <<nextNonce, fills, alloc, other>> /\ job' = Job("signsweep", s, 0)
    BY <1>4 DEF PinSweepNonce, ToSend, Ready, Open, wallet
  <2>3. job'.at = "signsweep" BY <2>2 DEF Job
  <2> QED BY <2>1, <2>2, <2>3, NoncesRow DEF Prepared
<1>5. CASE Track(s)
  <2>1. Change(s) /\ KeptFunding(s) BY <1>0, <1>5, RowWrites
  <2>2. /\ s \in Open /\ job.at = "idle" /\ UNCHANGED <<job, nextNonce, fills, alloc, other>>
        /\ row[s].st = "broadcast"
    BY <1>5, <1>i DEF Track, Ready, Open, wallet
  <2> QED BY <1>l, <2>1, <2>2, NoncesRow
<1>6. CASE job.s = s /\ SignSweep
  <2>1. Change(s) /\ Prepared(s) /\ KeptFunding(s) BY <1>0, <1>6, RowWrites
  <2>2. /\ UNCHANGED <<nextNonce, fills, alloc, other>> /\ job.at = "signsweep"
        /\ job' = [job EXCEPT !.at = "sendsweep"]
    BY <1>6 DEF SignSweep, wallet
  <2>3. job'.at = "sendsweep" BY <1>0, <2>2, MovesOn DEF Places
  <2>4. s \in Open BY <1>s, <1>6, <2>2 DEF Sends
  <2> QED BY <2>1, <2>2, <2>3, <2>4, NoncesRow DEF Prepared
<1>7. CASE job.s = s /\ (MarkBroadcast \/ SweepRefused)
  <2>1. Change(s) /\ KeptFunding(s) BY <1>0, <1>7, RowWrites
  <2>2. /\ UNCHANGED <<nextNonce, fills, alloc, other>> /\ job.at \in {"mark", "refused"}
        /\ job' = Idle
    BY <1>7 DEF MarkBroadcast, SweepRefused, wallet
  <2>3. s \in Open /\ row[s].fn < Len(mined'["hot"]) BY <1>s, <1>l, <1>7, <2>2 DEF Sends
  <2> QED BY <1>i, <2>1, <2>2, <2>3, NoncesRow
<1> QED BY <1>2, <1>3, <1>4, <1>5, <1>6, <1>7

LEMMA NoncePlan ==
  ASSUME Core, NonceInv, [Next]_vars, NEW s \in Sweeps, NEW a \in Assets, Plan(s, a)
  PROVE  NonceInv'
<1>0. /\ Rows /\ TypeOK /\ nextNonce \in Nat BY DEF Core, TypeOK, Rows, WalletOK
<1>1. /\ row[s].st = "none" /\ Open = {} /\ UNCHANGED <<nextNonce, fills, alloc, other, job, mined>>
      /\ job.at = "idle"
  BY Idling DEF Plan, wallet, node
<1>2. Kept(s) /\ row'[s].st = "requested" /\ row'[s].fn = row[s].fn
  <2>1. Kept(s) /\ Planned(s) BY <1>0, RowWrites DEF Change
  <2>2. row' = [row EXCEPT ![s] = [@ EXCEPT !.st = "requested", !.asset = a, !.amt = Sweepable(a)]]
    BY DEF Plan
  <2>3. Sweepable(a) \in Int /\ a \in {"eth", "tok"} BY SweepableBound DEF Core, TypeOK
  <2>4. row \in [Sweeps -> Row] BY <1>0 DEF TypeOK, RowsOK
  <2>5. KeptFunding(s) BY <2>2, <2>3, <2>4, WritePlan
  <2> QED BY <2>1, <2>5 DEF Planned, KeptFunding
<1>3. row[s].fn = None BY <1>0, <1>1 DEF Rows, RowInv
<1>4. \A t \in Open' : row'[t].fn =< nextNonce
  <2>1. Open' \subseteq {s} BY <1>1, <1>2 DEF Open, Kept
  <2>2. None =< nextNonce BY <1>0 DEF None
  <2> QED BY <1>2, <1>3, <2>1, <2>2
<1>5. \A t \in Sweeps : row'[t].st \in {"gas_funded", "broadcast"} => row'[t].fn < Len(mined'["hot"])
  BY <1>1, <1>2 DEF NonceInv, Kept
<1> QED BY <1>1, <1>4, <1>5, NoncesKept

LEMMA NonceStep ==
  ASSUME Core, NonceInv, [Next]_vars, "fill" \notin Faults, \A f \in Fees : f =< Ceiling
  PROVE  NonceInv'
<1>0. Rows /\ job \in Jobs /\ TypeOK BY DEF Core, TypeOK, Rows, RowsOK
<1>i. Idle.at = "idle" BY Idling
<1>j. \A x, s, v : Job(x, s, v).at = x BY DEF Job
<1>1. ASSUME UNCHANGED <<row, nextNonce, fills, other>>, alloc' \in {alloc, None}, Quietly PROVE NonceInv'
  BY <1>1, NoncesQuiet
<1>2. ASSUME NEW a \in Assets, Deposit(a) \/ Credit(a) \/ Gift(a) PROVE NonceInv'
  BY <1>1, <1>2 DEF Deposit, Credit, Gift, wallet, Quietly
<1>3. ASSUME NEW s \in Sweeps, FundGas(s) \/ SendSigned(s) PROVE NonceInv'
  <2>1. /\ UNCHANGED <<row, nextNonce, alloc, fills, other>>
        /\ \/ job' = Job("release", s, 0) \/ job' = Job("pin", s, fee - held["eth"])
           \/ job' = Job("sendsweep", s, 0)
    BY <1>3 DEF FundGas, SendSigned, wallet
  <2>2. job'.at \in {"release", "pin", "sendsweep"} BY <1>j, <2>1
  <2> QED BY <1>1, <2>1, <2>2 DEF Quietly
<1>4. ASSUME NEW s \in Sweeps, ResendFunding(s) \/ ResendSweep(s) PROVE NonceInv'
  BY <1>1, <1>4 DEF ResendFunding, ResendSweep, wallet, Quietly
<1>5. ASSUME NEW x \in {"funded", "recycle", "record", "mark", "refused", "send", "stepback", "fill"},
             UNCHANGED <<row, nextNonce, alloc, fills, other>>, job'.at = x
      PROVE  NonceInv'
  BY <1>1, <1>5 DEF Quietly
<1>6. CASE Release \/ SendFunding
  <2>1. /\ UNCHANGED <<row, nextNonce, alloc, fills, other>>
        /\ \/ job' = [job EXCEPT !.at = "funded"] \/ job' = Idle
           \/ job' = [job EXCEPT !.at = "recycle", !.then = "clear"]
           \/ job' = [job EXCEPT !.at = "recycle", !.then = "failfunding"]
    BY <1>6 DEF Release, SendFunding, wallet
  <2>2. job'.at \in {"funded", "idle", "recycle"} BY <1>0, <1>i, <2>1, MovesOn, Recycles DEF Places
  <2> QED BY <1>1, <2>1, <2>2 DEF Quietly
<1>7. CASE SignFunding \/ SignFundingFails \/ SignSweepFails \/ SendSweep
  <2>1. /\ UNCHANGED <<row, nextNonce, alloc, fills, other>>
        /\ \/ job' = [job EXCEPT !.at = "record"] \/ job' = Idle
           \/ job' = [job EXCEPT !.at = "mark"] \/ job' = [job EXCEPT !.at = "refused"]
    BY <1>7 DEF SignFunding, SignFundingFails, SignSweepFails, SendSweep, wallet
  <2>2. job'.at \in {"record", "idle", "mark", "refused"} BY <1>0, <1>i, <2>1, MovesOn DEF Places
  <2> QED BY <1>1, <2>1, <2>2 DEF Quietly
<1>8. CASE Recycle
  <2>1. /\ UNCHANGED <<row, nextNonce, alloc, fills, other>> /\ job.at = "recycle"
        /\ \/ job' = [job EXCEPT !.at = "stepback", !.v = row[job.s].fn]
           \/ job' = [job EXCEPT !.at = "fill", !.v = row[job.s].fn]
    BY <1>8 DEF Recycle, wallet
  <2>2. job.s \in Sweeps BY <1>0, <2>1 DEF Rows, JobInv, Funds
  <2>3. row[job.s].fn \in Int BY <1>0, <2>2 DEF TypeOK, RowsOK, Row
  <2>4. job'.at \in {"stepback", "fill"} BY <1>0, <2>1, <2>3, Resolves
  <2> QED BY <1>1, <2>1, <2>4 DEF Quietly
<1>9. CASE MoveFee \/ Crash \/ Start \/ StartFill \/ Started
  <2>1. /\ UNCHANGED <<row, nextNonce, fills, other>> /\ alloc' \in {alloc, None}
        /\ job' = job \/ job' = Idle \/ job' = Job("fill", "none", Min(Gaps))
    BY <1>9 DEF MoveFee, Crash, Start, StartFill, Started, wallet
  <2>2. job' = job \/ job'.at \in {"idle", "fill"} BY <1>i, <1>j, <2>1
  <2> QED BY <1>1, <2>1, <2>2 DEF Quietly
<1>10. CASE OtherAllocates
  <2>1. /\ UNCHANGED <<row, nextNonce, fills, other, job, mined>> /\ alloc' = nextNonce
        /\ \E o \in Others : other[o].nonce = None
    BY <1>10 DEF OtherAllocates, node
  <2>2. Holders' = Holders /\ Open' = Open BY <2>1 DEF Holders, Open
  <2>3. \A n : (Claimed(n)' <=> Claimed(n)) /\ (Freed(n)' <=> Freed(n)) BY <2>1, <2>2 DEF Claimed, Freed
  <2>4. job'.at \in {"clear", "failfunding"} => Freed(row[job.s].fn)'
    BY <2>1, <2>2 DEF NonceInv, Freed
  <2> QED BY <2>1, <2>2, <2>3, <2>4 DEF NonceInv
<1>11. ASSUME NEW o \in Others, OtherSends(o) PROVE NonceInv'
  <2>1. UNCHANGED <<row, nextNonce, fills, alloc, job>> /\ other' = [other EXCEPT ![o].sent = TRUE]
    BY <1>11 DEF OtherSends
  <2>2. other \in [Others -> [nonce : Int, sent : BOOLEAN]] BY <1>0 DEF TypeOK, WalletOK
  <2>3. \A x \in Others : other'[x].nonce = other[x].nonce
    <3>1. ASSUME NEW x \in Others, x # o PROVE other'[x].nonce = other[x].nonce BY <2>1, <2>2, <3>1
    <3>2. other'[o].nonce = other[o].nonce
      <4>1. other'[o] = [other[o] EXCEPT !.sent = TRUE] BY <2>1, <2>2
      <4>2. other[o] \in [nonce : Int, sent : BOOLEAN] BY <2>2
      <4> QED BY <4>1, <4>2
    <3> QED BY <3>1, <3>2
  <2> QED BY <2>1, <2>3, NoncesQuiet DEF Quietly
<1>12. ASSUME NEW tx \in pool, Mine(tx) \/ Drop(tx) PROVE NonceInv'
  BY <1>1, <1>12 DEF Mine, Drop, wallet, Quietly
<1>13. CASE UNCHANGED vars BY <1>1, <1>13 DEF vars, wallet, Quietly
<1>14. ASSUME NEW s \in Sweeps, SweepStep(s) PROVE NonceInv'
  BY <1>3, <1>4, <1>14, NonceRows DEF SweepStep
<1>15. CASE JobStep
  <2>1. CASE SignSweep \/ MarkBroadcast \/ SweepRefused
    <3>1. job.s \in Sweeps BY <1>0, <2>1, RowWrites
    <3> QED BY <2>1, <3>1, NonceRows
  <2> QED BY <1>6, <1>7, <1>8, <1>15, <2>1, NonceFirstLeg, NonceManager DEF JobStep
<1>16. ASSUME NEW a \in Assets, NEW s \in Sweeps, Plan(s, a) PROVE NonceInv' BY <1>16, NoncePlan
<1>17. CASE OtherCommits BY <1>17, NonceCommitted
<1> QED BY <1>2, <1>9, <1>10, <1>11, <1>12, <1>13, <1>14, <1>15, <1>16, <1>17, Zenon DEF Next

LEMMA NonceInit == ASSUME Init PROVE NonceInv
<1>1. /\ \A s \in Sweeps : row[s].st = "none"
      /\ nextNonce = 0 /\ alloc = None /\ job = Idle /\ mined = [a \in {"hot", "addr"} |-> << >>]
  BY DEF Init
<1>2. Open = {} BY <1>1 DEF Open
<1>3. Len(mined["hot"]) = 0 BY <1>1
<1>4. Len(mined["hot"])..(nextNonce - 1) = {} BY <1>1, <1>3
<1> QED BY <1>1, <1>2, <1>4, Idling DEF NonceInv

\* Between two steps of a sweeper that is up, every nonce handed out and not yet
\* mined has somebody to take it, whatever the node forgets or refuses and however
\* often the process restarts, as long as the fills of gaps can be signed and the
\* fee market stays below the ceiling: a fill that fails leaves the nonce of a
\* refused funding to nobody.  It does not say that a nonce has one taker only
\* (NonceOfOne).
THEOREM NoncesClaimed ==
  ASSUME "fill" \notin Faults, \A f \in Fees : f =< Ceiling
  PROVE  Spec => []NoAbandonedNonce
<1>1. Init => Core /\ NonceInv BY CoreInit, NonceInit
<1>2. Core /\ NonceInv /\ [Next]_vars => (Core /\ NonceInv)' BY CoreStep, NonceStep
<1>3. Core /\ NonceInv => NoAbandonedNonce
  BY DEF NonceInv, Claimed, NoAbandonedNonce
<1> QED BY <1>1, <1>2, <1>3, PTL DEF Spec

-----------------------------------------------------------------------------
(* The sweeper's books: the ledger's custody account of the deposit        *)
(* address follows what the chain has of it.                               *)

\* A transaction that may still be mined belongs to a row that waits for it.
Awaited(tx) ==
  /\ tx.kind = "fund" => row[tx.id].st = "requested" /\ ~(job.then = "failfunding" /\ job.s = tx.id)
  /\ tx.kind = "sweep" => tx.id \in Open /\ ~(job.at = "refused" /\ job.s = tx.id)

LiveInv ==
  /\ \A tx \in pool : Awaited(tx)
  /\ job.then = "failfunding" => ~Mined(FundTx(job.s))
  /\ job.at = "refused" => ~Mined(SweepTx(job.s))

\* What the ledger has of the address when no sweep is open; and of an open one,
\* the funding that came and is not booked, what went and the gas it burnt.
Base(a) == held[a] - unseen[a] - (IF a \in Assets THEN coming[a] ELSE 0)
Came(s) == IF row[s].st = "requested" /\ row[s].fsigned /\ Succeeded(FundTx(s)) THEN row[s].fa ELSE 0
Went(s, a) == IF row[s].signed /\ Succeeded(SweepTx(s)) /\ row[s].asset = a THEN row[s].amt ELSE 0
Burnt(s) == IF row[s].signed /\ Mined(SweepTx(s)) THEN Cost ELSE 0

BooksInv ==
  /\ Open = {} => book.eth = Base("eth") /\ book.tok = Base("tok")
  /\ \A s \in Open :
       /\ book.eth = Base("eth") - Came(s) + Went(s, "eth") + Burnt(s)
       /\ book.tok = Base("tok") + Went(s, "tok")

-----------------------------------------------------------------------------
(* Transactions that wait to be mined.                                     *)

Pending(k, s) == \E tx \in pool : tx.kind = k /\ tx.id = s

LEMMA PendingIs ==
  ASSUME Core, LiveInv, NEW s \in Sweeps
  PROVE  /\ Pending("fund", s) => /\ row[s].st = "requested" /\ row[s].fsigned /\ row[s].asset = "tok"
                                  /\ FundTx(s) \in pool /\ ~Mined(FundTx(s))
                                  /\ ~(job.then = "failfunding" /\ job.s = s)
         /\ Pending("sweep", s) => /\ s \in Open /\ row[s].signed /\ SweepTx(s) \in pool /\ ~Mined(SweepTx(s))
                                   /\ ~(job.at = "refused" /\ job.s = s)
<1>1. \A tx \in pool : Genuine(tx) /\ ~Mined(tx) /\ Awaited(tx) BY DEF Core, ChainInv, LiveInv
<1>2. row[s].st = "requested" /\ row[s].fsigned => row[s].asset = "tok"
  BY SweepAssumption DEF Core, Rows, RowInv
<1> QED BY <1>1, <1>2 DEF Pending, Genuine, Awaited

\* What is mined was signed and recorded.
LEMMA MinedIs ==
  ASSUME Core, NEW s \in Sweeps
  PROVE  /\ Mined(FundTx(s)) => row[s].fsigned
         /\ Mined(SweepTx(s)) => row[s].signed
         /\ Succeeded(FundTx(s)) => Mined(FundTx(s))
         /\ Succeeded(SweepTx(s)) => Mined(SweepTx(s))
<1>1. ASSUME NEW tx, Mined(tx) PROVE Genuine(tx)
  <2>1. Sender(tx) \in {"hot", "addr"} BY DEF Sender
  <2> QED BY <1>1, <2>1 DEF Mined, Core, ChainInv
<1>2. FundTx(s).kind = "fund" /\ FundTx(s).id = s /\ SweepTx(s).kind = "sweep" /\ SweepTx(s).id = s
  BY DEF FundTx, SweepTx, Tx
<1>3. \A tx : Succeeded(tx) => Mined(tx) BY DEF Succeeded, Mined
<1>4. Mined(FundTx(s)) => row[s].fsigned BY <1>1, <1>2 DEF Genuine
<1>5. Mined(SweepTx(s)) => row[s].signed BY <1>1, <1>2 DEF Genuine
<1> QED BY <1>3, <1>4, <1>5

\* The sweeper is not left with a refusal it has not got.
Answered ==
  /\ job'.then = "failfunding" => job.then = "failfunding" /\ job'.s = job.s
  /\ job'.at = "refused" => job.at = "refused" /\ job'.s = job.s

LEMMA LiveSend ==
  ASSUME Core, LiveInv, UNCHANGED <<row, mined>>, Answered,
         NEW x, pool' \subseteq pool \cup {x},
         x.kind = "fund" => row[x.id].st = "requested" /\ job'.then # "failfunding",
         x.kind = "sweep" => x.id \in Open /\ job'.at # "refused"
  PROVE  LiveInv'
<1>1. Open' = Open BY DEF Open
<1>2. ASSUME NEW tx \in pool PROVE Awaited(tx)'
  <2>1. Awaited(tx) BY DEF LiveInv
  <2> QED BY <1>1, <2>1 DEF Awaited, Answered
<1>3. Awaited(x)' BY <1>1 DEF Awaited
<1>4. \A tx \in pool' : Awaited(tx)' BY <1>2, <1>3
<1>5. \A t : Mined(t)' <=> Mined(t) BY DEF Mined
<1>6. job'.then = "failfunding" => ~Mined(FundTx(job.s))' BY DEF Answered, LiveInv, Mined, FundTx
<1>7. job'.at = "refused" => ~Mined(SweepTx(job.s))' BY DEF Answered, LiveInv, Mined, SweepTx
<1> QED BY <1>4, <1>6, <1>7 DEF LiveInv

LEMMA LiveQuiet ==
  ASSUME Core, LiveInv, UNCHANGED <<row, mined>>, Answered, pool' \subseteq pool
  PROVE  LiveInv'
<1> DEFINE x == FillTx(0)
<1>1. x.kind = "fill" BY DEF FillTx, Tx
<1>2. pool' \subseteq pool \cup {x} OBVIOUS
<1> HIDE DEF x
<1> QED BY <1>1, <1>2, LiveSend

LEMMA LiveWrite ==
  ASSUME Core, LiveInv, NEW s \in Sweeps, Kept(s), UNCHANGED <<pool, mined>>,
         job'.then # "failfunding", job'.at # "refused",
         Pending("fund", s) => row'[s].st = "requested",
         Pending("sweep", s) => row'[s].st \in {"requested", "gas_funded", "broadcast"}
  PROVE  LiveInv'
<1>1. ASSUME NEW tx \in pool PROVE Awaited(tx)'
  <2>1. Awaited(tx) /\ Genuine(tx) BY DEF LiveInv, Core, ChainInv
  <2>2. CASE tx.id = s BY <2>2 DEF Awaited, Pending, Open
  <2>3. CASE tx.id # s BY <2>1, <2>3 DEF Awaited, Genuine, Kept, Open
  <2> QED BY <2>2, <2>3
<1> QED BY <1>1 DEF LiveInv

LEMMA LiveMine ==
  ASSUME Core, LiveInv, NEW tx \in pool, Mine(tx)
  PROVE  LiveInv'
<1>1. UNCHANGED <<row, job>> /\ pool' \subseteq pool BY DEF Mine
<1>2. \A t \in pool' : Awaited(t)'
  <2>1. Open' = Open BY <1>1 DEF Open
  <2> QED BY <1>1, <2>1 DEF LiveInv, Awaited
<1>3. Awaited(tx) /\ TypeOK BY DEF LiveInv, Core
<1>4. ASSUME NEW t, t # tx, ~Mined(t) PROVE ~Mined(t)' BY <1>3, <1>4, MinedThen
<1>5. ASSUME job.then = "failfunding" PROVE ~Mined(FundTx(job.s))'
  <2> DEFINE t == FundTx(job.s)
  <2>1. ~Mined(t) BY <1>5 DEF LiveInv
  <2>2. t # tx BY <1>3, <1>5 DEF Awaited, FundTx, Tx
  <2>3. ASSUME NEW u, u = t PROVE ~Mined(u)' BY <1>4, <2>1, <2>2, <2>3
  <2>4. FundTx(job.s)' = t BY <1>1 DEF FundTx
  <2> HIDE DEF t
  <2> QED BY <2>3, <2>4 DEF Mined
<1>6. ASSUME job.at = "refused" PROVE ~Mined(SweepTx(job.s))'
  <2> DEFINE t == SweepTx(job.s)
  <2>1. ~Mined(t) BY <1>6 DEF LiveInv
  <2>2. t # tx BY <1>3, <1>6 DEF Awaited, SweepTx, Tx
  <2>3. ASSUME NEW u, u = t PROVE ~Mined(u)' BY <1>4, <2>1, <2>2, <2>3
  <2>4. SweepTx(job.s)' = t BY <1>1 DEF SweepTx
  <2> HIDE DEF t
  <2> QED BY <2>3, <2>4 DEF Mined
<1> QED BY <1>1, <1>2, <1>5, <1>6 DEF LiveInv

\* An honest refusal: no node holds the transaction and none ever mined it.
LEMMA LiveRefused ==
  ASSUME Core, LiveInv, [Next]_vars, "rpc" \notin Faults,
         \/ SendFunding /\ Refuses(FundTx(job.s)) /\ job' = [job EXCEPT !.at = "recycle", !.then = "failfunding"]
         \/ SendSweep /\ Refuses(SweepTx(job.s)) /\ job' = [job EXCEPT !.at = "refused"]
  PROVE  LiveInv'
<1>0. Rows /\ job \in Jobs /\ NodeOK /\ ChainInv BY DEF Core, TypeOK, Rows, RowsOK
<1>1. UNCHANGED <<row, mined, pool>> BY DEF SendFunding, SendSweep, Refuses
<1>2. Open' = Open /\ \A t : Mined(t)' <=> Mined(t) BY <1>1 DEF Open, Mined
<1>3. CASE /\ SendFunding /\ Refuses(FundTx(job.s))
           /\ job' = [job EXCEPT !.at = "recycle", !.then = "failfunding"]
  <2>1. job'.at = "recycle" /\ job'.s = job.s /\ job'.then = "failfunding" BY <1>0, <1>3, Recycles
  <2>2. ~Known(FundTx(job.s)) BY <1>3 DEF Refuses
  <2>3. ~Mined(FundTx(job.s)) /\ FundTx(job.s) \notin pool BY <1>0, <2>2, UnknownNotMined
  <2>4. job.s \in Sweeps BY <1>0, <1>3 DEF SendFunding, Rows, JobInv, Funds
  <2>5. ~Pending("fund", job.s) BY <2>3, <2>4, PendingIs
  <2>6. \A tx \in pool' : Awaited(tx)'
    BY <1>1, <1>2, <2>1, <2>5 DEF Awaited, LiveInv, Pending
  <2>7. ~Mined(FundTx(job.s))' BY <1>1, <2>1, <2>3 DEF Mined, FundTx
  <2> QED BY <2>1, <2>6, <2>7 DEF LiveInv
<1>4. CASE SendSweep /\ Refuses(SweepTx(job.s)) /\ job' = [job EXCEPT !.at = "refused"]
  <2>1. job'.at = "refused" /\ job'.s = job.s /\ job'.then = job.then BY <1>0, <1>4, MovesOn DEF Places
  <2>2. ~Known(SweepTx(job.s)) BY <1>4 DEF Refuses
  <2>3. ~Mined(SweepTx(job.s)) /\ SweepTx(job.s) \notin pool BY <1>0, <2>2, UnknownNotMined
  <2>4. job.s \in Sweeps /\ job.then = "" BY <1>0, <1>4 DEF SendSweep, Rows, JobInv, Sends
  <2>5. ~Pending("sweep", job.s) BY <2>3, <2>4, PendingIs
  <2>6. \A tx \in pool' : Awaited(tx)'
    BY <1>1, <1>2, <2>1, <2>4, <2>5 DEF Awaited, LiveInv, Pending
  <2>7. ~Mined(SweepTx(job.s))' BY <1>1, <2>1, <2>3 DEF Mined, SweepTx
  <2> QED BY <2>1, <2>4, <2>6, <2>7 DEF LiveInv
<1> QED BY <1>3, <1>4

\* The statements that write a row, by what the node may still hold of it.
LEMMA LiveRows ==
  ASSUME Core, LiveInv, NEW s \in Sweeps,
         \/ TrackFunding(s) \/ BalanceChanged(s) \/ PinSweepNonce(s) \/ Track(s)
         \/ job.s = s /\ (\/ ClearFunding \/ AlreadyFunded \/ RecordFunding \/ FundingRefused
                          \/ SignSweep \/ MarkBroadcast \/ SweepRefused
                          \/ PinFunding /\ row' # row)
  PROVE  LiveInv'
<1>0. Rows /\ job \in Jobs /\ TypeOK /\ RowInv /\ JobInv BY DEF Core, TypeOK, Rows, RowsOK
<1>i. Idle.at = "idle" /\ Idle.then = "" BY Idling
<1>t. job.at = "idle" => job.then = "" BY <1>0 DEF JobInv
<1>p. /\ Pending("fund", s) => row[s].st = "requested" /\ row[s].fsigned /\ row[s].asset = "tok"
                               /\ ~Mined(FundTx(s)) /\ ~(job.then = "failfunding" /\ job.s = s)
      /\ Pending("sweep", s) => /\ s \in Open /\ row[s].signed /\ ~Mined(SweepTx(s))
                                /\ ~(job.at = "refused" /\ job.s = s)
  BY PendingIs
<1>o. Pending("sweep", s) => row[s].st \in {"requested", "gas_funded", "broadcast"} BY <1>p DEF Open
<1>u. row[s].asset = "tok" /\ row[s].st = "requested" => ~Pending("sweep", s) BY <1>0, <1>p DEF RowInv
<1>2. CASE TrackFunding(s)
  <2>1. Kept(s) /\ row'[s].st \in {"gas_funded", "failed"} BY <1>0, <1>2, RowWrites DEF Change
  <2>2. /\ UNCHANGED <<pool, mined, job>> /\ job.at = "idle" /\ row[s].asset = "tok"
        /\ row[s].st = "requested" /\ Mined(FundTx(s))
    BY <1>2, <1>i DEF TrackFunding, Tracking, Ready, node
  <2> QED BY <1>t, <1>p, <1>u, <2>1, <2>2, LiveWrite
<1>3. CASE BalanceChanged(s)
  <2>1. Kept(s) /\ row'[s].st = "failed" BY <1>0, <1>3, RowWrites DEF Change
  <2>2. /\ UNCHANGED <<pool, mined, job>> /\ job.at = "idle" /\ ~row[s].signed
        /\ row[s].asset = "eth" \/ row[s].st = "gas_funded"
    BY <1>3, <1>i DEF BalanceChanged, ToSend, Ready, node
  <2> QED BY <1>t, <1>p, <2>1, <2>2, LiveWrite
<1>4. CASE PinSweepNonce(s)
  <2>1. Kept(s) /\ row'[s].st = row[s].st BY <1>0, <1>4, RowWrites DEF Change, Prepared
  <2>2. UNCHANGED <<pool, mined>> /\ job' = Job("signsweep", s, 0) BY <1>4 DEF PinSweepNonce, node
  <2>3. job'.at = "signsweep" /\ job'.then = "" BY <2>2 DEF Job
  <2> QED BY <1>p, <1>o, <2>1, <2>2, <2>3, LiveWrite
<1>5. CASE Track(s)
  <2>1. Kept(s) BY <1>0, <1>5, RowWrites DEF Change
  <2>2. /\ UNCHANGED <<pool, mined, job>> /\ job.at = "idle" /\ row[s].st = "broadcast"
        /\ Mined(SweepTx(s))
    BY <1>5, <1>i DEF Track, Ready, node
  <2> QED BY <1>t, <1>p, <2>1, <2>2, LiveWrite
<1>6. CASE job.s = s /\ (ClearFunding \/ RecordFunding \/ SignSweep \/ (PinFunding /\ row' # row))
  <2>1. Kept(s) /\ row'[s].st = row[s].st BY <1>0, <1>6, RowWrites DEF Change, Prepared
  <2>2. /\ UNCHANGED <<pool, mined>> /\ job.at \in {"clear", "record", "signsweep", "pin"}
        /\ \E x \in {"funded", "send", "sendsweep", "sign"} : job' = [job EXCEPT !.at = x]
    BY <1>6 DEF ClearFunding, RecordFunding, SignSweep, PinFunding, node
  <2>3. job'.at \in {"funded", "send", "sendsweep", "sign"} /\ job'.then = job.then
    BY <1>0, <2>2, MovesOn DEF Places
  <2>4. job.then # "failfunding" BY <1>0, <2>2 DEF JobInv, Funds, Clean
  <2> QED BY <1>p, <1>o, <2>1, <2>2, <2>3, <2>4, LiveWrite
<1>7. CASE job.s = s /\ AlreadyFunded
  <2>1. Kept(s) /\ row'[s].st = "gas_funded" BY <1>0, <1>7, RowWrites DEF Change
  <2>2. UNCHANGED <<pool, mined>> /\ job' = Idle /\ job.at = "funded" BY <1>7 DEF AlreadyFunded, node
  <2>3. ~row[s].fsigned BY <1>0, <1>7, <2>2 DEF JobInv, Funds, Clean
  <2> QED BY <1>i, <1>p, <2>1, <2>2, <2>3, LiveWrite
<1>8. CASE job.s = s /\ FundingRefused
  <2>1. Kept(s) /\ row'[s].st = "failed" BY <1>0, <1>8, RowWrites DEF Change
  <2>2. /\ UNCHANGED <<pool, mined>> /\ job' = Idle /\ job.at = "failfunding"
    BY <1>8 DEF FundingRefused, node
  <2>3. job.then = "failfunding" /\ row[s].asset = "tok" /\ row[s].st = "requested"
    BY <1>0, <1>8, <2>2 DEF JobInv, Funds
  <2> QED BY <1>i, <1>p, <1>u, <1>8, <2>1, <2>2, <2>3, LiveWrite
<1>9. CASE job.s = s /\ (MarkBroadcast \/ SweepRefused)
  <2>1. Kept(s) /\ row'[s].st = (IF MarkBroadcast THEN "broadcast" ELSE "failed")
    BY <1>0, <1>9, RowWrites DEF Change
  <2>2. /\ UNCHANGED <<pool, mined>> /\ job' = Idle
        /\ IF MarkBroadcast THEN job.at = "mark" ELSE job.at = "refused"
    BY <1>9 DEF MarkBroadcast, SweepRefused, node
  <2>3. ~Pending("fund", s)
    <3>1. row[s].st = "gas_funded" \/ row[s].asset = "eth" BY <1>0, <1>9, <2>2 DEF JobInv, Sends
    <3> QED BY <1>p, <3>1
  <2> QED BY <1>i, <1>p, <1>9, <2>1, <2>2, <2>3, LiveWrite
<1> QED BY <1>2, <1>3, <1>4, <1>5, <1>6, <1>7, <1>8, <1>9

LEMMA LiveStep ==
  ASSUME Core, LiveInv, [Next]_vars, "rpc" \notin Faults
  PROVE  LiveInv'
<1>0. Rows /\ job \in Jobs /\ TypeOK /\ JobInv /\ RowInv BY DEF Core, TypeOK, Rows, RowsOK
<1>i. Idle.at = "idle" /\ Idle.then = "" BY Idling
<1>j. \A x, s, v : Job(x, s, v).at = x BY DEF Job
<1>k. \A x, s, v : Job(x, s, v).then = "" BY DEF Job
<1>t. job.at = "idle" => job.then = "" BY <1>0 DEF JobInv
<1>1. ASSUME UNCHANGED <<row, mined>>, pool' \subseteq pool, Answered PROVE LiveInv'
  BY <1>1, LiveQuiet
<1>2. ASSUME job' = job \/ (job'.then # "failfunding" /\ job'.at # "refused") PROVE Answered
  BY <1>2 DEF Answered
<1>3. ASSUME NEW a \in Assets, Deposit(a) \/ Credit(a) \/ Gift(a) PROVE LiveInv'
  BY <1>1, <1>2, <1>3 DEF Deposit, Credit, Gift, node
<1>4. ASSUME NEW a \in Assets, NEW s \in Sweeps, Plan(s, a) PROVE LiveInv'
  <2>1. Kept(s) /\ row'[s].st = "requested" BY <1>0, <1>4, RowWrites DEF Change, Planned
  <2>2. UNCHANGED <<pool, mined, job>> /\ job.at = "idle" BY <1>4, <1>i DEF Plan, node
  <2> QED BY <1>t, <2>1, <2>2, LiveWrite
<1>5. ASSUME NEW s \in Sweeps, FundGas(s) \/ SendSigned(s) PROVE LiveInv'
  <2>1. /\ UNCHANGED <<row, pool, mined>>
        /\ \/ job' = Job("release", s, 0) \/ job' = Job("pin", s, fee - held["eth"])
           \/ job' = Job("sendsweep", s, 0)
    BY <1>5 DEF FundGas, SendSigned, node
  <2>2. job'.at \in {"release", "pin", "sendsweep"} BY <1>j, <2>1
  <2>3. job'.then = "" BY <1>k, <2>1
  <2> QED BY <1>1, <1>2, <2>1, <2>2, <2>3
<1>6. ASSUME NEW s \in Sweeps, ResendFunding(s) PROVE LiveInv'
  <2> DEFINE x == FundTx(s)
  <2>1. /\ UNCHANGED <<row, mined, job>> /\ row[s].st = "requested" /\ job.at = "idle"
        /\ pool' \subseteq pool \cup {x}
    BY <1>6, <1>i DEF ResendFunding, Tracking, Ready, Accepts
  <2>2. x.kind = "fund" /\ x.id = s BY DEF FundTx, Tx
  <2>3. Answered BY <1>2, <2>1
  <2> HIDE DEF x
  <2> QED BY <1>t, <2>1, <2>2, <2>3, LiveSend
<1>7. ASSUME NEW s \in Sweeps, ResendSweep(s) PROVE LiveInv'
  <2> DEFINE x == SweepTx(s)
  <2>1. /\ UNCHANGED <<row, mined, job>> /\ s \in Open /\ job.at = "idle"
        /\ pool' \subseteq pool \cup {x}
    BY <1>7, <1>i DEF ResendSweep, Ready, Accepts, Open
  <2>2. x.kind = "sweep" /\ x.id = s BY DEF SweepTx, Tx
  <2>3. Answered BY <1>2, <2>1
  <2> HIDE DEF x
  <2> QED BY <2>1, <2>2, <2>3, LiveSend
<1>8. CASE SendFunding
  <2>1. CASE Refuses(FundTx(job.s)) /\ job' = [job EXCEPT !.at = "recycle", !.then = "failfunding"]
    BY <1>8, <2>1, LiveRefused
  <2>2. CASE Accepts(FundTx(job.s)) /\ job' = Idle
    <3> DEFINE x == FundTx(job.s)
    <3>1. UNCHANGED <<row, mined>> /\ pool' \subseteq pool \cup {x} /\ job.at = "send"
      BY <1>8, <2>2 DEF SendFunding, Accepts
    <3>2. row[job.s].st = "requested" BY <1>0, <3>1 DEF JobInv, Funds
    <3>3. x.kind = "fund" /\ x.id = job.s BY DEF FundTx, Tx
    <3>4. Answered /\ job'.then # "failfunding" BY <1>2, <1>i, <2>2
    <3> HIDE DEF x
    <3> QED BY <3>1, <3>2, <3>3, <3>4, LiveSend
  <2> QED BY <1>8, <2>1, <2>2 DEF SendFunding
<1>9. CASE SendSweep
  <2>1. CASE Refuses(SweepTx(job.s)) /\ job' = [job EXCEPT !.at = "refused"] BY <1>9, <2>1, LiveRefused
  <2>2. CASE Accepts(SweepTx(job.s)) /\ job' = [job EXCEPT !.at = "mark"]
    <3> DEFINE x == SweepTx(job.s)
    <3>1. UNCHANGED <<row, mined>> /\ pool' \subseteq pool \cup {x} /\ job.at = "sendsweep"
      BY <1>9, <2>2 DEF SendSweep, Accepts
    <3>2. job.s \in Open BY <1>0, <3>1, JobIsOpen DEF Sends
    <3>3. x.kind = "sweep" /\ x.id = job.s BY DEF SweepTx, Tx
    <3>4. job'.at = "mark" /\ job'.then = job.then /\ job'.s = job.s BY <1>0, <2>2, MovesOn DEF Places
    <3>5. Answered BY <3>4 DEF Answered
    <3> HIDE DEF x
    <3> QED BY <3>1, <3>2, <3>3, <3>4, <3>5, LiveSend
  <2> QED BY <1>9, <2>1, <2>2 DEF SendSweep
<1>10. CASE Release \/ SignFunding \/ SignFundingFails \/ SignSweepFails
  <2>1. /\ UNCHANGED <<row, pool, mined>> /\ job.at \in {"release", "sign", "signsweep"}
        /\ \/ job' = Idle \/ \E x \in {"funded", "record"} : job' = [job EXCEPT !.at = x]
           \/ job' = [job EXCEPT !.at = "recycle", !.then = "clear"]
    BY <1>10 DEF Release, SignFunding, SignFundingFails, SignSweepFails, node
  <2>2. job.then = "" BY <1>0, <2>1 DEF JobInv
  <2>3. job'.then # "failfunding" /\ job'.at # "refused"
    BY <1>0, <1>i, <2>1, <2>2, MovesOn, Recycles DEF Places
  <2> QED BY <1>1, <1>2, <2>1, <2>3
<1>11. CASE PinFunding /\ row' = row
  <2>1. UNCHANGED <<pool, mined>> /\ job.at = "pin" /\ job' = [job EXCEPT !.at = "sign"]
    BY <1>11 DEF PinFunding, node
  <2>2. job'.at = "sign" /\ job'.then = job.then BY <1>0, <2>1, MovesOn DEF Places
  <2>3. job.then = "" BY <1>0, <2>1 DEF JobInv
  <2> QED BY <1>1, <1>2, <1>11, <2>1, <2>2, <2>3
<1>12. CASE Recycle \/ StepBack \/ RecordFill \/ SendFill
  <2> DEFINE x == FillTx(job.v)
  <2>1. /\ UNCHANGED <<row, mined>> /\ pool' \subseteq pool \cup {x}
        /\ job.at \in {"recycle", "stepback", "fill", "fillsend"}
        /\ \/ job' = Idle \/ job' = [job EXCEPT !.at = "fillsend"]
           \/ job.then # "" /\ job' = [job EXCEPT !.at = job.then]
           \/ \E y \in {"stepback", "fill"} : job' = [job EXCEPT !.at = y, !.v = row[job.s].fn]
    <3>1. CASE Recycle BY <3>1 DEF Recycle, node
    <3>2. CASE StepBack
      <4>1. job.then # "" BY <1>0, <3>2 DEF StepBack, JobInv
      <4> QED BY <3>2, <4>1 DEF StepBack, node
    <3>3. CASE RecordFill BY <3>3 DEF RecordFill, AfterError, node
    <3>4. CASE SendFill BY <3>4 DEF SendFill, AfterError, AfterFill, Accepts, Refuses
    <3> QED BY <1>12, <3>1, <3>2, <3>3, <3>4
  <2>2. job'.at # "refused" /\ (job' = Idle \/ (job'.then = job.then /\ job'.s = job.s))
    <3>1. CASE job' = Idle BY <1>i, <3>1
    <3>2. CASE job' = [job EXCEPT !.at = "fillsend"] BY <1>0, <3>2, MovesOn DEF Places
    <3>3. CASE job.then # "" /\ job' = [job EXCEPT !.at = job.then]
      <4>1. job.then \in {"clear", "failfunding"} BY <1>0, <3>3 DEF Jobs
      <4> QED BY <1>0, <3>3, <4>1, MovesOn DEF Places
    <3>4. ASSUME NEW y \in {"stepback", "fill"}, job' = [job EXCEPT !.at = y, !.v = row[job.s].fn]
          PROVE  job'.at # "refused" /\ job'.then = job.then /\ job'.s = job.s
      BY <1>0, <3>4 DEF Jobs
    <3> QED BY <2>1, <3>1, <3>2, <3>3, <3>4
  <2>3. Answered BY <1>i, <2>2 DEF Answered
  <2>4. x.kind = "fill" BY DEF FillTx, Tx
  <2> HIDE DEF x
  <2> QED BY <2>1, <2>3, <2>4, LiveSend
<1>13. CASE MoveFee \/ OtherAllocates \/ OtherCommits \/ Crash \/ Start \/ StartFill \/ Started
  <2>1. /\ UNCHANGED <<row, pool, mined>>
        /\ job' = job \/ job' = Idle \/ job' = Job("fill", "none", Min(Gaps))
    BY <1>13 DEF MoveFee, OtherAllocates, OtherCommits, Crash, Start, StartFill, Started, node
  <2>f. Job("fill", "none", Min(Gaps)).at = "fill" BY <1>j
  <2>2. job' = job \/ job'.at = "idle" \/ job'.at = "fill" BY <1>i, <2>f, <2>1
  <2>3. job' = job \/ job'.then = "" BY <1>i, <1>k, <2>1
  <2> QED BY <1>1, <1>2, <2>1, <2>2, <2>3
<1>14. ASSUME NEW o \in Others, OtherSends(o) PROVE LiveInv'
  <2> DEFINE x == Tx("other", o, other[o].nonce, 0)
  <2>1. UNCHANGED <<row, mined, job>> /\ pool' \subseteq pool \cup {x} BY <1>14 DEF OtherSends, Accepts
  <2>2. x.kind = "other" BY DEF Tx
  <2>3. Answered BY <1>2, <2>1
  <2> HIDE DEF x
  <2> QED BY <2>1, <2>2, <2>3, LiveSend
<1>15. ASSUME NEW tx \in pool, Drop(tx) PROVE LiveInv' BY <1>1, <1>2, <1>15 DEF Drop
<1>16. ASSUME NEW tx \in pool, Mine(tx) PROVE LiveInv' BY <1>16, LiveMine
<1>17. CASE UNCHANGED vars BY <1>1, <1>2, <1>17 DEF vars
<1>18. ASSUME NEW s \in Sweeps, SweepStep(s) PROVE LiveInv'
  BY <1>5, <1>6, <1>7, <1>18, LiveRows DEF SweepStep
<1>19. CASE JobStep
  <2>1. CASE ClearFunding \/ AlreadyFunded \/ RecordFunding \/ FundingRefused
             \/ SignSweep \/ MarkBroadcast \/ SweepRefused \/ (PinFunding /\ row' # row)
    <3>1. job.s \in Sweeps BY <1>0, <2>1, RowWrites
    <3> QED BY <2>1, <3>1, LiveRows
  <2> QED BY <1>8, <1>9, <1>10, <1>11, <1>12, <1>19, <2>1 DEF JobStep
<1> QED BY <1>3, <1>4, <1>13, <1>14, <1>15, <1>16, <1>17, <1>18, <1>19, Zenon DEF Next
-----------------------------------------------------------------------------
(* The books.                                                              *)

LEMMA BookTypes ==
  ASSUME Core
  PROVE  /\ book \in Books /\ book.eth \in Int /\ book.tok \in Int /\ Base("eth") \in Int /\ Base("tok") \in Int
         /\ Cost \in Int
         /\ \A s \in Sweeps : /\ Came(s) \in Int /\ Went(s, "eth") \in Int /\ Went(s, "tok") \in Int
                              /\ Burnt(s) \in Int /\ row[s].fa \in Int /\ row[s].amt \in Int
<1>c. Cost \in Int /\ 0 \in Int BY SweepAssumption
<1>r. \A s \in Sweeps : row[s].fa \in Int /\ row[s].amt \in Int BY DEF Core, TypeOK, RowsOK, Row
<1>0. /\ MoneyOK /\ \A s \in Sweeps : row[s].fa \in Int /\ row[s].amt \in Int
      /\ Cost \in Int /\ 0 \in Int
  BY <1>c, <1>r DEF Core, TypeOK
<1>1. book \in Books /\ book.eth \in Int /\ book.tok \in Int BY <1>0 DEF MoneyOK, Books
<1>2. Base("eth") \in Int /\ Base("tok") \in Int
  <2>1. ASSUME NEW a \in {"eth", "tok"} PROVE Base(a) \in Int
    <3>1. held[a] \in Int /\ unseen[a] \in Int /\ (a \in Assets => coming[a] \in Int) BY <1>0 DEF MoneyOK
    <3> QED BY <3>1 DEF Base
  <2> QED BY <2>1
<1>3. ASSUME NEW s \in Sweeps PROVE Came(s) \in Int /\ Went(s, "eth") \in Int /\ Went(s, "tok") \in Int /\ Burnt(s) \in Int
  BY <1>0 DEF Came, Went, Burnt
<1> QED BY <1>0, <1>1, <1>2, <1>3

\* A sweep that has moved nothing.
LEMMA Nothing ==
  ASSUME NEW s \in Sweeps
  PROVE  /\ ~row[s].fsigned \/ row[s].st # "requested" \/ ~Succeeded(FundTx(s)) => Came(s) = 0
         /\ ~row[s].signed => \A a : Went(s, a) = 0 /\ Burnt(s) = 0
         /\ ~Mined(SweepTx(s)) => \A a : Went(s, a) = 0 /\ Burnt(s) = 0
<1>1. \A tx : Succeeded(tx) => Mined(tx) BY DEF Succeeded, Mined
<1> QED BY <1>1 DEF Came, Went, Burnt

\* And afterwards.
LEMMA NothingThen ==
  ASSUME NEW s \in Sweeps
  PROVE  /\ ~row'[s].fsigned \/ row'[s].st # "requested" => Came(s)' = 0
         /\ ~row'[s].signed => \A a : Went(s, a)' = 0 /\ Burnt(s)' = 0
BY DEF Came, Went, Burnt

LEMMA FirstStays ==
  ASSUME NEW s \in Sweeps, mined' = mined, KeptFunding(s), row'[s].st = row[s].st
  PROVE  Came(s)' = Came(s)
<1>1. FundTx(s)' = FundTx(s) BY DEF FundTx, KeptFunding
<1>2. Succeeded(FundTx(s))' <=> Succeeded(FundTx(s)) BY <1>1 DEF Succeeded
<1> QED BY <1>2 DEF Came, KeptFunding

LEMMA SecondStays ==
  ASSUME NEW s \in Sweeps, mined' = mined, KeptPlan(s), KeptSweep(s)
  PROVE  /\ \A a : Went(s, a)' = Went(s, a)
         /\ Burnt(s)' = Burnt(s)
<1>1. SweepTx(s)' = SweepTx(s) BY DEF SweepTx, KeptPlan, KeptSweep
<1>2. Succeeded(SweepTx(s))' <=> Succeeded(SweepTx(s)) BY <1>1 DEF Succeeded
<1>3. Mined(SweepTx(s))' <=> Mined(SweepTx(s)) BY <1>1 DEF Mined
<1> QED BY <1>2, <1>3 DEF Went, Burnt, KeptPlan, KeptSweep

LEMMA BaseStays ==
  ASSUME UNCHANGED <<held, unseen, coming>>
  PROVE  \A a : Base(a)' = Base(a)
BY DEF Base

\* The one open sweep goes on and what it moved is booked, or it ends.
LEMMA BooksOpen ==
  ASSUME Core, BooksInv, NEW s \in Open, Kept(s), row'[s].st \in {"requested", "gas_funded", "broadcast"},
         UNCHANGED <<held, unseen, coming>>,
         NEW d \in Int, book'.eth = book.eth + d, book'.tok = book.tok, Came(s)' = Came(s) - d,
         Went(s, "eth")' = Went(s, "eth"), Went(s, "tok")' = Went(s, "tok"), Burnt(s)' = Burnt(s)
  PROVE  BooksInv'
<1>1. s \in Sweeps BY DEF Open
<1>2. Open' = {s}
  <2>1. \A t \in Open : t = s BY DEF Core, Rows, RowInv
  <2> QED BY <1>1, <2>1 DEF Open, Kept
<1>3. /\ book.eth = Base("eth") - Came(s) + Went(s, "eth") + Burnt(s)
      /\ book.tok = Base("tok") + Went(s, "tok")
  BY DEF BooksInv
<1>4. /\ book.eth \in Int /\ Base("eth") \in Int /\ Came(s) \in Int /\ Went(s, "eth") \in Int
      /\ Burnt(s) \in Int
  BY <1>1, BookTypes
<1>5. Base("eth")' = Base("eth") /\ Base("tok")' = Base("tok") BY BaseStays
<1>6. book'.eth = Base("eth")' - Came(s)' + Went(s, "eth")' + Burnt(s)'
  BY ONLY <1>3, <1>4, <1>5, d \in Int, book'.eth = book.eth + d, Came(s)' = Came(s) - d,
          Went(s, "eth")' = Went(s, "eth"), Burnt(s)' = Burnt(s)
<1>7. book'.tok = Base("tok")' + Went(s, "tok")' BY <1>3, <1>5
<1> QED BY <1>2, <1>6, <1>7 DEF BooksInv

LEMMA BooksEnd ==
  ASSUME Core, BooksInv, NEW s \in Open, Kept(s), row'[s].st \in {"confirmed", "failed"},
         UNCHANGED <<held, unseen, coming>>,
         book'.eth = book.eth + Came(s) - Went(s, "eth") - Burnt(s),
         book'.tok = book.tok - Went(s, "tok")
  PROVE  BooksInv'
<1>1. s \in Sweeps BY DEF Open
<1>2. Open' = {}
  <2>1. \A t \in Open : t = s BY DEF Core, Rows, RowInv
  <2> QED BY <1>1, <2>1 DEF Open, Kept
<1>3. /\ book.eth = Base("eth") - Came(s) + Went(s, "eth") + Burnt(s)
      /\ book.tok = Base("tok") + Went(s, "tok")
  BY DEF BooksInv
<1>4. /\ book.eth \in Int /\ Base("eth") \in Int /\ Came(s) \in Int /\ Went(s, "eth") \in Int
      /\ Burnt(s) \in Int /\ Base("tok") \in Int /\ Went(s, "tok") \in Int
  BY <1>1, BookTypes
<1>5. Base("eth")' = Base("eth") /\ Base("tok")' = Base("tok") BY BaseStays
<1>6. book'.eth = Base("eth")
  BY ONLY <1>3, <1>4, book'.eth = book.eth + Came(s) - Went(s, "eth") - Burnt(s)
<1>7. book'.tok = Base("tok") BY ONLY <1>3, <1>4, book'.tok = book.tok - Went(s, "tok")
<1> QED BY <1>2, <1>5, <1>6, <1>7 DEF BooksInv

LEMMA Shifts ==
  ASSUME NEW b \in Int, NEW B \in Int, NEW c \in Int, NEW D \in Int, NEW k \in Int,
         D - c = B - b, b = B + k
  PROVE  c = D + k
OBVIOUS

\* What the node, the users or nobody does: the open sweep and what it moved stay.
LEMMA BooksQuiet ==
  ASSUME BooksInv, UNCHANGED <<row, mined>>, Base("eth")' - book'.eth = Base("eth") - book.eth,
         Base("tok")' - book'.tok = Base("tok") - book.tok,
         Core, Base("eth")' \in Int, Base("tok")' \in Int, book'.eth \in Int, book'.tok \in Int
  PROVE  BooksInv'
<1>1. Open' = Open BY DEF Open
<1>2. ASSUME NEW s \in Sweeps
      PROVE  /\ Came(s)' = Came(s) /\ Went(s, "eth")' = Went(s, "eth") /\ Went(s, "tok")' = Went(s, "tok")
             /\ Burnt(s)' = Burnt(s)
  BY FirstStays, SecondStays DEF KeptFunding, KeptPlan, KeptSweep
<1>3. /\ book.eth \in Int /\ book.tok \in Int /\ Base("eth") \in Int /\ Base("tok") \in Int BY BookTypes
<1>4. ASSUME Open = {} PROVE book'.eth = Base("eth")' /\ book'.tok = Base("tok")'
  <2>1. book.eth = Base("eth") /\ book.tok = Base("tok") BY <1>4 DEF BooksInv
  <2> QED BY <1>3, <2>1
<1>5. ASSUME NEW s \in Open
      PROVE  /\ book'.eth = Base("eth")' - Came(s) + Went(s, "eth") + Burnt(s)
             /\ book'.tok = Base("tok")' + Went(s, "tok")
  <2>1. /\ book.eth = Base("eth") - Came(s) + Went(s, "eth") + Burnt(s)
        /\ book.tok = Base("tok") + Went(s, "tok")
    BY DEF BooksInv
  <2>2. Came(s) \in Int /\ Went(s, "eth") \in Int /\ Went(s, "tok") \in Int /\ Burnt(s) \in Int
    BY BookTypes DEF Open
  <2>3. book'.tok = Base("tok")' + Went(s, "tok")
    <3> DEFINE w == Went(s, "tok")
    <3>1. book.tok = Base("tok") + w /\ w \in Int BY <2>1, <2>2
    <3> HIDE DEF w
    <3>2. book'.tok = Base("tok")' + w BY <1>3, <3>1, Shifts
    <3> QED BY <3>2 DEF w
  <2> DEFINE k == Went(s, "eth") + Burnt(s) - Came(s)
  <2>4. book.eth = Base("eth") + k /\ k \in Int BY <1>3, <2>1, <2>2
  <2>5. book'.eth = Base("eth")' + k
    <3> HIDE DEF k
    <3> QED BY <1>3, <2>4, Shifts
  <2>6. book'.eth = Base("eth")' - Came(s) + Went(s, "eth") + Burnt(s) BY <2>2, <2>5
  <2> QED BY <2>3, <2>6
<1> QED BY <1>1, <1>2, <1>4, <1>5 DEF BooksInv, Open

\* The statements of a sweep.
LEMMA BooksRows ==
  ASSUME Core, LiveInv, BooksInv, NEW s \in Sweeps,
         \/ TrackFunding(s) \/ BalanceChanged(s) \/ PinSweepNonce(s) \/ Track(s)
         \/ job.s = s /\ (\/ ClearFunding \/ AlreadyFunded \/ RecordFunding \/ FundingRefused
                          \/ SignSweep \/ MarkBroadcast \/ SweepRefused
                          \/ PinFunding /\ row' # row)
  PROVE  BooksInv'
<1>0. Rows /\ job \in Jobs /\ TypeOK /\ RowInv /\ JobInv /\ row \in [Sweeps -> Row]
  BY DEF Core, TypeOK, Rows, RowsOK
<1>b. /\ book \in Books /\ book.eth \in Int /\ book.tok \in Int /\ Cost \in Int /\ 0 \in Int
      /\ row[s].fa \in Int /\ row[s].amt \in Int
  BY BookTypes
<1>c. Came(s) \in Int /\ Went(s, "eth") \in Int /\ Went(s, "tok") \in Int /\ Burnt(s) \in Int BY BookTypes
<1>n. /\ ~row[s].fsigned \/ row[s].st # "requested" \/ ~Succeeded(FundTx(s)) => Came(s) = 0
      /\ ~row[s].signed \/ ~Mined(SweepTx(s)) =>
            Went(s, "eth") = 0 /\ Went(s, "tok") = 0 /\ Burnt(s) = 0
  BY Nothing
<1>m. /\ Mined(FundTx(s)) => row[s].fsigned
      /\ Mined(SweepTx(s)) => row[s].signed
      /\ Succeeded(FundTx(s)) => Mined(FundTx(s))
  BY MinedIs
<1>1. ASSUME s \in Open, Kept(s), row'[s].st \in {"requested", "gas_funded", "broadcast"},
             UNCHANGED <<held, unseen, coming, book>>, Came(s)' = Came(s),
             Went(s, "eth")' = Went(s, "eth"), Went(s, "tok")' = Went(s, "tok"), Burnt(s)' = Burnt(s)
      PROVE  BooksInv'
  <2>1. book'.eth = book.eth + 0 /\ book'.tok = book.tok /\ Came(s)' = Came(s) - 0
    BY <1>1, <1>b, <1>c
  <2> QED BY <1>1, <1>b, <2>1, BooksOpen
<1>2. CASE TrackFunding(s)
  <2>1. /\ UNCHANGED <<held, unseen, coming, mined>> /\ row[s].asset = "tok" /\ row[s].st = "requested"
        /\ row[s].fsigned /\ Mined(FundTx(s)) /\ s \in Open
        /\ IF Succeeded(FundTx(s)) THEN GasFunded(s, Cost) ELSE FailFunding(s, Cost)
    BY <1>2 DEF TrackFunding, Tracking, Ready, node, users, Open
  <2>2. Kept(s) /\ KeptPlan(s) /\ KeptSweep(s) /\ row'[s].st = IF Succeeded(FundTx(s)) THEN "gas_funded" ELSE "failed"
    BY <1>0, <1>2, RowWrites DEF Change, Advanced
  <2>3. ~row[s].signed BY <1>0, <2>1 DEF RowInv
  <2>4. Went(s, "eth") = 0 /\ Went(s, "tok") = 0 /\ Burnt(s) = 0 BY <1>n, <2>3
  <2>5. CASE Succeeded(FundTx(s))
    <3>1. book'.eth = book.eth + row[s].fa /\ book'.tok = book.tok BY <1>0, <1>b, <2>1, <2>5, Posts
    <3>2. Came(s) = row[s].fa BY <2>1, <2>5 DEF Came
    <3>3. Came(s)' = 0 BY <2>2, <2>5, NothingThen
    <3>4. Came(s)' = Came(s) - row[s].fa BY <1>b, <3>2, <3>3
    <3>5. Went(s, "eth")' = Went(s, "eth") /\ Went(s, "tok")' = Went(s, "tok") /\ Burnt(s)' = Burnt(s)
      BY <2>1, <2>2, SecondStays
    <3> QED BY <1>b, <2>1, <2>2, <2>5, <3>1, <3>4, <3>5, BooksOpen
  <2>6. CASE ~Succeeded(FundTx(s))
    <3>1. book'.eth = book.eth /\ book'.tok = book.tok BY <1>0, <1>b, <2>1, <2>6, Posts
    <3>2. Came(s) = 0 BY <1>n, <2>6
    <3>3. /\ book'.eth = book.eth + Came(s) - Went(s, "eth") - Burnt(s)
          /\ book'.tok = book.tok - Went(s, "tok")
      BY <1>b, <2>4, <3>1, <3>2
    <3> QED BY <2>1, <2>2, <2>6, <3>3, BooksEnd
  <2> QED BY <2>5, <2>6
<1>3. ASSUME s \in Open, Fail(s, 0), Kept(s), row'[s].st = "failed", UNCHANGED <<held, unseen, coming>>,
             Came(s) = 0, Went(s, "eth") = 0, Went(s, "tok") = 0, Burnt(s) = 0
      PROVE  BooksInv'
  <2>1. book'.eth = book.eth - 0 /\ book'.tok = book.tok BY <1>0, <1>b, <1>3, Posts
  <2>2. /\ book'.eth = book.eth + Came(s) - Went(s, "eth") - Burnt(s)
        /\ book'.tok = book.tok - Went(s, "tok")
    BY <1>b, <1>3, <2>1
  <2> QED BY <1>3, <2>2, BooksEnd
<1>e. row[s].asset = "eth" => ~row[s].fsigned BY <1>0 DEF RowInv
<1>4. CASE BalanceChanged(s)
  <2>1. /\ UNCHANGED <<held, unseen, coming>> /\ s \in Open /\ Fail(s, 0) /\ ~row[s].signed
        /\ row[s].st = "gas_funded" \/ row[s].asset = "eth"
    BY <1>4 DEF BalanceChanged, ToSend, Ready, Open, node, users
  <2>2. Kept(s) /\ row'[s].st = "failed" BY <1>0, <1>4, RowWrites DEF Change
  <2>3. Came(s) = 0 BY <1>e, <1>n, <2>1
  <2> QED BY <1>3, <1>n, <2>1, <2>2, <2>3
<1>5. CASE PinSweepNonce(s)
  <2>1. /\ Kept(s) /\ KeptFunding(s) /\ row'[s].st = row[s].st /\ row'[s].signed = row[s].signed
    BY <1>0, <1>5, RowWrites DEF Change, Prepared
  <2>2. /\ UNCHANGED <<held, unseen, coming, book, mined>> /\ s \in Open /\ ~row[s].signed
    BY <1>5 DEF PinSweepNonce, ToSend, Ready, Open, node, users
  <2>3. Came(s)' = Came(s) BY <2>1, <2>2, FirstStays
  <2>4. /\ Went(s, "eth")' = Went(s, "eth") /\ Went(s, "tok")' = Went(s, "tok") /\ Burnt(s)' = Burnt(s)
    BY <1>n, <2>1, <2>2, NothingThen
  <2>5. row'[s].st \in {"requested", "gas_funded", "broadcast"} BY <2>1, <2>2 DEF Open
  <2> QED BY <1>1, <2>1, <2>2, <2>3, <2>4, <2>5
<1>6. CASE Track(s)
  <2>1. /\ UNCHANGED <<held, unseen, coming>> /\ s \in Open /\ row[s].st = "broadcast" /\ Mined(SweepTx(s))
        /\ IF Succeeded(SweepTx(s)) THEN Confirm(s) ELSE Fail(s, Cost)
    BY <1>6 DEF Track, Ready, Open, node, users
  <2>2. Kept(s) /\ row'[s].st \in {"confirmed", "failed"} BY <1>0, <1>6, RowWrites DEF Change
  <2>3. Came(s) = 0 BY <1>n, <2>1
  <2>4. row[s].signed /\ row[s].asset \in {"eth", "tok"} BY <1>0, <1>m, <2>1, SweepAssumption DEF RowInv
  <2>5. Burnt(s) = Cost BY <2>1, <2>4 DEF Burnt
  <2>6. CASE Succeeded(SweepTx(s))
    <3>1. /\ book'.eth = book.eth - Cost - (IF row[s].asset = "eth" THEN row[s].amt ELSE 0)
          /\ book'.tok = book.tok - (IF row[s].asset = "tok" THEN row[s].amt ELSE 0)
      BY <1>0, <1>b, <2>1, <2>4, <2>6, ConfirmPosts
    <3>2. /\ Went(s, "eth") = IF row[s].asset = "eth" THEN row[s].amt ELSE 0
          /\ Went(s, "tok") = IF row[s].asset = "tok" THEN row[s].amt ELSE 0
      BY <2>4, <2>6 DEF Went
    <3>3. /\ book'.eth = book.eth + Came(s) - Went(s, "eth") - Burnt(s)
          /\ book'.tok = book.tok - Went(s, "tok")
      BY <1>b, <1>c, <2>3, <2>5, <3>1, <3>2
    <3> QED BY <2>1, <2>2, <3>3, BooksEnd
  <2>7. CASE ~Succeeded(SweepTx(s))
    <3>1. book'.eth = book.eth - Cost /\ book'.tok = book.tok BY <1>0, <1>b, <2>1, <2>7, Posts
    <3>2. Went(s, "eth") = 0 /\ Went(s, "tok") = 0 BY <2>7 DEF Went
    <3>3. /\ book'.eth = book.eth + Came(s) - Went(s, "eth") - Burnt(s)
          /\ book'.tok = book.tok - Went(s, "tok")
      BY <1>b, <2>3, <2>5, <3>1, <3>2
    <3> QED BY <2>1, <2>2, <3>3, BooksEnd
  <2> QED BY <2>6, <2>7
<1>7. CASE job.s = s /\ (ClearFunding \/ (PinFunding /\ row' # row))
  <2>1. /\ Kept(s) /\ KeptPlan(s) /\ KeptSweep(s) /\ row'[s].st = row[s].st
        /\ ~row[s].fsigned /\ ~row'[s].fsigned
    BY <1>0, <1>7, RowWrites DEF Change, Prepared
  <2>2. UNCHANGED <<held, unseen, coming, book, mined>> /\ job.at \in {"clear", "pin"}
    BY <1>7 DEF ClearFunding, PinFunding, node, users
  <2>3. s \in Open BY <1>0, <1>7, <2>2, JobIsOpen DEF Funds, Clean
  <2>4. Came(s)' = Came(s) BY <1>n, <2>1, NothingThen
  <2>5. row'[s].st \in {"requested", "gas_funded", "broadcast"} BY <2>1, <2>3 DEF Open
  <2>6. /\ Went(s, "eth")' = Went(s, "eth") /\ Went(s, "tok")' = Went(s, "tok") /\ Burnt(s)' = Burnt(s)
    BY <2>1, <2>2, SecondStays
  <2> QED BY <1>1, <2>1, <2>2, <2>3, <2>4, <2>5, <2>6
<1>8. CASE job.s = s /\ AlreadyFunded
  <2>1. Kept(s) /\ KeptPlan(s) /\ KeptSweep(s) /\ KeptFunding(s) /\ row'[s].st = "gas_funded"
    BY <1>0, <1>8, RowWrites DEF Change, Advanced
  <2>2. UNCHANGED <<held, unseen, coming, mined>> /\ job.at = "funded" /\ GasFunded(s, 0)
    BY <1>8 DEF AlreadyFunded, node, users
  <2>3. s \in Open /\ ~row[s].fsigned /\ row[s].fn = None
    BY <1>0, <1>8, <2>2, JobIsOpen DEF JobInv, Funds, Clean
  <2>4. row[s].fa = 0 BY <1>0, <2>3 DEF RowInv
  <2>5. book'.eth = book.eth + 0 /\ book'.tok = book.tok BY <1>0, <1>b, <2>2, <2>4, Posts
  <2>6. Came(s) = 0 /\ Came(s)' = 0 BY <1>n, <2>1, <2>3, NothingThen
  <2>7. /\ Went(s, "eth")' = Went(s, "eth") /\ Went(s, "tok")' = Went(s, "tok") /\ Burnt(s)' = Burnt(s)
    BY <2>1, <2>2, SecondStays
  <2>8. Came(s)' = Came(s) - 0 BY <2>6
  <2> QED BY <1>b, <2>1, <2>2, <2>3, <2>5, <2>7, <2>8, BooksOpen
<1>9. CASE job.s = s /\ RecordFunding
  <2>1. /\ Kept(s) /\ KeptPlan(s) /\ KeptSweep(s) /\ row'[s].st = row[s].st /\ ~row[s].fsigned
        /\ row'[s].fn = row[s].fn /\ row'[s].fa = row[s].fa
    BY <1>0, <1>9, RowWrites DEF Change, Prepared
  <2>2. UNCHANGED <<held, unseen, coming, book, mined>> /\ job.at = "record"
    BY <1>9 DEF RecordFunding, node, users
  <2>3. s \in Open BY <1>0, <1>9, <2>2, JobIsOpen DEF Funds, Clean
  <2>4. FundTx(s)' = FundTx(s) BY <2>1 DEF FundTx
  <2>5. ~Succeeded(FundTx(s)) BY <1>m, <2>1
  <2>6. ~Succeeded(FundTx(s))' BY <2>2, <2>4, <2>5 DEF Succeeded
  <2>7. Came(s) = 0 /\ Came(s)' = 0 BY <1>n, <2>1, <2>6 DEF Came
  <2>8. row'[s].st \in {"requested", "gas_funded", "broadcast"} BY <2>1, <2>3 DEF Open
  <2>9. /\ Went(s, "eth")' = Went(s, "eth") /\ Went(s, "tok")' = Went(s, "tok") /\ Burnt(s)' = Burnt(s)
    BY <2>1, <2>2, SecondStays
  <2> QED BY <1>1, <2>1, <2>2, <2>3, <2>7, <2>8, <2>9
<1>10. CASE job.s = s /\ FundingRefused
  <2>1. Kept(s) /\ row'[s].st = "failed" BY <1>0, <1>10, RowWrites DEF Change
  <2>2. UNCHANGED <<held, unseen, coming>> /\ job.at = "failfunding" /\ FailFunding(s, 0)
    BY <1>10 DEF FundingRefused, node, users
  <2>3. /\ s \in Open /\ row[s].st = "requested" /\ row[s].asset = "tok" /\ job.then = "failfunding"
    BY <1>0, <1>10, <2>2, JobIsOpen DEF JobInv, Funds
  <2>4. ~Mined(FundTx(s)) BY <1>10, <2>3 DEF LiveInv
  <2>5. ~row[s].signed BY <1>0, <2>3 DEF RowInv
  <2>6. Came(s) = 0 /\ Went(s, "eth") = 0 /\ Went(s, "tok") = 0 /\ Burnt(s) = 0
    BY <1>m, <1>n, <2>4, <2>5
  <2>7. book'.eth = book.eth /\ book'.tok = book.tok BY <1>0, <1>b, <2>2, Posts
  <2>8. /\ book'.eth = book.eth + Came(s) - Went(s, "eth") - Burnt(s)
        /\ book'.tok = book.tok - Went(s, "tok")
    BY <1>b, <2>6, <2>7
  <2> QED BY <2>1, <2>2, <2>3, <2>8, BooksEnd
<1>11. CASE job.s = s /\ SignSweep
  <2>1. /\ Kept(s) /\ KeptPlan(s) /\ KeptFunding(s) /\ row'[s].st = row[s].st /\ ~row[s].signed
        /\ row'[s].an = row[s].an
    BY <1>0, <1>11, RowWrites DEF Change, Prepared
  <2>2. UNCHANGED <<held, unseen, coming, book, mined>> /\ job.at = "signsweep"
    BY <1>11 DEF SignSweep, node, users
  <2>3. s \in Open BY <1>0, <1>11, <2>2, JobIsOpen DEF Sends
  <2>4. SweepTx(s)' = SweepTx(s) BY <2>1 DEF SweepTx, KeptPlan
  <2>5. ~Mined(SweepTx(s)) BY <1>m, <2>1
  <2>6. ~Mined(SweepTx(s))' /\ ~Succeeded(SweepTx(s))'
    <3>1. ~Mined(SweepTx(s))' BY <2>2, <2>4, <2>5 DEF Mined
    <3> QED BY <3>1 DEF Mined, Succeeded
  <2>7. /\ Went(s, "eth")' = 0 /\ Went(s, "tok")' = 0 /\ Burnt(s)' = 0 BY <2>6 DEF Went, Burnt
  <2>8. Came(s)' = Came(s) BY <2>1, <2>2, FirstStays
  <2>9. row'[s].st \in {"requested", "gas_funded", "broadcast"} BY <2>1, <2>3 DEF Open
  <2> QED BY <1>1, <1>n, <2>1, <2>2, <2>3, <2>5, <2>7, <2>8, <2>9
<1>12. CASE job.s = s /\ MarkBroadcast
  <2>1. Kept(s) /\ KeptPlan(s) /\ KeptSweep(s) /\ row'[s].st = "broadcast"
    BY <1>0, <1>12, RowWrites DEF Change, Advanced
  <2>2. UNCHANGED <<held, unseen, coming, book, mined>> /\ job.at = "mark"
    BY <1>12 DEF MarkBroadcast, node, users
  <2>3. s \in Open /\ (row[s].st = "gas_funded" \/ row[s].asset = "eth")
    BY <1>0, <1>12, <2>2, JobIsOpen DEF JobInv, Sends
  <2>4. Came(s) = 0 /\ Came(s)' = 0 BY <1>e, <1>n, <2>1, <2>3, NothingThen
  <2>5. /\ Went(s, "eth")' = Went(s, "eth") /\ Went(s, "tok")' = Went(s, "tok") /\ Burnt(s)' = Burnt(s)
    BY <2>1, <2>2, SecondStays
  <2> QED BY <1>1, <2>1, <2>2, <2>3, <2>4, <2>5
<1>13. CASE job.s = s /\ SweepRefused
  <2>1. Kept(s) /\ row'[s].st = "failed" BY <1>0, <1>13, RowWrites DEF Change
  <2>2. UNCHANGED <<held, unseen, coming>> /\ job.at = "refused" /\ Fail(s, 0)
    BY <1>13 DEF SweepRefused, node, users
  <2>3. s \in Open /\ (row[s].st = "gas_funded" \/ row[s].asset = "eth")
    BY <1>0, <1>13, <2>2, JobIsOpen DEF JobInv, Sends
  <2>4. ~Mined(SweepTx(s)) BY <1>13, <2>2 DEF LiveInv
  <2>5. Came(s) = 0 BY <1>e, <1>n, <2>3
  <2> QED BY <1>3, <1>n, <2>1, <2>2, <2>3, <2>4, <2>5
<1> QED BY <1>2, <1>4, <1>5, <1>6, <1>7, <1>8, <1>9, <1>10, <1>11, <1>12, <1>13

\* How a transaction that is mined ends.
LEMMA MinedResult ==
  ASSUME Core, NEW tx \in pool, Mine(tx)
  PROVE  \/ Succeeds(tx) /\ Succeeded(tx)'
         \/ Reverts(tx) /\ ~Succeeded(tx)' /\ tx.kind \in {"fund", "sweep"}
<1> DEFINE a == Sender(tx)
           n == Len(mined[a]) + 1
<1>1. PICK ok \in BOOLEAN :
        /\ DOMAIN mined[a] = 1..Len(mined[a]) /\ Len(mined[a]) \in Nat
        /\ DOMAIN mined'[a] = 1..(Len(mined[a]) + 1)
        /\ \A i \in DOMAIN mined[a] : mined'[a][i] = mined[a][i]
        /\ mined'[a][Len(mined[a]) + 1] = [tx |-> tx, ok |-> ok]
        /\ IF ok THEN Succeeds(tx) ELSE Reverts(tx) /\ tx.kind \in {"fund", "sweep"}
  BY MinesOne DEF Core
<1>2. n \in DOMAIN mined'[a] /\ \A i \in DOMAIN mined'[a] : i = n \/ i \in DOMAIN mined[a] BY <1>1
<1>3. ~Mined(tx) BY DEF Core, ChainInv
<1>4. \A i \in DOMAIN mined[a] : mined[a][i].tx # tx BY <1>3 DEF Mined
<1>5. Succeeded(tx)' <=> \E i \in DOMAIN mined'[a] : mined'[a][i] = [tx |-> tx, ok |-> TRUE]
  BY DEF Succeeded, Sender
<1>6. mined'[a][n] = [tx |-> tx, ok |-> ok] BY <1>1
<1> HIDE DEF a, n
<1>7. CASE ok = TRUE
  <2>1. Succeeded(tx)' BY <1>2, <1>5, <1>6, <1>7
  <2> QED BY <1>1, <1>7, <2>1
<1>8. CASE ok = FALSE
  <2>1. [tx |-> tx, ok |-> FALSE] # [tx |-> tx, ok |-> TRUE] OBVIOUS
  <2>2. ASSUME NEW i \in DOMAIN mined'[a], mined'[a][i] = [tx |-> tx, ok |-> TRUE] PROVE FALSE
    <3>1. CASE i = n BY <1>6, <1>8, <2>1, <2>2, <3>1
    <3>2. CASE i \in DOMAIN mined[a]
      <4>1. mined[a][i] = [tx |-> tx, ok |-> TRUE] BY <1>1, <2>2, <3>2
      <4> QED BY <1>4, <3>2, <4>1
    <3> QED BY <1>2, <3>1, <3>2
  <2>3. ~Succeeded(tx)' BY <1>5, <2>2
  <2> QED BY <1>1, <1>8, <2>3
<1> QED BY <1>7, <1>8

\* What a transaction moves is, for the one open sweep, not booked yet.
LEMMA BooksMoved ==
  ASSUME Core, BooksInv, Open' = Open, book' = book, NEW e \in Int, NEW w \in Int,
         Base("eth")' = Base("eth") + e, Base("tok")' = Base("tok") + w,
         Open = {} => e = 0 /\ w = 0,
         \A s \in Open : /\ Came(s)' \in Int /\ Went(s, "eth")' \in Int /\ Burnt(s)' \in Int
                         /\ Went(s, "eth")' + Burnt(s)' - Came(s)' = Went(s, "eth") + Burnt(s) - Came(s) - e
                         /\ Went(s, "tok")' = Went(s, "tok") - w
  PROVE  BooksInv'
<1>1. Base("eth") \in Int /\ Base("tok") \in Int BY BookTypes
<1>2. ASSUME Open = {} PROVE book'.eth = Base("eth")' /\ book'.tok = Base("tok")'
  <2>1. book.eth = Base("eth") /\ book.tok = Base("tok") /\ e = 0 /\ w = 0 BY <1>2 DEF BooksInv
  <2> QED BY <1>1, <2>1
<1>3. ASSUME NEW s \in Open
      PROVE  /\ book'.eth = Base("eth")' - Came(s)' + Went(s, "eth")' + Burnt(s)'
             /\ book'.tok = Base("tok")' + Went(s, "tok")'
  <2>1. /\ book.eth = Base("eth") - Came(s) + Went(s, "eth") + Burnt(s)
        /\ book.tok = Base("tok") + Went(s, "tok")
    BY DEF BooksInv
  <2>2. Came(s) \in Int /\ Went(s, "eth") \in Int /\ Went(s, "tok") \in Int /\ Burnt(s) \in Int
    BY BookTypes DEF Open
  <2> DEFINE k == Went(s, "eth") + Burnt(s) - Came(s)
             m == Went(s, "eth")' + Burnt(s)' - Came(s)'
             x == Went(s, "tok")
             y == Went(s, "tok")'
  <2>3. book.eth = Base("eth") + k /\ k \in Int BY <1>1, <2>1, <2>2
  <2>4. m = k - e /\ y = x - w /\ x \in Int /\ book.tok = Base("tok") + x BY <2>1, <2>2
  <2>5. book'.eth = Base("eth")' + m
    <3> HIDE DEF k, m
    <3> QED BY <1>1, <2>3, <2>4
  <2>6. book'.tok = Base("tok")' + y
    <3> HIDE DEF x, y
    <3> QED BY <1>1, <2>4
  <2>7. Came(s)' \in Int /\ Went(s, "eth")' \in Int /\ Burnt(s)' \in Int OBVIOUS
  <2>8. Base("eth")' \in Int BY <1>1
  <2>9. book'.eth = Base("eth")' - Came(s)' + Went(s, "eth")' + Burnt(s)' BY <2>5, <2>7, <2>8
  <2> QED BY <2>6, <2>9
<1> QED BY <1>2, <1>3 DEF BooksInv

LEMMA BooksMine ==
  ASSUME Core, LiveInv, BooksInv, NEW tx \in pool, Mine(tx)
  PROVE  BooksInv'
<1>0. TypeOK /\ Rows /\ RowInv /\ MoneyOK /\ 0 \in Int /\ Cost \in Int
  BY SweepAssumption DEF Core, TypeOK, Rows
<1>1. UNCHANGED <<row, unseen, coming, book>> BY DEF Mine, users
<1>2. Open' = Open BY <1>1 DEF Open
<1>3. Genuine(tx) /\ ~Mined(tx) /\ Awaited(tx) BY DEF Core, ChainInv, LiveInv
<1>4. tx.kind = "sweep" => tx.id \in Sweeps BY <1>3 DEF Genuine
<1>5. tx.kind \in {"fund", "sweep", "fill", "other"} /\ tx.val \in Int BY <1>0 DEF TypeOK, NodeOK, Txs
<1>6. ASSUME NEW e \in Int, NEW w \in Int, held'["eth"] = held["eth"] + e, held'["tok"] = held["tok"] + w
      PROVE  Base("eth")' = Base("eth") + e /\ Base("tok")' = Base("tok") + w
  <2>1. /\ held["eth"] \in Int /\ held["tok"] \in Int /\ unseen["eth"] \in Int /\ unseen["tok"] \in Int
        /\ \A a \in Assets : coming[a] \in Int
    BY <1>0 DEF MoneyOK
  <2> QED BY <1>1, <1>6, <2>1 DEF Base
<1>7. ASSUME NEW s \in Sweeps, FundTx(s) # tx PROVE Came(s)' = Came(s)
  <2> DEFINE t == FundTx(s)
  <2>1. FundTx(s)' = t BY <1>1 DEF FundTx
  <2>2. ASSUME NEW u, u = t PROVE Succeeded(u)' <=> Succeeded(u) BY <1>0, <1>7, <2>2, MinedThen
  <2> HIDE DEF t
  <2>3. Succeeded(FundTx(s))' <=> Succeeded(t) BY <2>1, <2>2 DEF Succeeded
  <2> QED BY <1>1, <2>3 DEF Came, t
<1>8. ASSUME NEW s \in Sweeps, SweepTx(s) # tx
      PROVE  /\ Went(s, "eth")' = Went(s, "eth") /\ Went(s, "tok")' = Went(s, "tok")
             /\ Burnt(s)' = Burnt(s)
  <2> DEFINE t == SweepTx(s)
  <2>1. SweepTx(s)' = t BY <1>1 DEF SweepTx
  <2>2. ASSUME NEW u, u = t PROVE (Succeeded(u)' <=> Succeeded(u)) /\ (Mined(u)' <=> Mined(u))
    BY <1>0, <1>8, <2>2, MinedThen
  <2> HIDE DEF t
  <2>3. Succeeded(SweepTx(s))' <=> Succeeded(t) BY <2>1, <2>2 DEF Succeeded
  <2>4. Mined(SweepTx(s))' <=> Mined(t) BY <2>1, <2>2 DEF Mined
  <2> QED BY <1>1, <2>3, <2>4 DEF Went, Burnt, t
<1>9. \A s \in Sweeps : FundTx(s).kind = "fund" /\ SweepTx(s).kind = "sweep" /\ FundTx(s).id = s /\ SweepTx(s).id = s
  BY DEF FundTx, SweepTx, Tx
<1>10. (Succeeds(tx) /\ Succeeded(tx)') \/ (Reverts(tx) /\ ~Succeeded(tx)' /\ tx.kind \in {"fund", "sweep"})
  BY MinedResult
<1>11. /\ Succeeds(tx) =>
              /\ held'["eth"] = held["eth"]
                   + (IF tx.kind = "fund" THEN tx.val ELSE 0)
                   - (IF tx.kind = "sweep" THEN Cost + (IF row[tx.id].asset = "eth" THEN tx.val ELSE 0) ELSE 0)
              /\ held'["tok"] = held["tok"]
                   - (IF tx.kind = "sweep" /\ row[tx.id].asset # "eth" THEN tx.val ELSE 0)
       /\ Reverts(tx) =>
              /\ held'["eth"] = held["eth"] - (IF tx.kind = "sweep" THEN Cost ELSE 0)
              /\ held'["tok"] = held["tok"]
  BY <1>0, <1>4, MinedHolds
<1>h. held["eth"] \in Int /\ held["tok"] \in Int BY <1>0 DEF MoneyOK
<1>o. \A s \in Open : s \in Sweeps BY DEF Open
<1>t. \A s \in Sweeps : Came(s) \in Int /\ Went(s, "eth") \in Int /\ Went(s, "tok") \in Int /\ Burnt(s) \in Int
  BY BookTypes
<1>12. CASE tx.kind \in {"fill", "other"}
  <2>1. held'["eth"] = held["eth"] + 0 /\ held'["tok"] = held["tok"] + 0 BY <1>h, <1>10, <1>11, <1>12
  <2>2. Base("eth")' = Base("eth") + 0 /\ Base("tok")' = Base("tok") + 0 BY <1>0, <1>6, <2>1
  <2>3. ASSUME NEW s \in Open
        PROVE  /\ Came(s)' = Came(s) /\ Went(s, "eth")' = Went(s, "eth")
               /\ Went(s, "tok")' = Went(s, "tok") /\ Burnt(s)' = Burnt(s)
    BY <1>7, <1>8, <1>9, <1>12, <1>o
  <2>4. \A s \in Open : /\ Came(s)' \in Int /\ Went(s, "eth")' \in Int /\ Burnt(s)' \in Int
                        /\ Went(s, "eth")' + Burnt(s)' - Came(s)' = Went(s, "eth") + Burnt(s) - Came(s) - 0
                        /\ Went(s, "tok")' = Went(s, "tok") - 0
    BY <1>o, <1>t, <2>3
  <2> QED BY <1>0, <1>1, <1>2, <2>2, <2>4, BooksMoved
<1>13. CASE tx.kind = "fund"
  <2> DEFINE s == tx.id
             e == IF Succeeded(tx)' THEN tx.val ELSE 0
  <2>1. /\ s \in Sweeps /\ row[s].st = "requested" /\ row[s].fsigned /\ tx = FundTx(s)
    BY <1>3, <1>13 DEF Genuine, Awaited
  <2>2. s \in Open /\ tx.val = row[s].fa BY <2>1 DEF Open, FundTx, Tx
  <2>3. held'["eth"] = held["eth"] + e /\ held'["tok"] = held["tok"] + 0
    BY <1>5, <1>h, <1>10, <1>11, <1>13
  <2>4. e \in Int BY <1>0, <1>5
  <2>5. Came(s) = 0 BY <1>3, <2>1 DEF Came, Succeeded, Mined
  <2>6. Came(s)' = e
    <3>1. FundTx(s)' = tx BY <1>1, <2>1 DEF FundTx
    <3>2. Succeeded(FundTx(s))' <=> Succeeded(tx)' BY <3>1 DEF Succeeded
    <3> QED BY <1>1, <2>1, <2>2, <3>2 DEF Came
  <2>7. Went(s, "eth")' = Went(s, "eth") /\ Went(s, "tok")' = Went(s, "tok") /\ Burnt(s)' = Burnt(s)
    BY <1>8, <1>9, <1>13, <2>1
  <2>8. \A t \in Open : t = s BY <1>0, <2>2 DEF RowInv
  <2> HIDE DEF s, e
  <2>9. Base("eth")' = Base("eth") + e /\ Base("tok")' = Base("tok") + 0 BY <1>0, <1>6, <2>3, <2>4
  <2>10. /\ Came(s)' \in Int /\ Went(s, "eth")' \in Int /\ Burnt(s)' \in Int
         /\ Went(s, "eth")' + Burnt(s)' - Came(s)' = Went(s, "eth") + Burnt(s) - Came(s) - e
         /\ Went(s, "tok")' = Went(s, "tok") - 0
    BY <1>t, <2>1, <2>4, <2>5, <2>6, <2>7
  <2>11. \A t \in Open : /\ Came(t)' \in Int /\ Went(t, "eth")' \in Int /\ Burnt(t)' \in Int
                         /\ Went(t, "eth")' + Burnt(t)' - Came(t)' = Went(t, "eth") + Burnt(t) - Came(t) - e
                         /\ Went(t, "tok")' = Went(t, "tok") - 0
    BY <2>8, <2>10
  <2> QED BY <1>0, <1>1, <1>2, <2>2, <2>4, <2>9, <2>11, BooksMoved
<1>14. CASE tx.kind = "sweep"
  <2> DEFINE s == tx.id
             v == IF Succeeded(tx)' /\ row[s].asset = "eth" THEN tx.val ELSE 0
             u == IF Succeeded(tx)' /\ row[s].asset = "tok" THEN tx.val ELSE 0
             e == 0 - Cost - v
             w == 0 - u
  <2>1. s \in Sweeps /\ s \in Open /\ row[s].signed /\ tx = SweepTx(s)
    BY <1>3, <1>14 DEF Genuine, Awaited
  <2>2. tx.val = row[s].amt BY <2>1 DEF SweepTx, Tx
  <2>a. row[s].asset \in {"eth", "tok"} BY <1>0, <2>1, SweepAssumption DEF RowInv, Open
  <2>4. v \in Int /\ u \in Int BY <1>0, <1>5
  <2>3. held'["eth"] = held["eth"] - Cost - v /\ held'["tok"] = held["tok"] - u
    BY <1>0, <1>5, <1>h, <1>10, <1>11, <1>14, <2>a
  <2>5. Went(s, "eth") = 0 /\ Went(s, "tok") = 0 /\ Burnt(s) = 0
    BY <1>3, <2>1 DEF Went, Burnt, Succeeded, Mined
  <2>6. Went(s, "eth")' = v /\ Went(s, "tok")' = u /\ Burnt(s)' = Cost
    <3>1. SweepTx(s)' = tx BY <1>1, <2>1 DEF SweepTx
    <3>2. Succeeded(SweepTx(s))' <=> Succeeded(tx)' BY <3>1 DEF Succeeded
    <3>3. Mined(tx)' BY <1>0, MinedThen
    <3>4. Mined(SweepTx(s))' BY <3>1, <3>3 DEF Mined
    <3> QED BY <1>1, <2>1, <2>2, <2>a, <3>2, <3>4 DEF Went, Burnt
  <2>7. Came(s)' = Came(s) BY <1>7, <1>9, <1>14, <2>1
  <2>8. \A t \in Open : t = s BY <1>0, <2>1 DEF RowInv
  <2> HIDE DEF s, v, u
  <2>b. e \in Int /\ w \in Int BY <1>0, <2>4
  <2>c. held'["eth"] = held["eth"] + e /\ held'["tok"] = held["tok"] + w BY <1>0, <1>h, <2>3, <2>4
  <2>9. Base("eth")' = Base("eth") + e /\ Base("tok")' = Base("tok") + w
    <3> HIDE DEF e, w
    <3> QED BY <1>6, <2>b, <2>c
  <2>10. /\ Came(s)' \in Int /\ Went(s, "eth")' \in Int /\ Burnt(s)' \in Int
         /\ Went(s, "eth")' + Burnt(s)' - Came(s)' = Went(s, "eth") + Burnt(s) - Came(s) - e
         /\ Went(s, "tok")' = Went(s, "tok") - w
    BY <1>0, <1>t, <2>1, <2>4, <2>5, <2>6, <2>7
  <2> HIDE DEF e, w
  <2>11. \A t \in Open : /\ Came(t)' \in Int /\ Went(t, "eth")' \in Int /\ Burnt(t)' \in Int
                         /\ Went(t, "eth")' + Burnt(t)' - Came(t)' = Went(t, "eth") + Burnt(t) - Came(t) - e
                         /\ Went(t, "tok")' = Went(t, "tok") - w
    BY <2>8, <2>10
  <2> QED BY <1>0, <1>1, <1>2, <2>1, <2>b, <2>9, <2>11, BooksMoved
<1> QED BY <1>5, <1>12, <1>13, <1>14

\* Deposits are in transit until they are credited, gifts are never seen.
LEMMA BooksMoney ==
  ASSUME Core, Core', BooksInv, NEW a \in Assets, Deposit(a) \/ Credit(a) \/ Gift(a)
  PROVE  BooksInv'
<1>1. UNCHANGED <<row, mined>> BY DEF Deposit, Credit, Gift, node
<1>2. a \in {"eth", "tok"} /\ MoneyOK /\ MoneyOK' /\ DepositAmount[a] \in Nat
  BY SweepAssumption DEF Core, TypeOK
<1>3. /\ book'.eth \in Int /\ book'.tok \in Int /\ book.eth \in Int /\ book.tok \in Int
  BY <1>2 DEF MoneyOK
<1>4. /\ \A x \in {"eth", "tok"} : /\ held[x] \in Int /\ unseen[x] \in Int /\ held'[x] \in Int /\ unseen'[x] \in Int
      /\ \A x \in Assets : coming[x] \in Int /\ coming'[x] \in Int
  BY <1>2 DEF MoneyOK
<1>5. ASSUME NEW x \in {"eth", "tok"} PROVE Base(x) \in Int /\ Base(x)' \in Int
  BY <1>4 DEF Base
<1>6. CASE Deposit(a)
  <2>1. /\ UNCHANGED <<book, unseen>> /\ held' = [held EXCEPT ![a] = @ + DepositAmount[a]]
        /\ coming' = [coming EXCEPT ![a] = @ + DepositAmount[a]]
    BY <1>6 DEF Deposit
  <2>2. ASSUME NEW x \in {"eth", "tok"} PROVE Base(x)' = Base(x)
    <3>1. CASE x = a
      <4>1. held'[x] = held[x] + DepositAmount[a] /\ coming'[x] = coming[x] + DepositAmount[a]
        BY <1>2, <2>1, <3>1 DEF MoneyOK
      <4> QED BY <1>2, <1>4, <2>1, <3>1, <4>1 DEF Base
    <3>2. CASE x # a
      <4>1. held'[x] = held[x] /\ (x \in Assets => coming'[x] = coming[x])
        BY <1>2, <2>1, <3>2 DEF MoneyOK
      <4> QED BY <2>1, <4>1 DEF Base
    <3> QED BY <3>1, <3>2
  <2>3. Base("eth")' = Base("eth") /\ Base("tok")' = Base("tok") BY <2>2
  <2> QED BY <1>1, <1>3, <1>5, <2>1, <2>3, BooksQuiet
<1>7. CASE Gift(a)
  <2>1. /\ UNCHANGED <<book, coming>> /\ held' = [held EXCEPT ![a] = @ + 1]
        /\ unseen' = [unseen EXCEPT ![a] = @ + 1]
    BY <1>7 DEF Gift
  <2>2. ASSUME NEW x \in {"eth", "tok"} PROVE Base(x)' = Base(x)
    <3>1. CASE x = a
      <4>1. held'[x] = held[x] + 1 /\ unseen'[x] = unseen[x] + 1 BY <1>2, <2>1, <3>1 DEF MoneyOK
      <4> QED BY <1>2, <1>4, <2>1, <3>1, <4>1 DEF Base
    <3>2. CASE x # a
      <4>1. held'[x] = held[x] /\ unseen'[x] = unseen[x] BY <1>2, <2>1, <3>2 DEF MoneyOK
      <4> QED BY <2>1, <4>1 DEF Base
    <3> QED BY <3>1, <3>2
  <2>3. Base("eth")' = Base("eth") /\ Base("tok")' = Base("tok") BY <2>2
  <2> QED BY <1>1, <1>3, <1>5, <2>1, <2>3, BooksQuiet
<1>8. CASE Credit(a)
  <2>1. /\ book'.eth = book.eth + (IF a = "eth" THEN coming[a] ELSE 0)
        /\ book'.tok = book.tok + (IF a = "tok" THEN coming[a] ELSE 0)
        /\ coming' = [coming EXCEPT ![a] = 0]
    BY <1>2, <1>8, CreditPosts
  <2>2. UNCHANGED <<held, unseen>> BY <1>8 DEF Credit, node
  <2>3. ASSUME NEW x \in {"eth", "tok"}
        PROVE  Base(x)' = Base(x) + (IF a = x THEN coming[a] ELSE 0)
    <3>1. CASE x = a
      <4>1. coming'[x] = 0 BY <1>2, <2>1, <3>1 DEF MoneyOK
      <4> QED BY <1>2, <1>4, <2>2, <3>1, <4>1 DEF Base
    <3>2. CASE x # a
      <4>1. x \in Assets => coming'[x] = coming[x] BY <1>2, <2>1, <3>2 DEF MoneyOK
      <4>2. Base(x)' = Base(x) BY <2>2, <4>1 DEF Base
      <4> QED BY <1>5, <3>2, <4>2
    <3> QED BY <3>1, <3>2
  <2>4. /\ Base("eth")' = Base("eth") + (IF a = "eth" THEN coming[a] ELSE 0)
        /\ Base("tok")' = Base("tok") + (IF a = "tok" THEN coming[a] ELSE 0)
    BY <2>3
  <2>5. /\ Base("eth") \in Int /\ Base("tok") \in Int /\ Base("eth")' \in Int /\ Base("tok")' \in Int
    BY <1>5
  <2>6. Base("eth")' - book'.eth = Base("eth") - book.eth
    BY ONLY <1>3, <1>4, <2>1, <2>4, <2>5, a \in Assets
  <2>7. Base("tok")' - book'.tok = Base("tok") - book.tok
    BY ONLY <1>3, <1>4, <2>1, <2>4, <2>5, a \in Assets
  <2> QED BY <1>1, <1>3, <2>5, <2>6, <2>7, BooksQuiet
<1> QED BY <1>6, <1>7, <1>8

\* A new sweep has moved nothing.
LEMMA BooksPlan ==
  ASSUME Core, BooksInv, NEW a \in Assets, NEW s \in Sweeps, Plan(s, a)
  PROVE  BooksInv'
<1>0. TypeOK /\ Rows /\ row \in [Sweeps -> Row] /\ RowInv BY DEF Core, TypeOK, Rows, RowsOK
<1>1. /\ UNCHANGED <<held, unseen, coming, book>> /\ Open = {} /\ row[s].st = "none"
      /\ row' = [row EXCEPT ![s] = [@ EXCEPT !.st = "requested", !.asset = a, !.amt = Sweepable(a)]]
  BY DEF Plan, node, users
<1>2. Kept(s) /\ row'[s].st = "requested" BY <1>0, RowWrites DEF Change, Planned
<1>3. ~row'[s].fsigned /\ ~row'[s].signed
  <2>1. ~row[s].fsigned /\ ~row[s].signed BY <1>0, <1>1 DEF RowInv
  <2>2. row'[s].fsigned = row[s].fsigned /\ row'[s].signed = row[s].signed BY <1>0, <1>1 DEF Row
  <2> QED BY <2>1, <2>2
<1>4. Open' = {s} BY <1>1, <1>2 DEF Open, Kept
<1>5. Came(s)' = 0 /\ Went(s, "eth")' = 0 /\ Went(s, "tok")' = 0 /\ Burnt(s)' = 0 BY <1>3, NothingThen
<1>6. book.eth = Base("eth") /\ book.tok = Base("tok") BY <1>1 DEF BooksInv
<1>7. Base("eth")' = Base("eth") /\ Base("tok")' = Base("tok") BY <1>1, BaseStays
<1>8. Base("eth") \in Int /\ Base("tok") \in Int BY BookTypes
<1>9. /\ book'.eth = Base("eth")' - Came(s)' + Went(s, "eth")' + Burnt(s)'
      /\ book'.tok = Base("tok")' + Went(s, "tok")'
  BY <1>1, <1>5, <1>6, <1>7, <1>8
<1> QED BY <1>4, <1>9 DEF BooksInv

LEMMA BooksStep ==
  ASSUME Core, LiveInv, BooksInv, [Next]_vars
  PROVE  BooksInv'
<1>0. Core' /\ Rows /\ TypeOK BY CoreStep DEF Core
<1>1. ASSUME UNCHANGED <<row, mined, held, unseen, coming, book>> PROVE BooksInv'
  <2>1. Base("eth")' = Base("eth") /\ Base("tok")' = Base("tok") BY <1>1, BaseStays
  <2>2. /\ Base("eth") \in Int /\ Base("tok") \in Int /\ book.eth \in Int /\ book.tok \in Int BY BookTypes
  <2> QED BY <1>1, <2>1, <2>2, BooksQuiet
<1>2. ASSUME NEW a \in Assets, Deposit(a) \/ Credit(a) \/ Gift(a) PROVE BooksInv'
  BY <1>0, <1>2, BooksMoney
<1>3. ASSUME NEW a \in Assets, NEW s \in Sweeps, Plan(s, a) PROVE BooksInv' BY <1>3, BooksPlan
<1>4. ASSUME NEW s \in Sweeps, SweepStep(s) PROVE BooksInv'
  <2>1. CASE TrackFunding(s) \/ BalanceChanged(s) \/ PinSweepNonce(s) \/ Track(s) BY <2>1, BooksRows
  <2>2. CASE FundGas(s) \/ ResendFunding(s) \/ SendSigned(s) \/ ResendSweep(s)
    BY <1>1, <2>2 DEF FundGas, ResendFunding, SendSigned, ResendSweep, node, users
  <2> QED BY <1>4, <2>1, <2>2 DEF SweepStep
<1>5. CASE JobStep
  <2>1. CASE ClearFunding \/ AlreadyFunded \/ RecordFunding \/ FundingRefused
             \/ SignSweep \/ MarkBroadcast \/ SweepRefused \/ (PinFunding /\ row' # row)
    <3>1. job.s \in Sweeps BY <1>0, <2>1, RowWrites
    <3> QED BY <2>1, <3>1, BooksRows
  <2>2. CASE Release \/ (PinFunding /\ row' = row) \/ SignFunding \/ SignFundingFails \/ SendFunding
    BY <1>1, <2>2 DEF Release, PinFunding, SignFunding, SignFundingFails, SendFunding, node, users
  <2>3. CASE SignSweepFails \/ SendSweep \/ Recycle \/ StepBack \/ RecordFill \/ SendFill
    BY <1>1, <2>3 DEF SignSweepFails, SendSweep, Recycle, StepBack, RecordFill, SendFill, node, users
  <2> QED BY <1>5, <2>1, <2>2, <2>3 DEF JobStep
<1>6. CASE MoveFee \/ OtherAllocates \/ OtherCommits \/ Crash \/ Start \/ StartFill \/ Started
  BY <1>1, <1>6 DEF MoveFee, OtherAllocates, OtherCommits, Crash, Start, StartFill, Started, node, users
<1>7. ASSUME NEW o \in Others, OtherSends(o) PROVE BooksInv' BY <1>1, <1>7 DEF OtherSends, users
<1>8. ASSUME NEW tx \in pool, Drop(tx) PROVE BooksInv' BY <1>1, <1>8 DEF Drop, users
<1>9. ASSUME NEW tx \in pool, Mine(tx) PROVE BooksInv' BY <1>9, BooksMine
<1>10. CASE UNCHANGED vars BY <1>1, <1>10 DEF vars
<1> QED BY <1>2, <1>3, <1>4, <1>5, <1>6, <1>7, <1>8, <1>9, <1>10, Zenon DEF Next

LEMMA BooksInit == ASSUME Init PROVE LiveInv /\ BooksInv
<1>1. pool = {} /\ job = Idle BY DEF Init
<1>2. LiveInv BY <1>1, Idling DEF LiveInv
<1>3. \A s \in Sweeps : row[s].st = "none" BY DEF Init
<1>4. Open = {} BY <1>3 DEF Open
<1>5. /\ \A x \in {"eth", "tok"} : held[x] = 0 /\ unseen[x] = 0
      /\ \A x \in Assets : coming[x] = 0
  BY DEF Init
<1>6. Base("eth") = 0 /\ Base("tok") = 0 BY <1>5 DEF Base
<1>7. book.eth = 0 /\ book.tok = 0 BY DEF Init
<1> QED BY <1>2, <1>4, <1>6, <1>7 DEF BooksInv

\* What the fundings that arrived add up to.
LEMMA FundedSum ==
  ASSUME NEW T, T \subseteq Sweeps
  PROVE  MapThenSumSet(LAMBDA s : row[s].fa, T) = SumOf([s \in Sweeps |-> row[s].fa], T)
<1> DEFINE g == [s \in Sweeps |-> row[s].fa]
           P(it) == it = [s \in SUBSET T |-> IF s = {} THEN 0 ELSE row[Pick(s)].fa + it[s \ {Pick(s)}]]
<1>1. IsFiniteSet(T) BY SweepAssumption, FS_Subset
<1>2. \A s \in SUBSET T : s # {} => g[Pick(s)] = row[Pick(s)].fa BY PickIn
<1>3. ASSUME NEW it PROVE P(it) <=> Sums(g, T, it)
  <2>1. [s \in SUBSET T |-> IF s = {} THEN 0 ELSE row[Pick(s)].fa + it[s \ {Pick(s)}]]
        = [s \in SUBSET T |-> IF s = {} THEN 0 ELSE g[Pick(s)] + it[s \ {Pick(s)}]]
    <3> HIDE DEF g
    <3> QED BY <1>2
  <2> HIDE DEF g
  <2> QED BY <2>1, Zenon DEF Sums
<1>4. MapThenSumSet(LAMBDA s : row[s].fa, T) = (CHOOSE it : P(it))[T]
  BY Zenon DEF MapThenSumSet, MapThenFoldSet, Pick
<1>5. SumOf(g, T) = (CHOOSE it : Sums(g, T, it))[T] BY SumDef
<1> HIDE DEF P
<1>6. \E it : Sums(g, T, it) BY <1>1, SumsExist
<1>7. P(CHOOSE it : P(it)) BY <1>3, <1>6, Zenon
<1>8. Sums(g, T, CHOOSE it : P(it)) BY <1>3, <1>7, Zenon
<1>9. Sums(g, T, CHOOSE it : Sums(g, T, it)) BY <1>6, Zenon
<1>10. (CHOOSE it : P(it)) = (CHOOSE it : Sums(g, T, it)) BY <1>1, <1>8, <1>9, SumsUnique
<1> QED BY <1>4, <1>5, <1>10 DEF g

\* A sum over none or one of the sweeps.
LEMMA FewSum ==
  ASSUME NEW T, NEW s \in Sweeps, T \subseteq {s}, NEW g, g[s] \in Int
  PROVE  SumOf(g, T) = IF s \in T THEN g[s] ELSE 0
<1>1. T = {} \/ T = {s} OBVIOUS
<1>2. SumOf(g, {}) = 0 /\ SumOf(g, {s}) = g[s] BY SumFew
<1> QED BY <1>1, <1>2

\* What the books must have of the one open sweep is what the sums say.
LEMMA BooksLink == ASSUME Core, BooksInv PROVE BooksFollowChain
<1>0. RowInv BY DEF Core, Rows
<1>1. Arrived \subseteq Open /\ Left(TRUE) \subseteq Open /\ Left(FALSE) \subseteq Open /\ Open \subseteq Sweeps
  BY DEF Arrived, Left, Open
<1>2. ASSUME NEW k \in Int, NEW w \in Int, NEW v \in Int, NEW n \in Int,
             MapThenSumSet(LAMBDA s : row[s].fa, Arrived) = k, Amounts(Left(TRUE), "eth") = w,
             Amounts(Left(TRUE), "tok") = v, Cost * Cardinality(Left(TRUE) \cup Left(FALSE)) = n,
             book.eth = Base("eth") - k + w + n, book.tok = Base("tok") + v
      PROVE  BooksFollowChain
  BY <1>2 DEF BooksFollowChain, Base
<1> DEFINE fa == [s \in Sweeps |-> row[s].fa]
           amt == [s \in Sweeps |-> row[s].amt]
           gone(a) == {s \in Left(TRUE) : row[s].asset = a}
<1>3. MapThenSumSet(LAMBDA s : row[s].fa, Arrived) = SumOf(fa, Arrived)
  <2>1. Arrived \subseteq Sweeps BY <1>1
  <2> QED BY <2>1, FundedSum
<1>4. \A a : Amounts(Left(TRUE), a) = SumOf(amt, gone(a))
  <2>1. Left(TRUE) \subseteq Sweeps BY <1>1
  <2> QED BY <2>1, AmountsSum
<1>5. \A s \in Sweeps : /\ fa[s] = row[s].fa /\ amt[s] = row[s].amt
                        /\ row[s].fa \in Int /\ row[s].amt \in Int /\ Came(s) \in Int /\ Went(s, "eth") \in Int
                        /\ Went(s, "tok") \in Int /\ Burnt(s) \in Int
  BY BookTypes
<1>6. Base("eth") \in Int /\ Base("tok") \in Int /\ Cost \in Int BY BookTypes
<1>7. CASE Open = {}
  <2>1. Arrived = {} /\ Left(TRUE) = {} /\ Left(FALSE) = {} BY <1>1, <1>7
  <2>2. gone("eth") = {} /\ gone("tok") = {} BY <2>1
  <2>3. \A g : SumOf(g, {}) = 0
    <3>1. IsFiniteSet({}) BY FS_EmptySet
    <3> QED BY <3>1, SumRec
  <2>4. Cardinality(Left(TRUE) \cup Left(FALSE)) = 0
    <3>1. Left(TRUE) \cup Left(FALSE) = {} BY <2>1
    <3> QED BY <3>1, FS_EmptySet
  <2>5. Cost * Cardinality(Left(TRUE) \cup Left(FALSE)) = 0 BY <1>6, <2>4
  <2>6. book.eth = Base("eth") - 0 + 0 + 0 /\ book.tok = Base("tok") + 0
    <3>1. book.eth = Base("eth") /\ book.tok = Base("tok") BY <1>7 DEF BooksInv
    <3> QED BY <1>6, <3>1
  <2> HIDE DEF fa, amt, gone
  <2>7. /\ MapThenSumSet(LAMBDA s : row[s].fa, Arrived) = 0 /\ Amounts(Left(TRUE), "eth") = 0
        /\ Amounts(Left(TRUE), "tok") = 0
    BY <1>3, <1>4, <2>1, <2>2, <2>3
  <2>8. ASSUME NEW z \in Int, z = 0 PROVE BooksFollowChain
    <3>1. /\ MapThenSumSet(LAMBDA s : row[s].fa, Arrived) = z /\ Amounts(Left(TRUE), "eth") = z
          /\ Amounts(Left(TRUE), "tok") = z /\ Cost * Cardinality(Left(TRUE) \cup Left(FALSE)) = z
          /\ book.eth = Base("eth") - z + z + z /\ book.tok = Base("tok") + z
      BY <2>5, <2>6, <2>7, <2>8
    <3> QED BY <1>2, <3>1, Zenon
  <2> QED BY <2>8
<1>8. ASSUME NEW s \in Open PROVE BooksFollowChain
  <2>0. s \in Sweeps /\ Open = {s} BY <1>0, <1>1 DEF RowInv
  <2>1. /\ s \in Arrived <=> row[s].st = "requested" /\ row[s].fsigned /\ Succeeded(FundTx(s))
        /\ \A a : s \in gone(a) <=> row[s].signed /\ Succeeded(SweepTx(s)) /\ row[s].asset = a
        /\ s \in Left(TRUE) \cup Left(FALSE) <=> row[s].signed /\ Mined(SweepTx(s))
    <3>1. Succeeded(SweepTx(s)) \in BOOLEAN BY DEF Succeeded
    <3>2. Succeeded(SweepTx(s)) => Mined(SweepTx(s)) BY DEF Succeeded, Mined
    <3> QED BY <2>0, <3>1, <3>2 DEF Arrived, Left
  <2>2. Arrived \subseteq {s} /\ gone("eth") \subseteq {s} /\ gone("tok") \subseteq {s}
        /\ Left(TRUE) \cup Left(FALSE) \subseteq {s}
    BY <1>1, <2>0
  <2>3. fa[s] \in Int /\ amt[s] \in Int BY <1>5, <2>0
  <2>4. SumOf(fa, Arrived) = Came(s)
    <3>1. SumOf(fa, Arrived) = IF s \in Arrived THEN fa[s] ELSE 0
      <4> HIDE DEF fa
      <4> QED BY <2>0, <2>2, <2>3, FewSum
    <3> QED BY <1>5, <2>0, <2>1, <3>1 DEF Came
  <2>5. ASSUME NEW a \in {"eth", "tok"} PROVE SumOf(amt, gone(a)) = Went(s, a)
    <3>1. SumOf(amt, gone(a)) = IF s \in gone(a) THEN amt[s] ELSE 0
      <4> HIDE DEF amt, gone
      <4> QED BY <2>0, <2>2, <2>3, FewSum
    <3> QED BY <1>5, <2>0, <2>1, <3>1 DEF Went
  <2>6. Cost * Cardinality(Left(TRUE) \cup Left(FALSE)) = Burnt(s)
    <3> DEFINE L == Left(TRUE) \cup Left(FALSE)
    <3>1. L = {} \/ L = {s} BY <2>2
    <3>2. Cardinality(L) = IF s \in L THEN 1 ELSE 0 BY <3>1, FS_EmptySet, FS_Singleton
    <3>3. Burnt(s) = IF s \in L THEN Cost ELSE 0 BY <2>1 DEF Burnt
    <3> HIDE DEF L
    <3>4. Cost * Cardinality(L) = Burnt(s) BY <1>6, <3>2, <3>3
    <3> QED BY <3>4 DEF L
  <2>7. /\ book.eth = Base("eth") - Came(s) + Went(s, "eth") + Burnt(s)
        /\ book.tok = Base("tok") + Went(s, "tok")
    BY DEF BooksInv
  <2>8. /\ Came(s) \in Int /\ Went(s, "eth") \in Int /\ Went(s, "tok") \in Int /\ Burnt(s) \in Int
    BY <1>5, <2>0
  <2> HIDE DEF fa, amt, gone
  <2>9. /\ MapThenSumSet(LAMBDA x : row[x].fa, Arrived) = Came(s)
        /\ Amounts(Left(TRUE), "eth") = Went(s, "eth")
        /\ Amounts(Left(TRUE), "tok") = Went(s, "tok")
    BY <1>3, <1>4, <2>4, <2>5
  <2> QED BY <1>2, <2>6, <2>7, <2>8, <2>9
<1> QED BY <1>7, <1>8

\* The ledger's custody account of the address is what the address holds, up to
\* what nobody can see, what is not credited yet and what the open sweep has
\* moved and not booked, whatever is signed or not, dropped, reverted or
\* interrupted, as long as a node's refusal means that it does not hold the
\* transaction.
THEOREM BooksAgree ==
  ASSUME "rpc" \notin Faults
  PROVE  Spec => []BooksFollowChain
<1>1. Init => Core /\ LiveInv /\ BooksInv BY CoreInit, BooksInit
<1>2. Core /\ LiveInv /\ BooksInv /\ [Next]_vars => (Core /\ LiveInv /\ BooksInv)'
  BY CoreStep, LiveStep, BooksStep
<1>3. Core /\ BooksInv => BooksFollowChain BY BooksLink
<1> QED BY <1>1, <1>2, <1>3, PTL DEF Spec
=============================================================================
