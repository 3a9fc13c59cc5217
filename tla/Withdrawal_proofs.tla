--------------------------- MODULE Withdrawal_proofs ---------------------------
(***************************************************************************)
(* Withdrawals for any set of requests, amounts, faults, crashes and       *)
(* bounds.                                                                 *)
(*                                                                         *)
(* Money: the posting keys carry the attempt, and an attempt is posted     *)
(* once because the row's status and attempt have moved on (KeysFollow);   *)
(* so every commit moves the buckets by what it does to the rows.          *)
(*                                                                         *)
(* Nonces: all transactions a withdrawal ever had signed carry the nonce   *)
(* its row names now, or one whose fate is sealed beyond the confirmations *)
(* without paying (Dead).  Only one transaction can take a nonce, hence    *)
(* none is paid twice, and nothing returned can be paid any more.          *)
(***************************************************************************)
EXTENDS Withdrawal, TLAPS, FiniteSetTheorems, WellFoundedInduction

Statuses == {"none", "requested", "rejected", "pending_review", "auto_approved", "approved",
             "funds_locked", "signed", "broadcast", "confirmed", "failed"}
Reasons == {"", "policy", "insufficient_balance", "broadcast", "on_chain", "replaced"}
Requests == {"", "bump", "cancel_nonce", "refund", "retry"}
Txs == [w : Withdrawals \cup {"fill", "none"}, att : Int, nonce : Int]
RowType == [st : Statuses, why : Reasons, nonce : Nat \cup {None}, att : Nat, tx : Txs,
            cancel : BOOLEAN, ask : Requests]
Stages == {"idle", "sign", "record", "recycle", "fill", "fillsend", "post", "refused", "resend",
           "replaced", "cancelsend", "cancelmark", "clear"}
JobType == [at : Stages, w : Withdrawals \cup {"none"}, tx : Txs, clear : BOOLEAN]

\* Types of the rows, the job, the wallet and the buckets.
RowTypes ==
  /\ row \in [Withdrawals -> RowType] /\ job \in JobType /\ phase \in {"down", "starting", "up"}
  /\ nextNonce \in Nat /\ log \subseteq Txs
BookTypes ==
  bal \in [avail : Int, hold : Int] /\ house \in [pending : Int, hot : Int, revenue : Int, spent : Int]

\* From its signature on a row names its transaction, of its own nonce.
Sent(w) ==
  \/ row[w].st \in {"signed", "broadcast", "confirmed"}
  \/ row[w].st = "failed" /\ row[w].why \in {"broadcast", "on_chain", "replaced"}
RowTx ==
  \A w \in Withdrawals : Sent(w) =>
    row[w].tx \in log /\ row[w].tx.w = w /\ row[w].nonce \in Nat /\ row[w].tx.nonce = row[w].nonce

\* Where the sending loop stands: nobody else moves the row it works on.
JobInv ==
  LET w == job.w IN
  /\ job.at = "idle" => job = Idle
  /\ phase # "up" => job.at \in {"idle", "fill", "fillsend"}
  /\ job.at \notin {"idle", "fill", "fillsend", "recycle"} => w \in Withdrawals
  /\ job.at \in {"sign", "record"} =>
       row[w].st = "funds_locked" /\ row[w].nonce \in Nat /\ job.tx = Tx(w, row[w].att, row[w].nonce)
  /\ job.at \in {"post", "refused"} => row[w].st = "signed" /\ job.tx = row[w].tx
  /\ job.at \in {"resend", "replaced", "cancelsend", "cancelmark"} => row[w].st = "broadcast"
  /\ job.at \in {"resend", "replaced"} => job.tx = Tx(w, row[w].att + 1, row[w].nonce)
  /\ job.at \in {"cancelsend", "cancelmark"} => job.tx = FillTx(row[w].nonce)
  /\ job.at \in {"fill", "fillsend"} => job.tx = FillTx(job.tx.nonce)
  /\ job.at \in {"recycle", "fill", "fillsend"} => job.tx.nonce \in Nat
  /\ job.at \in {"record", "fillsend", "resend", "replaced", "cancelsend"} => job.tx \in log

LoopInv == RowTypes /\ RowTx /\ JobInv

\* A posting's key says that the row has gone through that attempt.
KeysFollow ==
  \A w \in Withdrawals, a \in Nat :
    /\ <<"broadcast", w, a>> \in keys =>
         a =< row[w].att /\ (a = row[w].att => row[w].st \in {"broadcast", "confirmed", "failed"})
    /\ <<"refund", w, a>> \in keys =>
         a =< row[w].att /\ (a = row[w].att => row[w].st = "failed" /\ row[w].why = "on_chain")
    /\ <<"retry", w, a>> \in keys => a < row[w].att

\* A retry is asked for only while the money is still undecided.
RetryInv == \A w \in Withdrawals : row[w].ask = "retry" => ~Refunded(w)

BookInv == BookTypes /\ KeysFollow /\ RetryInv /\ LedgerAgrees

\* The node has what was signed; the transaction at a place of the chain has
\* the nonce of that place, and only a withdrawal's can revert.
NodeInv ==
  /\ mempool \subseteq log /\ IsFiniteSet(mempool)
  /\ mined \in Seq([tx : Txs, ok : BOOLEAN]) /\ deep \in Nat /\ deep =< Len(mined)
  /\ \A i \in 1..Len(mined) : mined[i].tx \in log /\ mined[i].tx.nonce = i - 1
  /\ \A tx \in log : tx.nonce \in Nat /\ tx.w \in Withdrawals \cup {"fill"}

\* A nonce that is settled, and not by paying w.
Dead(w, n) == n \in Nat /\ n < deep /\ ~(mined[n + 1].tx.w = w /\ mined[n + 1].ok)
OneNonce ==
  \A tx \in log : tx.w \in Withdrawals => tx.nonce = row[tx.w].nonce \/ Dead(tx.w, tx.nonce)

\* What an ended row says of its nonce is beyond the confirmations.
Settled ==
  \A w \in Withdrawals :
    /\ row[w].st = "confirmed" => \E i \in 1..deep : mined[i].tx = row[w].tx /\ mined[i].ok
    /\ row[w].st = "failed" /\ row[w].why = "on_chain" =>
         \E i \in 1..deep : mined[i].tx = row[w].tx /\ ~mined[i].ok
    /\ row[w].st = "failed" /\ row[w].why = "replaced" =>
         \E i \in 1..deep : mined[i].tx = FillTx(row[w].nonce)

\* Once the role is up, a nonce handed out and not mined has somebody to take
\* it: a holder, a transaction some node holds, or the recycling under way.
Covered ==
  phase = "up" =>
    \A n \in Len(mined)..(nextNonce - 1) :
      \/ n \in Holders
      \/ \E tx \in mempool : tx.nonce = n
      \/ job.at \in {"recycle", "fill"} /\ job.tx.nonce = n

ChainInv == NodeInv /\ OneNonce /\ Settled /\ Covered

-----------------------------------------------------------------------------
(* The sending loop and the rows.                                          *)

Before == {"none", "requested", "pending_review", "auto_approved", "approved"}

\* The transactions the program builds are typed.
LEMMA TxTypes ==
  /\ None \in Int /\ NoTx \in Txs
  /\ \A w \in Withdrawals, att, n \in Int : Tx(w, att, n) \in Txs /\ FillTx(n) \in Txs
<1>1. None \in Int BY DEF None
<1>2. \A w \in Withdrawals, att, n \in Int : Tx(w, att, n) \in Txs /\ FillTx(n) \in Txs
  BY DEF Tx, FillTx, Txs
<1> QED BY <1>1, <1>2 DEF NoTx, Txs

\* A job has the parts it was made of.
LEMMA JobTypes ==
  ASSUME NEW at \in Stages, NEW w \in Withdrawals \cup {"none"}, NEW tx \in Txs, NEW clear \in BOOLEAN
  PROVE  /\ Job(at, w, tx, clear) \in JobType /\ Job(at, w, tx, clear).at = at
         /\ Job(at, w, tx, clear).w = w /\ Job(at, w, tx, clear).tx = tx
BY DEF Job, JobType

\* Nothing is sent and the loop is idle at first.
LEMMA LoopInit == Init => LoopInv
<1> SUFFICES ASSUME Init PROVE LoopInv
  OBVIOUS
<1>0. NoTx \in Txs BY TxTypes
<1> USE DEF Init
<1>1. RowTypes
  <2>1. Idle \in JobType BY <1>0 DEF Idle, JobType, Stages
  <2>2. row \in [Withdrawals -> RowType]
    BY <1>0 DEF RowType, Statuses, Reasons, Requests
  <2> QED BY <2>1, <2>2 DEF RowTypes
<1>2. RowTx BY DEF RowTx, Sent
<1>3. JobInv BY DEF JobInv, Idle
<1> QED BY <1>1, <1>2, <1>3 DEF LoopInv

\* A step that works on one row.
LEMMA RowMoves ==
  ASSUME LoopInv, NEW w \in Withdrawals,
         \A v \in Withdrawals \ {w} : row'[v] = row[v],
         row' \in [Withdrawals -> RowType], job' \in JobType, phase' \in {"down", "starting", "up"},
         nextNonce' \in Nat, log \subseteq log', log' \subseteq Txs,
         Sent(w)' => row'[w].tx \in log' /\ row'[w].tx.w = w
                       /\ row'[w].nonce \in Nat /\ row'[w].tx.nonce = row'[w].nonce,
         JobInv'
  PROVE  LoopInv'
<1>1. RowTypes' BY DEF RowTypes
<1>2. RowTx' BY DEF LoopInv, RowTx, Sent
<1> QED BY <1>1, <1>2 DEF LoopInv

\* The client, the policy loop and the operators move rows the sending loop
\* is not working on, or leave what it reads alone.
LEMMA PolicySteps ==
  ASSUME LoopInv, NEW w \in Withdrawals,
         \/ Create(w) \/ Decide(w) \/ LockFunds(w) \/ DropRequest(w)
         \/ \E approve \in BOOLEAN : Review(w, approve)
         \/ \E action \in {"bump", "cancel_nonce", "refund", "retry"} : RequestResolve(w, action)
  PROVE  LoopInv'
<1> USE DEF LoopInv
<1>0. row \in [Withdrawals -> RowType] BY DEF RowTypes
<1>1. UNCHANGED <<job, log, nextNonce, phase>>
  BY DEF Create, Decide, LockFunds, DropRequest, Review, RequestResolve, wallet
<1>2. \/ \E st \in Statuses, why \in Reasons :
           /\ row[w].st \in Before /\ st \in Before \cup {"rejected", "funds_locked", "failed"}
           /\ st = "failed" => why = "insufficient_balance"
           /\ row' = [row EXCEPT ![w].st = st, ![w].why = why]
      \/ \E ask \in Requests : row' = [row EXCEPT ![w].ask = ask]
  <2>1. CASE Create(w) BY <2>1 DEF Create, Status, Before, Statuses, Reasons
  <2>2. CASE Decide(w)
    <3> DEFINE new == IF Cardinality({v \in Withdrawals : row[v].st \notin Ended}) * Amount > DailyLimit
                        THEN "pending_review" ELSE "auto_approved"
    <3>1. \/ row' = [row EXCEPT ![w].st = "rejected", ![w].why = "policy"]
          \/ row' = [row EXCEPT ![w].st = new, ![w].why = ""]
      BY <2>2 DEF Decide, Status
    <3>2. new \in {"pending_review", "auto_approved"} OBVIOUS
    <3> HIDE DEF new
    <3> QED BY <2>2, <3>1, <3>2 DEF Decide, Before, Statuses, Reasons
  <2>3. CASE LockFunds(w) BY <2>3 DEF LockFunds, Status, Before, Statuses, Reasons
  <2>4. CASE DropRequest(w) BY <2>4 DEF DropRequest, Requests
  <2>5. CASE \E approve \in BOOLEAN : Review(w, approve)
    BY <2>5 DEF Review, Status, Before, Statuses, Reasons
  <2>6. CASE \E action \in {"bump", "cancel_nonce", "refund", "retry"} : RequestResolve(w, action)
    BY <2>6 DEF RequestResolve, Requests
  <2> QED BY <2>1, <2>2, <2>3, <2>4, <2>5, <2>6
<1>3. CASE \E ask \in Requests : row' = [row EXCEPT ![w].ask = ask]
  <2>1. row' \in [Withdrawals -> RowType] BY <1>0, <1>3 DEF RowType
  <2>2. \A v \in Withdrawals : /\ row'[v].st = row[v].st /\ row'[v].why = row[v].why
                               /\ row'[v].nonce = row[v].nonce /\ row'[v].att = row[v].att
                               /\ row'[v].tx = row[v].tx
    BY <1>0, <1>3 DEF RowType
  <2>3. JobInv' BY <1>1, <2>2 DEF JobInv
  <2>4. RowTx' BY <1>1, <2>2 DEF RowTx, Sent
  <2> QED BY <1>1, <2>1, <2>3, <2>4 DEF RowTypes
<1>4. CASE \E st \in Statuses, why \in Reasons :
             /\ row[w].st \in Before /\ st \in Before \cup {"rejected", "funds_locked", "failed"}
             /\ st = "failed" => why = "insufficient_balance"
             /\ row' = [row EXCEPT ![w].st = st, ![w].why = why]
  <2>1. row' \in [Withdrawals -> RowType] BY <1>0, <1>4, ZenonT(60) DEF RowType
  <2>2. \A v \in Withdrawals \ {w} : row'[v] = row[v] BY <1>0, <1>4
  <2>3. row[w].st \in Before /\ ~Sent(w)'
    BY <1>0, <1>4 DEF RowType, Sent, Before
  <2>4. job.at \in {"idle", "fill", "fillsend", "recycle", "clear"} \/ job.w # w
    BY <2>3 DEF JobInv, Before, RowTypes, JobType, Stages
  <2>5. JobInv' BY <1>1, <2>2, <2>4 DEF JobInv
  <2> QED BY <1>1, <2>1, <2>2, <2>3, <2>5, RowMoves DEF RowTypes
<1> QED BY <1>2, <1>3, <1>4

\* Signing, from the pinned nonce to the recorded transaction.
LEMMA SignSteps ==
  ASSUME LoopInv,
         (\E w \in Withdrawals : PinNonce(w)) \/ SignerSigns \/ SignerFails \/ RecordSigned
           \/ Recycle \/ RecordFill \/ SendFill
  PROVE  LoopInv'
<1> USE DEF LoopInv
<1>0. /\ row \in [Withdrawals -> RowType] /\ job \in JobType /\ job.tx \in Txs /\ log \subseteq Txs
      /\ nextNonce \in Nat /\ phase \in {"down", "starting", "up"} /\ Idle \in JobType
  BY DEF RowTypes, JobType, Idle, NoTx, Txs, None, Stages
<1>1. ASSUME NEW w \in Withdrawals, PinNonce(w) PROVE LoopInv'
  <2>1. UNCHANGED <<log, phase>> /\ phase = "up" /\ row[w].st = "funds_locked" BY <1>1 DEF PinNonce, Ready
  <2>2. /\ row' \in [Withdrawals -> RowType] /\ nextNonce' \in Nat
        /\ \A v \in Withdrawals \ {w} : row'[v] = row[v]
        /\ row'[w].st = "funds_locked" /\ row'[w].nonce \in Nat /\ row'[w].att = row[w].att
    <3>1. CASE row[w].nonce = None BY <1>0, <1>1, <2>1, <3>1 DEF PinNonce, RowType
    <3>2. CASE row[w].nonce # None BY <1>0, <1>1, <2>1, <3>2 DEF PinNonce, RowType
    <3> QED BY <3>1, <3>2
  <2>3. job' = Job("sign", w, Tx(w, row[w].att, row'[w].nonce), FALSE) BY <1>1 DEF PinNonce
  <2>4. row[w].att \in Int /\ row'[w].nonce \in Int BY <1>0, <2>2 DEF RowType
  <2>5. Tx(w, row[w].att, row'[w].nonce) \in Txs BY <2>4, TxTypes
  <2>6. job' \in JobType BY <2>3, <2>5 DEF Job, JobType, Stages
  <2>7. JobInv' BY <2>1, <2>2, <2>3 DEF JobInv, Job
  <2> QED BY <1>0, <2>1, <2>2, <2>6, <2>7, RowMoves DEF Sent
<1>2. CASE SignerSigns
  <2>1. /\ UNCHANGED <<row, phase, nextNonce>> /\ log' = log \cup {job.tx} /\ job.at = "sign"
        /\ job' = [job EXCEPT !.at = "record"]
    BY <1>2 DEF SignerSigns, Sign
  <2>2. JobInv' BY <1>0, <2>1 DEF JobInv, JobType
  <2>3. RowTypes' BY <1>0, <2>1 DEF RowTypes, JobType, Stages
  <2>4. RowTx' BY <2>1 DEF RowTx, Sent
  <2> QED BY <2>2, <2>3, <2>4
<1>3. CASE SignerFails
  <2>1. /\ UNCHANGED <<row, phase, nextNonce>> /\ log' \in {log, log \cup {job.tx}} /\ job.at = "sign"
        /\ job' = [job EXCEPT !.at = "recycle"]
    BY <1>3 DEF SignerFails, Sign
  <2>2. job.tx.nonce \in Nat BY <2>1 DEF JobInv, Tx
  <2>3. JobInv' BY <1>0, <2>1, <2>2 DEF JobInv, JobType
  <2>4. RowTypes' BY <1>0, <2>1 DEF RowTypes, JobType, Stages
  <2>5. RowTx' BY <2>1 DEF RowTx, Sent
  <2> QED BY <2>3, <2>4, <2>5
<1>4. CASE RecordSigned
  <2>1. PICK w \in Withdrawals : w = job.w BY <1>4 DEF RecordSigned, JobInv
  <2>2. /\ UNCHANGED <<log, phase, nextNonce>> /\ job' = Idle
        /\ row[w].nonce \in Nat /\ job.tx = Tx(w, row[w].att, row[w].nonce) /\ job.tx \in log
        /\ row' = [row EXCEPT ![w].st = "signed", ![w].tx = job.tx, ![w].nonce = job.tx.nonce]
    BY <1>4, <2>1 DEF RecordSigned, JobInv, wallet
  <2>3. job.tx.w = w /\ job.tx.nonce = row[w].nonce BY <2>2 DEF Tx
  <2>4. /\ row' \in [Withdrawals -> RowType] /\ \A v \in Withdrawals \ {w} : row'[v] = row[v]
        /\ row'[w].tx = job.tx /\ row'[w].nonce = row[w].nonce
    <3>1. PICK tx \in Txs, n \in Nat : tx = job.tx /\ n = job.tx.nonce BY <1>0, <2>2, <2>3
    <3>2. row' = [row EXCEPT ![w].st = "signed", ![w].tx = tx, ![w].nonce = n] BY <2>2, <3>1
    <3>3. [row[w] EXCEPT !.st = "signed", !.tx = tx, !.nonce = n] \in RowType
      BY <1>0 DEF RowType, Statuses
    <3>4. row' = [row EXCEPT ![w] = [row[w] EXCEPT !.st = "signed", !.tx = tx, !.nonce = n]]
      BY <1>0, <3>2
    <3>5. row' \in [Withdrawals -> RowType] BY <1>0, <3>3, <3>4
    <3> QED BY <1>0, <2>3, <3>1, <3>4, <3>5 DEF RowType
  <2>5. JobInv' BY <2>2 DEF JobInv, Idle
  <2> QED BY <1>0, <2>2, <2>3, <2>4, <2>5, RowMoves
<1>5. CASE Recycle \/ RecordFill \/ SendFill
  <2>1. PICK n \in Nat : n = job.tx.nonce BY <1>5 DEF Recycle, RecordFill, SendFill, JobInv
  <2>2. FillTx(n) \in Txs /\ FillTx(n).nonce = n BY DEF FillTx, Tx, Txs
  <2>3. UNCHANGED <<row, phase>> BY <1>5 DEF Recycle, RecordFill, SendFill, wallet
  <2>4. RowTypes' /\ JobInv' /\ log \subseteq log'
    <3>1. CASE Recycle
      <4>1. CASE nextNonce = n + 1 /\ nextNonce' = n /\ job' = Idle /\ log' = log
        BY <1>0, <2>3, <4>1 DEF RowTypes, JobInv, Idle
      <4>2. CASE job' = Job("fill", "none", FillTx(n), FALSE) /\ UNCHANGED <<nextNonce, log>>
        <5>1. job' \in JobType BY <2>2, <4>2 DEF Job, JobType, Stages
        <5>2. job'.at = "fill" /\ job'.tx = FillTx(n) /\ job'.tx.nonce = n BY <2>2, <4>2 DEF Job
        <5>3. JobInv' BY <2>3, <4>2, <5>2 DEF JobInv
        <5> QED BY <1>0, <2>3, <4>2, <5>1, <5>3 DEF RowTypes
      <4> QED BY <2>1, <3>1, <4>1, <4>2 DEF Recycle
    <3>2. CASE RecordFill
      <4>1. CASE job' = Idle /\ UNCHANGED <<nextNonce, log>>
        BY <1>0, <2>3, <4>1 DEF RowTypes, JobInv, Idle
      <4>2. CASE job' = [job EXCEPT !.at = "fillsend"] /\ nextNonce' = nextNonce /\ log' = log \cup {job.tx}
        <5>1. job' \in JobType BY <1>0, <4>2 DEF JobType, Stages
        <5>2. job'.at = "fillsend" /\ job'.tx = job.tx /\ job.at = "fill" BY <1>0, <3>2, <4>2 DEF JobType, RecordFill
        <5>3. JobInv' BY <2>3, <4>2, <5>2 DEF JobInv
        <5> QED BY <1>0, <2>3, <4>2, <5>1, <5>3 DEF RowTypes
      <4> QED BY <3>2, <4>1, <4>2 DEF RecordFill, Sign
    <3>3. CASE SendFill
      BY <1>0, <2>3, <3>3 DEF SendFill, RowTypes, JobInv, Idle, wallet
    <3> QED BY <1>5, <3>1, <3>2, <3>3
  <2>5. RowTx' BY <2>3, <2>4 DEF RowTx, Sent
  <2> QED BY <2>4, <2>5
<1> QED BY <1>1, <1>2, <1>3, <1>4, <1>5

\* A status change moves one row, and only its status and reason.
LEMMA StatusMoves ==
  ASSUME row \in [Withdrawals -> RowType], NEW w \in Withdrawals,
         NEW st \in Statuses, NEW why \in Reasons, Status(w, st, why)
  PROVE  /\ row' \in [Withdrawals -> RowType] /\ \A v \in Withdrawals \ {w} : row'[v] = row[v]
         /\ row'[w].st = st /\ row'[w].why = why
         /\ row'[w].nonce = row[w].nonce /\ row'[w].att = row[w].att /\ row'[w].tx = row[w].tx
         /\ row'[w].cancel = row[w].cancel /\ row'[w].ask = row[w].ask
<1>1. row' = [row EXCEPT ![w] = [row[w] EXCEPT !.st = st, !.why = why]] BY DEF Status
<1>2. [row[w] EXCEPT !.st = st, !.why = why] \in RowType BY DEF RowType
<1> QED BY <1>1, <1>2 DEF RowType

\* Sending and settling: the sending loop alone moves a signed row.
LEMMA BroadcastSteps ==
  ASSUME LoopInv, (\E w \in Withdrawals : Broadcast(w)) \/ PostBroadcast \/ BroadcastFailed
  PROVE  LoopInv'
<1> USE DEF LoopInv
<1>0. /\ row \in [Withdrawals -> RowType] /\ job \in JobType /\ Idle \in JobType /\ log \subseteq Txs
      /\ nextNonce \in Nat /\ phase \in {"down", "starting", "up"}
  BY TxTypes DEF RowTypes, JobType, Idle, Stages
<1>a. UNCHANGED <<log, nextNonce, phase>>
  BY DEF Broadcast, PostBroadcast, BroadcastFailed, wallet
<1>1. ASSUME NEW w \in Withdrawals, Broadcast(w) PROVE LoopInv'
  <2>1. /\ row' = row /\ row[w].st = "signed" /\ phase = "up"
        /\ job' \in {Job("post", w, row[w].tx, FALSE), Job("refused", w, row[w].tx, FALSE)}
    BY <1>1 DEF Broadcast, Ready
  <2>2. row[w].tx \in Txs BY <1>0 DEF RowType
  <2>3. job' \in JobType
    <3>1. PICK tx \in Txs : tx = row[w].tx BY <2>2
    <3>2. PICK at \in Stages : job' = Job(at, w, tx, FALSE) BY <2>1, <3>1 DEF Stages
    <3> QED BY <3>2 DEF Job, JobType
  <2>4. JobInv' BY <1>a, <2>1 DEF JobInv, Job
  <2>5. RowTx' BY <1>a, <2>1 DEF RowTx, Sent
  <2> QED BY <1>0, <1>a, <2>1, <2>3, <2>4, <2>5 DEF RowTypes
<1>2. CASE PostBroadcast
  <2>1. PICK w \in Withdrawals : w = job.w BY <1>2 DEF PostBroadcast, JobInv
  <2>2. Status(w, "broadcast", "") /\ job' = Idle /\ row[w].st = "signed"
    BY <1>2, <2>1 DEF PostBroadcast, JobInv
  <2>3. /\ row' \in [Withdrawals -> RowType] /\ \A v \in Withdrawals \ {w} : row'[v] = row[v]
        /\ row'[w].nonce = row[w].nonce /\ row'[w].tx = row[w].tx
    BY <1>0, <2>2, StatusMoves DEF Statuses, Reasons
  <2>4. JobInv' BY <2>2 DEF JobInv, Idle
  <2>5. row[w].tx \in log /\ row[w].tx.w = w /\ row[w].nonce \in Nat /\ row[w].tx.nonce = row[w].nonce
    BY <2>2 DEF RowTx, Sent
  <2> QED BY <1>0, <1>a, <2>2, <2>3, <2>4, <2>5, RowMoves
<1>3. CASE BroadcastFailed
  <2>1. PICK w \in Withdrawals : w = job.w BY <1>3 DEF BroadcastFailed, JobInv
  <2>2. row[w].st = "signed" /\ job.tx = row[w].tx /\ job.at = "refused" /\ phase = "up"
    BY <1>3, <2>1 DEF BroadcastFailed, JobInv
  <2>3. row[w].tx \in log /\ row[w].tx.w = w /\ row[w].nonce \in Nat /\ row[w].tx.nonce = row[w].nonce
    BY <2>2 DEF RowTx, Sent
  <2>4. CASE job' = Idle /\ row' = row
    BY <1>0, <1>a, <2>4 DEF RowTypes, RowTx, Sent, JobInv, Idle
  <2>5. CASE Status(w, "failed", "broadcast") /\ job' = [job EXCEPT !.at = "recycle"]
    <3>1. /\ row' \in [Withdrawals -> RowType] /\ \A v \in Withdrawals \ {w} : row'[v] = row[v]
          /\ row'[w].nonce = row[w].nonce /\ row'[w].tx = row[w].tx
      BY <1>0, <2>5, StatusMoves DEF Statuses, Reasons
    <3>2. job' \in JobType /\ job'.at = "recycle" /\ job'.tx = row[w].tx BY <1>0, <2>2, <2>5 DEF JobType, Stages
    <3>3. JobInv' BY <1>a, <2>2, <2>3, <3>2 DEF JobInv
    <3> QED BY <1>0, <1>a, <2>3, <3>1, <3>2, <3>3, RowMoves
  <2> QED BY <1>3, <2>1, <2>4, <2>5 DEF BroadcastFailed
<1> QED BY <1>1, <1>2, <1>3

\* An outcome read off the chain moves a row the loop is not working on.
LEMMA SettleSteps ==
  ASSUME LoopInv, NEW w \in Withdrawals, Confirm(w) \/ FailedOnChain(w) \/ SettleCancelled(w)
  PROVE  LoopInv'
<1> USE DEF LoopInv
<1>0. /\ row \in [Withdrawals -> RowType] /\ job \in JobType /\ log \subseteq Txs
      /\ nextNonce \in Nat /\ phase \in {"down", "starting", "up"}
  BY DEF RowTypes
<1>1. /\ UNCHANGED <<job, log, nextNonce, phase>> /\ job = Idle /\ row[w].st = "broadcast"
      /\ \E st \in Statuses, why \in Reasons : Status(w, st, why)
  BY DEF Confirm, FailedOnChain, SettleCancelled, Ready, ledger, wallet, Statuses, Reasons
<1>2. /\ row' \in [Withdrawals -> RowType] /\ \A v \in Withdrawals \ {w} : row'[v] = row[v]
      /\ row'[w].nonce = row[w].nonce /\ row'[w].tx = row[w].tx
  BY <1>0, <1>1, StatusMoves
<1>3. row[w].tx \in log /\ row[w].tx.w = w /\ row[w].nonce \in Nat /\ row[w].tx.nonce = row[w].nonce
  BY <1>1 DEF RowTx, Sent
<1>4. JobInv' BY <1>1 DEF JobInv, Idle
<1> QED BY <1>0, <1>1, <1>2, <1>3, <1>4, RowMoves

\* Fee bumps, from the signature to the record.
LEMMA ReplaceSteps ==
  ASSUME LoopInv, (\E w \in Withdrawals : MaybeReplace(w) \/ Bump(w)) \/ Resend \/ RecordReplacement
  PROVE  LoopInv'
<1> USE DEF LoopInv
<1>0. /\ row \in [Withdrawals -> RowType] /\ job \in JobType /\ Idle \in JobType /\ log \subseteq Txs
      /\ nextNonce \in Nat /\ phase \in {"down", "starting", "up"}
  BY TxTypes DEF RowTypes, JobType, Idle, Stages
<1>1. ASSUME NEW w \in Withdrawals, MaybeReplace(w) \/ Bump(w) PROVE LoopInv'
  <2>1. PICK clear \in BOOLEAN : SignReplacement(w, clear) BY <1>1 DEF MaybeReplace, Bump
  <2>2. phase = "up" /\ row[w].st = "broadcast" BY <1>1 DEF MaybeReplace, Bump, Asked, Resolvable, Ready
  <2>3. PICK tx \in Txs : tx = Tx(w, row[w].att + 1, row[w].nonce)
    <3>1. row[w].att + 1 \in Int /\ row[w].nonce \in Int BY <1>0, TxTypes DEF RowType
    <3> QED BY <3>1, TxTypes
  <2>4. /\ UNCHANGED <<row, nextNonce, phase>> /\ log' = log \cup {tx} /\ job' = Job("resend", w, tx, clear)
    BY <2>1, <2>3 DEF SignReplacement, Sign
  <2>5. job' \in JobType /\ job'.at = "resend" /\ job'.w = w /\ job'.tx = tx
    BY <2>4, JobTypes DEF Stages
  <2>6. JobInv' BY <2>2, <2>3, <2>4, <2>5 DEF JobInv
  <2>7. RowTx' BY <2>4 DEF RowTx, Sent
  <2> QED BY <1>0, <2>4, <2>5, <2>6, <2>7 DEF RowTypes
<1>2. CASE Resend \/ RecordReplacement
  <2>1. PICK w \in Withdrawals : w = job.w BY <1>2 DEF Resend, RecordReplacement, JobInv
  <2>2. PICK tx \in Txs : tx = job.tx BY <1>0 DEF JobType
  <2>3. /\ row[w].st = "broadcast" /\ tx = Tx(w, row[w].att + 1, row[w].nonce) /\ tx \in log
        /\ job.at \in {"resend", "replaced"} /\ phase = "up"
    BY <1>2, <2>1, <2>2 DEF Resend, RecordReplacement, JobInv
  <2>4. row[w].tx \in log /\ row[w].tx.w = w /\ row[w].nonce \in Nat /\ row[w].tx.nonce = row[w].nonce
    BY <2>3 DEF RowTx, Sent
  <2>5. UNCHANGED <<log, nextNonce, phase>> BY <1>2 DEF Resend, RecordReplacement, wallet
  <2>6. CASE job' = [job EXCEPT !.at = "replaced"] /\ row' = row /\ job.at = "resend"
    <3>1. job' \in JobType /\ job'.at = "replaced" /\ job'.w = job.w /\ job'.tx = job.tx
      BY <1>0, <2>6 DEF JobType, Stages
    <3>2. JobInv' BY <2>1, <2>2, <2>3, <2>5, <2>6, <3>1 DEF JobInv
    <3>3. RowTx' BY <2>5, <2>6 DEF RowTx, Sent
    <3> QED BY <1>0, <2>5, <2>6, <3>1, <3>2, <3>3 DEF RowTypes
  <2>7. CASE \/ job' = Idle /\ row' = [row EXCEPT ![w].att = @ + 1]
             \/ job' = Cleared /\ row' = [row EXCEPT ![w].att = @ + 1, ![w].tx = tx]
    <3>1. PICK new \in Txs : /\ new \in {tx, row[w].tx}
                             /\ row' = [row EXCEPT ![w] = [row[w] EXCEPT !.att = @ + 1, !.tx = new]]
      <4>1. row[w].tx \in Txs /\ row[w] = [row[w] EXCEPT !.tx = row[w].tx] BY <1>0 DEF RowType
      <4>2. CASE row' = [row EXCEPT ![w].att = @ + 1, ![w].tx = tx] BY <1>0, <4>2
      <4>3. CASE row' = [row EXCEPT ![w].att = @ + 1]
        <5>1. [row[w] EXCEPT !.att = @ + 1] = [row[w] EXCEPT !.att = @ + 1, !.tx = row[w].tx]
          BY <1>0 DEF RowType
        <5>2. row' = [row EXCEPT ![w] = [row[w] EXCEPT !.att = @ + 1]] BY <4>3
        <5> QED BY <4>1, <5>1, <5>2
      <4> QED BY <2>7, <4>2, <4>3
    <3>2. [row[w] EXCEPT !.att = @ + 1, !.tx = new] \in RowType
      <4>1. PICK n \in Nat : n = row[w].att + 1 BY <1>0 DEF RowType
      <4>2. [row[w] EXCEPT !.att = n, !.tx = new] \in RowType BY <1>0 DEF RowType
      <4> QED BY <4>1, <4>2
    <3>3. /\ row' \in [Withdrawals -> RowType] /\ \A v \in Withdrawals \ {w} : row'[v] = row[v]
          /\ row'[w].nonce = row[w].nonce /\ row'[w].tx = new
      BY <1>0, <3>1, <3>2 DEF RowType
    <3>4. new \in log /\ new.w = w /\ new.nonce = row[w].nonce BY <2>3, <2>4, <3>1 DEF Tx
    <3>5. job' \in JobType /\ ((job'.at = "clear" /\ job'.w = w) \/ job' = Idle) /\ (job'.at = "idle" => job' = Idle)
      <4>1. CASE job' = Idle BY <1>0, <4>1
      <4>2. CASE job' = [job EXCEPT !.at = "clear"]
        BY <1>0, <2>1, <4>2 DEF JobType, Stages
      <4> QED BY <2>7, <4>1, <4>2 DEF Cleared
    <3>6. JobInv' BY <2>3, <2>5, <3>5 DEF JobInv, Idle
    <3> QED BY <1>0, <2>4, <2>5, <3>3, <3>4, <3>5, <3>6, RowMoves
  <2> QED BY <1>2, <2>1, <2>2, <2>6, <2>7 DEF Resend, RecordReplacement
<1> QED BY <1>1, <1>2

\* Displacements, from the signature to the mark on the row.
LEMMA CancelSteps ==
  ASSUME LoopInv, (\E w \in Withdrawals : CancelNonce(w)) \/ SendCancel \/ MarkCancelling \/ ClearRequest
  PROVE  LoopInv'
<1> USE DEF LoopInv
<1>0. /\ row \in [Withdrawals -> RowType] /\ job \in JobType /\ Idle \in JobType /\ log \subseteq Txs
      /\ nextNonce \in Nat /\ phase \in {"down", "starting", "up"}
  BY TxTypes DEF RowTypes, JobType, Idle, Stages
<1>1. ASSUME NEW w \in Withdrawals, CancelNonce(w) PROVE LoopInv'
  <2>1. phase = "up" /\ row[w].st = "broadcast" BY <1>1 DEF CancelNonce, Asked, Resolvable
  <2>2. PICK tx \in Txs : tx = FillTx(row[w].nonce)
    <3>1. row[w].nonce \in Int BY <1>0, TxTypes DEF RowType
    <3> QED BY <3>1, TxTypes
  <2>3. UNCHANGED <<row, nextNonce, phase>> /\ log' = log \cup {tx} /\ job' = Job("cancelsend", w, tx, TRUE)
    BY <1>1, <2>2 DEF CancelNonce, Sign
  <2>4. job' \in JobType /\ job'.at = "cancelsend" /\ job'.w = w /\ job'.tx = tx
    BY <2>3 DEF Job, JobType, Stages
  <2>5. JobInv' BY <2>1, <2>2, <2>3, <2>4 DEF JobInv
  <2>6. RowTx' BY <2>3 DEF RowTx, Sent
  <2> QED BY <1>0, <2>3, <2>4, <2>5, <2>6 DEF RowTypes
<1>2. CASE SendCancel
  <2>1. UNCHANGED <<row, log, nextNonce, phase>> /\ job.at = "cancelsend" BY <1>2 DEF SendCancel, wallet
  <2>2. CASE job' = Idle BY <1>0, <2>1, <2>2 DEF RowTypes, RowTx, Sent, JobInv, Idle
  <2>3. CASE job' = [job EXCEPT !.at = "cancelmark"]
    <3>1. job' \in JobType /\ job'.at = "cancelmark" /\ job'.w = job.w /\ job'.tx = job.tx
      BY <1>0, <2>3 DEF JobType, Stages
    <3>2. JobInv' BY <2>1, <3>1 DEF JobInv
    <3> QED BY <1>0, <2>1, <3>1, <3>2 DEF RowTypes, RowTx, Sent
  <2> QED BY <1>2, <2>2, <2>3 DEF SendCancel
<1>3. CASE MarkCancelling \/ ClearRequest
  <2>1. PICK w \in Withdrawals : w = job.w BY <1>3 DEF MarkCancelling, ClearRequest, JobInv
  <2>2. UNCHANGED <<log, nextNonce, phase>> /\ phase = "up"
    BY <1>3 DEF MarkCancelling, ClearRequest, wallet, JobInv
  <2>3. \/ row' = [row EXCEPT ![w].cancel = TRUE] \/ row' = [row EXCEPT ![w].ask = ""]
    BY <1>3, <2>1 DEF MarkCancelling, ClearRequest
  <2>4. /\ row' \in [Withdrawals -> RowType]
        /\ \A v \in Withdrawals : /\ row'[v].st = row[v].st /\ row'[v].why = row[v].why
                                   /\ row'[v].nonce = row[v].nonce /\ row'[v].att = row[v].att
                                   /\ row'[v].tx = row[v].tx
    <3>1. CASE row' = [row EXCEPT ![w].cancel = TRUE] BY <1>0, <3>1 DEF RowType
    <3>2. CASE row' = [row EXCEPT ![w].ask = ""] BY <1>0, <3>2, ZenonT(60) DEF RowType, Requests
    <3> QED BY <2>3, <3>1, <3>2
  <2>5. job' \in JobType /\ ((job'.at = "clear" /\ job'.w = w) \/ job' = Idle)
    BY <1>0, <1>3, <2>1 DEF MarkCancelling, ClearRequest, Cleared, JobType, Stages
  <2>6. JobInv' BY <2>2, <2>5 DEF JobInv, Idle
  <2>7. RowTx' BY <2>2, <2>4 DEF RowTx, Sent
  <2> QED BY <1>0, <2>2, <2>4, <2>5, <2>6, <2>7 DEF RowTypes
<1> QED BY <1>1, <1>2, <1>3

\* The operator's way out of a reverted withdrawal.
LEMMA FailedSteps ==
  ASSUME LoopInv, NEW w \in Withdrawals, Refund(w) \/ Retry(w)
  PROVE  LoopInv'
<1> USE DEF LoopInv
<1>0. /\ row \in [Withdrawals -> RowType] /\ log \subseteq Txs
      /\ nextNonce \in Nat /\ phase \in {"down", "starting", "up"}
  BY DEF RowTypes
<1>1. /\ UNCHANGED <<log, nextNonce, phase>> /\ phase = "up" /\ row[w].st = "failed" /\ row[w].why = "on_chain"
      /\ job' = Job("clear", w, NoTx, TRUE)
  BY DEF Refund, Retry, Asked, Resolvable, wallet
<1>2. job' \in JobType /\ job'.at = "clear" /\ job'.w = w
  BY <1>1, TxTypes DEF Job, JobType, Stages
<1>3. JobInv' BY <1>1, <1>2 DEF JobInv
<1>4. CASE Refund(w)
  <2>1. row' = row BY <1>4 DEF Refund
  <2> QED BY <1>0, <1>1, <1>2, <1>3, <2>1 DEF RowTypes, RowTx, Sent
<1>5. CASE Retry(w)
  <2> DEFINE new == [row[w] EXCEPT !.st = "funds_locked", !.why = "", !.nonce = None,
                                   !.tx = NoTx, !.cancel = FALSE, !.att = @ + 1]
  <2>1. row' = [row EXCEPT ![w] = new] BY <1>5 DEF Retry
  <2>2. row[w] \in RowType /\ row[w].att + 1 \in Nat BY <1>0 DEF RowType
  <2>3. new \in RowType /\ new.st = "funds_locked"
    BY <2>2, TxTypes DEF RowType, Statuses, Reasons
  <2> HIDE DEF new
  <2>4. /\ row' \in [Withdrawals -> RowType] /\ \A v \in Withdrawals \ {w} : row'[v] = row[v]
        /\ row'[w].st = "funds_locked"
    BY <1>0, <2>1, <2>3
  <2> QED BY <1>0, <1>1, <1>2, <1>3, <2>4, RowMoves DEF Sent
<1> QED BY <1>4, <1>5

\* Every set of nonces has a smallest one.
LEMMA Least ==
  ASSUME NEW T, T \subseteq Nat, T # {}
  PROVE  \E n \in T : \A m \in T : n =< m
<1>1. PICK n \in T : \A m \in T : ~ (<<m, n>> \in OpToRel(<, Nat))
  BY WFMin, NatLessThanWellFounded
<1>2. \A m \in T : ~ (m < n) BY <1>1 DEF OpToRel
<1> QED BY <1>2

\* The mempool holds fewer transactions than there are nonces from the next
\* one to mine to its size: some nonce is due, and the least of them is what
\* the node answers.
LEMMA PendingIsDue ==
  ASSUME LoopInv, NodeInv
  PROVE  /\ PendingNonce \in Nat /\ Len(mined) =< PendingNonce
         /\ \A k \in Len(mined)..(PendingNonce - 1) : \E tx \in mempool : tx.nonce = k
         /\ \A tx \in mempool : tx.nonce # PendingNonce
<1>1. PICK L \in Nat : L = Len(mined) BY DEF NodeInv
<1>2. PICK C \in Nat : C = Cardinality(mempool) BY FS_CardinalityType DEF NodeInv
<1>3. \A tx \in mempool : tx.nonce \in Nat BY DEF NodeInv
<1>4. IsFiniteSet(mempool) BY DEF NodeInv
<1> DEFINE Due == {n \in L..(L + C) : \A tx \in mempool : tx.nonce # n}
<1>5. Due # {}
  <2> SUFFICES ASSUME \A n \in L..(L + C) : \E tx \in mempool : tx.nonce = n PROVE FALSE
    OBVIOUS
  <2> DEFINE f == [n \in L..(L + C) |-> CHOOSE tx \in mempool : tx.nonce = n]
  <2>1. f \in [L..(L + C) -> mempool] OBVIOUS
  <2>2. \A n \in L..(L + C) : f[n].nonce = n OBVIOUS
  <2>3. IsFiniteSet(L..(L + C)) /\ Cardinality(L..(L + C)) = C + 1
    <3>1. L \in Int /\ L + C \in Int /\ ~(L > L + C) /\ (L + C) - L + 1 = C + 1 OBVIOUS
    <3> QED BY <3>1, FS_Interval
  <2>4. C < C + 1 OBVIOUS
  <2> HIDE DEF f
  <2>5. \E x, y \in L..(L + C) : x # y /\ f[x] = f[y]
    BY <1>2, <1>4, <2>1, <2>3, <2>4, FS_PigeonHole
  <2> QED BY <2>2, <2>5
<1>6. PICK n \in Due : \A m \in Due : n =< m
  <2>1. Due \subseteq Nat OBVIOUS
  <2> HIDE DEF Due
  <2> QED BY <1>5, <2>1, Least
<1>7. \A k \in L..(n - 1) : \E tx \in mempool : tx.nonce = k
  <2> SUFFICES ASSUME NEW k \in L..(n - 1), \A tx \in mempool : tx.nonce # k PROVE FALSE
    OBVIOUS
  <2>1. k \in Due /\ n \in L..(L + C) OBVIOUS
  <2> QED BY <1>6, <2>1
<1>8. \E m \in L..(L + C) : /\ \A k \in L..(m - 1) : \E tx \in mempool : tx.nonce = k
                            /\ \A tx \in mempool : tx.nonce # m
  BY <1>6, <1>7
<1>9. PendingNonce = CHOOSE m \in L..(L + C) :
                       /\ \A k \in L..(m - 1) : \E tx \in mempool : tx.nonce = k
                       /\ \A tx \in mempool : tx.nonce # m
  BY <1>1, <1>2 DEF PendingNonce
<1>10. /\ PendingNonce \in L..(L + C)
       /\ \A k \in L..(PendingNonce - 1) : \E tx \in mempool : tx.nonce = k
       /\ \A tx \in mempool : tx.nonce # PendingNonce
  BY <1>8, <1>9
<1> QED BY <1>1, <1>10

\* Restart, the owner and the chain.
LEMMA WorldSteps ==
  ASSUME LoopInv, NodeInv,
         \/ Spend \/ Crash \/ Start \/ StartFill \/ Started \/ Deepen \/ Reorg
         \/ \E tx \in mempool, ok \in BOOLEAN : Mine(tx, ok)
         \/ UNCHANGED vars
  PROVE  LoopInv'
<1> USE DEF LoopInv
<1>0. /\ row \in [Withdrawals -> RowType] /\ job \in JobType /\ Idle \in JobType /\ log \subseteq Txs
      /\ nextNonce \in Nat /\ phase \in {"down", "starting", "up"} /\ PendingNonce \in Nat
  BY TxTypes, PendingIsDue DEF RowTypes, JobType, Idle, Stages
<1>1. UNCHANGED <<row, log, nextNonce>>
  BY DEF Spend, Crash, Start, StartFill, Started, Deepen, Reorg, Mine, wallet, vars
<1>2. RowTx' BY <1>1 DEF RowTx, Sent
<1>3. job' \in JobType /\ phase' \in {"down", "starting", "up"} /\ JobInv'
  <2>1. CASE Spend \/ Deepen \/ Reorg \/ (\E tx \in mempool, ok \in BOOLEAN : Mine(tx, ok)) \/ UNCHANGED vars
    <3>1. UNCHANGED <<job, phase>> BY <2>1 DEF Spend, Deepen, Reorg, Mine, vars
    <3> QED BY <1>0, <1>1, <3>1 DEF JobInv
  <2>2. CASE Crash BY <1>0, <2>2 DEF Crash, JobInv, Idle
  <2>3. CASE Start BY <1>0, <1>1, <2>3 DEF Start, JobInv
  <2>4. CASE Started BY <1>0, <1>1, <2>4 DEF Started, JobInv, Idle
  <2>5. CASE StartFill
    <3>1. PICK n \in Nat : job' = Job("fill", "none", FillTx(n), FALSE)
      <4>1. PICK n \in Gaps : job' = Job("fill", "none", FillTx(n), FALSE) BY <2>5 DEF StartFill
      <4>2. n \in PendingNonce..(nextNonce - 1) BY DEF Gaps
      <4>3. n \in Nat BY <1>0, <4>2
      <4> QED BY <4>1, <4>3
    <3>2. FillTx(n) \in Txs /\ FillTx(n).nonce = n BY DEF FillTx, Tx, Txs
    <3>3. job' \in JobType /\ job'.at = "fill" /\ job'.tx = FillTx(n)
      BY <3>1, <3>2 DEF Job, JobType, Stages
    <3>4. JobInv' BY <2>5, <3>2, <3>3 DEF JobInv, StartFill
    <3> QED BY <1>0, <2>5, <3>3, <3>4 DEF StartFill
  <2> QED BY <2>1, <2>2, <2>3, <2>4, <2>5
<1> QED BY <1>0, <1>1, <1>2, <1>3 DEF RowTypes

\* Every step is one of those.
LEMMA LoopStep == LoopInv /\ NodeInv /\ [Next]_vars => LoopInv'
<1> SUFFICES ASSUME LoopInv, NodeInv, [Next]_vars PROVE LoopInv'
  OBVIOUS
<1>1. CASE \E w \in Withdrawals : Create(w) \/ Decide(w) \/ LockFunds(w) \/ DropRequest(w)
             \/ (\E approve \in BOOLEAN : Review(w, approve))
             \/ (\E action \in {"bump", "cancel_nonce", "refund", "retry"} : RequestResolve(w, action))
  BY <1>1, PolicySteps
<1>2. CASE \E w \in Withdrawals : SendStep(w)
  BY <1>2, SignSteps, BroadcastSteps, SettleSteps, ReplaceSteps DEF SendStep
<1>3. CASE \E w \in Withdrawals : Bump(w) \/ CancelNonce(w) \/ Refund(w) \/ Retry(w)
  BY <1>3, ReplaceSteps, CancelSteps, FailedSteps
<1>4. CASE JobStep
  BY <1>4, SignSteps, BroadcastSteps, ReplaceSteps, CancelSteps DEF JobStep
<1>5. CASE Spend \/ Crash \/ Start \/ StartFill \/ Started \/ Deepen \/ Reorg \/ UNCHANGED vars
             \/ (\E tx \in mempool, ok \in BOOLEAN : Mine(tx, ok))
  BY <1>5, WorldSteps
<1> QED BY <1>1, <1>2, <1>3, <1>4, <1>5 DEF Next, ResolveStep

-----------------------------------------------------------------------------
(* The chain.                                                              *)

ChainStep == (\E tx \in mempool, ok \in BOOLEAN : Mine(tx, ok)) \/ Deepen \/ Reorg

\* A transaction signed for a withdrawal has its row's nonce.
OfItsRow(x) == x.nonce \in Nat /\ (x.w = "fill" \/ (x.w \in Withdrawals /\ x.nonce = row[x.w].nonce))

\* What a send may do to the mempool.
LEMMA Sends ==
  ASSUME NEW tx, Accepts(tx) \/ Refuses(tx)
  PROVE  mempool' = mempool \/ mempool' = mempool \cup {tx}
BY DEF Accepts, Refuses

\* Status, request and mark leave the rest of the row alone.
LEMMA NonceKept ==
  ASSUME row \in [Withdrawals -> RowType], NEW w,
         \/ \E st, why : Status(w, st, why)
         \/ \E ask : row' = [row EXCEPT ![w].ask = ask]
         \/ row' = [row EXCEPT ![w].cancel = TRUE]
  PROVE  \A v \in Withdrawals : row'[v].nonce = row[v].nonce
<1>1. CASE \E st, why : Status(w, st, why)
  <2>1. PICK st, why : row' = [row EXCEPT ![w].st = st, ![w].why = why] BY <1>1 DEF Status
  <2> QED BY <2>1 DEF RowType
<1>2. CASE \E ask : row' = [row EXCEPT ![w].ask = ask] BY <1>2 DEF RowType
<1>3. CASE row' = [row EXCEPT ![w].cancel = TRUE] BY <1>3 DEF RowType
<1> QED BY <1>1, <1>2, <1>3

\* The wallet signs for a withdrawal only with its row's nonce, and sends only
\* what is signed.  A row's nonce moves only when it is pinned and by a retry.
LEMMA WalletMoves ==
  ASSUME LoopInv, [Next]_vars, ~ChainStep
  PROVE  /\ UNCHANGED <<mined, deep>>
         /\ log' = log \/ \E x \in Txs : log' = log \cup {x} /\ OfItsRow(x)'
         /\ mempool' = mempool \/ \E x \in log : mempool' = mempool \cup {x}
         /\ \A w \in Withdrawals : row[w].nonce \in {None, row'[w].nonce}
                                   \/ (row[w].st = "failed" /\ row[w].why = "on_chain")
<1> USE DEF LoopInv
<1>0. /\ row \in [Withdrawals -> RowType] /\ job \in JobType /\ job.tx \in Txs /\ log \subseteq Txs
  BY DEF RowTypes, JobType
<1>1. ASSUME NEW w \in Withdrawals,
             \/ Create(w) \/ Decide(w) \/ LockFunds(w) \/ DropRequest(w)
             \/ \E approve \in BOOLEAN : Review(w, approve)
             \/ \E action \in {"bump", "cancel_nonce", "refund", "retry"} : RequestResolve(w, action)
      PROVE  UNCHANGED <<mined, deep, log, mempool>> /\ \A v \in Withdrawals : row'[v].nonce = row[v].nonce
  <2>1. UNCHANGED <<mined, deep, log, mempool>>
    BY <1>1 DEF Create, Decide, LockFunds, DropRequest, Review, RequestResolve, wallet, node
  <2>2. (\E st, why : Status(w, st, why)) \/ (\E ask : row' = [row EXCEPT ![w].ask = ask])
    BY <1>1 DEF Create, Decide, LockFunds, DropRequest, Review, RequestResolve
  <2>3. \A v \in Withdrawals : row'[v].nonce = row[v].nonce BY <1>0, <2>2, NonceKept
  <2> QED BY <2>1, <2>3
<1>2. ASSUME NEW w \in Withdrawals, PinNonce(w)
      PROVE  /\ UNCHANGED <<mined, deep, log, mempool>>
             /\ \A v \in Withdrawals : row'[v].nonce = row[v].nonce \/ row[v].nonce = None
  BY <1>0, <1>2 DEF PinNonce, node, RowType
<1>3. ASSUME NEW w \in Withdrawals, Broadcast(w) \/ Confirm(w) \/ FailedOnChain(w) \/ SettleCancelled(w)
      PROVE  /\ UNCHANGED <<mined, deep, log>>
             /\ mempool' = mempool \/ \E x \in log : mempool' = mempool \cup {x}
             /\ \A v \in Withdrawals : row'[v].nonce = row[v].nonce
  <2>1. CASE Broadcast(w)
    <3>1. UNCHANGED <<row, mined, deep, log>> /\ (Accepts(row[w].tx) \/ Refuses(row[w].tx)) /\ row[w].st = "signed"
      BY <2>1 DEF Broadcast, wallet, Ready
    <3>2. row[w].tx \in log BY <3>1 DEF RowTx, Sent
    <3> QED BY <3>1, <3>2, Sends
  <2>2. CASE Confirm(w) \/ FailedOnChain(w) \/ SettleCancelled(w)
    <3>1. UNCHANGED <<mined, deep, log, mempool>> /\ \E st, why : Status(w, st, why)
      BY <2>2 DEF Confirm, FailedOnChain, SettleCancelled, wallet, node
    <3>2. \A v \in Withdrawals : row'[v].nonce = row[v].nonce BY <1>0, <3>1, NonceKept
    <3> QED BY <3>1, <3>2
  <2> QED BY <1>3, <2>1, <2>2
<1>4. ASSUME NEW w \in Withdrawals, MaybeReplace(w) \/ Bump(w)
      PROVE  /\ UNCHANGED <<mined, deep, row, mempool>>
             /\ \E x \in Txs : log' = log \cup {x} /\ OfItsRow(x)'
  <2>1. row[w].st = "broadcast" /\ \E clear \in BOOLEAN : SignReplacement(w, clear)
    BY <1>4 DEF MaybeReplace, Bump, Asked, Resolvable, Ready
  <2>2. PICK x \in Txs : x = Tx(w, row[w].att + 1, row[w].nonce)
    <3>1. row[w].att + 1 \in Int /\ row[w].nonce \in Int BY <1>0, TxTypes DEF RowType
    <3> QED BY <3>1, TxTypes
  <2>3. UNCHANGED <<mined, deep, row, mempool>> /\ log' = log \cup {x}
    BY <2>1, <2>2 DEF SignReplacement, Sign, node
  <2>4. row[w].nonce \in Nat BY <2>1 DEF RowTx, Sent
  <2> QED BY <2>2, <2>3, <2>4 DEF Tx, OfItsRow
<1>5. ASSUME NEW w \in Withdrawals, CancelNonce(w)
      PROVE  /\ UNCHANGED <<mined, deep, row, mempool>>
             /\ \E x \in Txs : log' = log \cup {x} /\ OfItsRow(x)'
  <2>1. UNCHANGED <<mined, deep, row, mempool>> /\ row[w].st = "broadcast" /\ log' = log \cup {FillTx(row[w].nonce)}
    BY <1>5 DEF CancelNonce, Sign, node, Asked, Resolvable
  <2>2. PICK n \in Nat : n = row[w].nonce BY <2>1 DEF RowTx, Sent
  <2>3. FillTx(n) \in Txs /\ OfItsRow(FillTx(n))' BY DEF FillTx, Tx, Txs, OfItsRow
  <2> QED BY <2>1, <2>2, <2>3
<1>6. ASSUME NEW w \in Withdrawals, Refund(w) \/ Retry(w)
      PROVE  /\ UNCHANGED <<mined, deep, log, mempool>>
             /\ \A v \in Withdrawals : row'[v].nonce = row[v].nonce
                                      \/ (row[v].st = "failed" /\ row[v].why = "on_chain")
  <2>1. CASE Refund(w) BY <2>1 DEF Refund, wallet, node
  <2>2. CASE Retry(w)
    <3>1. /\ UNCHANGED <<mined, deep, log, mempool>> /\ row[w].st = "failed" /\ row[w].why = "on_chain"
          /\ \E new : row' = [row EXCEPT ![w] = new]
      BY <2>2 DEF Retry, wallet, node, Asked, Resolvable
    <3> QED BY <1>0, <3>1
  <2> QED BY <1>6, <2>1, <2>2
<1>7. ASSUME SignerSigns \/ SignerFails \/ RecordFill
      PROVE  /\ UNCHANGED <<mined, deep, row, mempool>>
             /\ log' = log \/ \E x \in Txs : log' = log \cup {x} /\ OfItsRow(x)'
  <2>1. UNCHANGED <<mined, deep, row, mempool>> /\ (log' = log \/ log' = log \cup {job.tx})
    BY <1>7 DEF SignerSigns, SignerFails, RecordFill, Sign, node
  <2>2. OfItsRow(job.tx)
    BY <1>7 DEF SignerSigns, SignerFails, RecordFill, JobInv, Tx, FillTx, OfItsRow
  <2> QED BY <1>0, <2>1, <2>2 DEF OfItsRow
<1>8. ASSUME SendFill \/ Resend \/ SendCancel
      PROVE  /\ UNCHANGED <<mined, deep, log>>
             /\ mempool' = mempool \/ \E x \in log : mempool' = mempool \cup {x}
             /\ \A v \in Withdrawals : row'[v].nonce = row[v].nonce
  <2>1. UNCHANGED <<mined, deep, log>> /\ (Accepts(job.tx) \/ Refuses(job.tx)) /\ job.tx \in log
    BY <1>8 DEF SendFill, Resend, SendCancel, wallet, JobInv
  <2>2. row' = row \/ row' = [row EXCEPT ![job.w].att = @ + 1]
    BY <1>8 DEF SendFill, Resend, SendCancel
  <2>3. \A v \in Withdrawals : row'[v].nonce = row[v].nonce BY <1>0, <2>2 DEF RowType
  <2> QED BY <2>1, <2>3, Sends
<1>9. ASSUME RecordSigned \/ Recycle \/ PostBroadcast \/ BroadcastFailed \/ RecordReplacement
               \/ MarkCancelling \/ ClearRequest
      PROVE  /\ UNCHANGED <<mined, deep, log, mempool>>
             /\ \A v \in Withdrawals : row'[v].nonce = row[v].nonce
  <2>1. UNCHANGED <<mined, deep, log, mempool>>
    BY <1>9 DEF RecordSigned, Recycle, PostBroadcast, BroadcastFailed, RecordReplacement, MarkCancelling,
                ClearRequest, wallet, node
  <2>2. CASE RecordSigned
    <3>1. PICK w \in Withdrawals : w = job.w BY <2>2 DEF RecordSigned, JobInv
    <3>2. PICK n \in Nat : n = row[w].nonce /\ n = job.tx.nonce BY <2>2, <3>1 DEF RecordSigned, JobInv, Tx
    <3>3. PICK tx : row' = [row EXCEPT ![w].st = "signed", ![w].tx = tx, ![w].nonce = n]
      BY <2>2, <3>1, <3>2 DEF RecordSigned
    <3> QED BY <1>0, <2>1, <3>2, <3>3 DEF RowType
  <2>3. CASE RecordReplacement
    <3>1. PICK w, tx : row' = [row EXCEPT ![w].att = @ + 1, ![w].tx = tx] BY <2>3 DEF RecordReplacement
    <3> QED BY <1>0, <2>1, <3>1 DEF RowType
  <2>4. CASE PostBroadcast \/ BroadcastFailed
    <3>1. row' = row \/ \E w, st, why : Status(w, st, why) BY <2>4 DEF PostBroadcast, BroadcastFailed
    <3> QED BY <1>0, <2>1, <3>1, NonceKept
  <2>5. CASE MarkCancelling \/ ClearRequest \/ Recycle
    <3>1. row' = row \/ (\E w : row' = [row EXCEPT ![w].cancel = TRUE])
                   \/ (\E w : row' = [row EXCEPT ![w].ask = ""])
      BY <2>5 DEF MarkCancelling, ClearRequest, Recycle
    <3> QED BY <1>0, <2>1, <3>1, NonceKept
  <2> QED BY <1>9, <2>2, <2>3, <2>4, <2>5
<1>10. ASSUME Spend \/ Crash \/ Start \/ StartFill \/ Started \/ UNCHANGED vars
       PROVE  UNCHANGED <<mined, deep, log, mempool, row>>
  BY <1>10 DEF Spend, Crash, Start, StartFill, Started, wallet, node, vars
<1>11. CASE \E w \in Withdrawals : \/ Create(w) \/ Decide(w) \/ LockFunds(w) \/ DropRequest(w)
             \/ \E approve \in BOOLEAN : Review(w, approve)
             \/ \E action \in {"bump", "cancel_nonce", "refund", "retry"} : RequestResolve(w, action)
  BY <1>1, <1>11
<1>12. CASE \E w \in Withdrawals : SendStep(w)
  BY <1>2, <1>3, <1>4, <1>12 DEF SendStep
<1>13. CASE \E w \in Withdrawals : Bump(w) \/ CancelNonce(w) \/ Refund(w) \/ Retry(w)
  BY <1>4, <1>5, <1>6, <1>13
<1>14. CASE JobStep BY <1>7, <1>8, <1>9, <1>14 DEF JobStep
<1>15. CASE Spend \/ Crash \/ Start \/ StartFill \/ Started \/ UNCHANGED vars BY <1>10, <1>15
<1> QED BY <1>11, <1>12, <1>13, <1>14, <1>15 DEF Next, ResolveStep, ChainStep

\* The node knows nothing at first.
LEMMA NodeInit == Init => NodeInv
<1> SUFFICES ASSUME Init PROVE NodeInv
  OBVIOUS
<1>1. mempool = {} /\ mined = << >> /\ deep = 0 /\ log = {} BY DEF Init
<1>2. IsFiniteSet({}) BY FS_EmptySet
<1> QED BY <1>1, <1>2 DEF NodeInv

Blocks == [tx : Txs, ok : BOOLEAN]

\* A step of the chain leaves what is beyond the confirmations as it is.
LEMMA ChainMoves ==
  ASSUME LoopInv, NodeInv, ChainStep
  PROVE  /\ NodeInv' /\ UNCHANGED <<row, log, nextNonce, fills, job, phase>>
         /\ deep =< deep' /\ \A i \in 1..deep : mined'[i] = mined[i]
<1>0. /\ mempool \subseteq log /\ IsFiniteSet(mempool) /\ mined \in Seq(Blocks)
      /\ deep \in Nat /\ deep =< Len(mined) /\ Len(mined) \in Nat /\ log \subseteq Txs
  BY DEF NodeInv, LoopInv, RowTypes, Blocks
<1>a. \A i \in 1..Len(mined) : mined[i].tx \in log /\ mined[i].tx.nonce = i - 1 BY DEF NodeInv
<1>b. \A tx \in log : tx.nonce \in Nat /\ tx.w \in Withdrawals \cup {"fill"} BY DEF NodeInv
<1>1. UNCHANGED <<row, log, nextNonce, fills, job, phase>> BY DEF ChainStep, Mine, Deepen, Reorg, wallet
<1>2. ASSUME NEW tx \in mempool, NEW ok \in BOOLEAN, Mine(tx, ok)
      PROVE  NodeInv' /\ deep =< deep' /\ \A i \in 1..deep : mined'[i] = mined[i]
  <2>1. /\ tx.nonce = Len(mined) /\ mined' = Append(mined, [tx |-> tx, ok |-> ok])
        /\ mempool' = mempool \ {tx} /\ deep' = deep
    BY <1>2 DEF Mine
  <2>2. [tx |-> tx, ok |-> ok] \in Blocks BY <1>0 DEF Blocks
  <2>3. /\ mined' \in Seq(Blocks) /\ Len(mined') = Len(mined) + 1
        /\ \A i \in 1..Len(mined) : mined'[i] = mined[i]
        /\ mined'[Len(mined) + 1] = [tx |-> tx, ok |-> ok]
    BY <1>0, <2>1, <2>2
  <2>4. IsFiniteSet(mempool') BY <1>0, <2>1, FS_RemoveElement
  <2>5. \A i \in 1..Len(mined') : mined'[i].tx \in log' /\ mined'[i].tx.nonce = i - 1
    <3> SUFFICES ASSUME NEW i \in 1..Len(mined') PROVE mined'[i].tx \in log /\ mined'[i].tx.nonce = i - 1
      BY <1>1
    <3>1. CASE i \in 1..Len(mined) BY <1>a, <2>3, <3>1
    <3>2. CASE i = Len(mined) + 1 BY <1>0, <2>1, <2>3, <3>2
    <3> QED BY <1>0, <2>3, <3>1, <3>2
  <2> QED BY <1>0, <1>1, <1>b, <2>1, <2>3, <2>4, <2>5 DEF NodeInv, Blocks
<1>3. CASE Deepen
  <2>1. UNCHANGED <<mempool, mined>> /\ deep' = deep + 1 /\ deep < Len(mined) BY <1>3 DEF Deepen
  <2> QED BY <1>0, <1>1, <1>a, <1>b, <2>1 DEF NodeInv, Blocks
<1>4. CASE Reorg
  <2>1. /\ mempool' = mempool \cup {mined[Len(mined)].tx} /\ deep < Len(mined) /\ deep' = deep
        /\ mined' = SubSeq(mined, 1, Len(mined) - 1)
    BY <1>4 DEF Reorg
  <2>2. mined' \in Seq(Blocks) /\ Len(mined') = Len(mined) - 1 /\ \A i \in 1..Len(mined') : mined'[i] = mined[i]
    <3>1. PICK n \in 0..Len(mined) : n = Len(mined) - 1 BY <1>0, <2>1
    <3>2. mined' = SubSeq(mined, 1, n) BY <2>1, <3>1
    <3>3. mined' \in Seq(Blocks) /\ Len(mined') = n BY <1>0, <3>2
    <3>4. \A i \in 1..n : mined'[i] = mined[i] BY <1>0, <3>2
    <3> QED BY <3>1, <3>3, <3>4
  <2>3. IsFiniteSet(mempool') BY <1>0, <2>1, FS_AddElement
  <2>4. mined[Len(mined)].tx \in log BY <1>0, <1>a, <2>1
  <2> QED BY <1>0, <1>1, <1>a, <1>b, <2>1, <2>2, <2>3, <2>4 DEF NodeInv, Blocks
<1> QED BY <1>1, <1>2, <1>3, <1>4 DEF ChainStep

\* The chain takes only what was signed, each nonce in its place, and keeps what
\* is beyond the confirmations.
LEMMA NodeStep ==
  ASSUME LoopInv, NodeInv, [Next]_vars
  PROVE  /\ NodeInv' /\ deep =< deep' /\ \A i \in 1..deep : mined'[i] = mined[i]
<1>1. CASE ChainStep BY <1>1, ChainMoves
<1>2. CASE ~ChainStep
  <2>1. /\ UNCHANGED <<mined, deep>>
        /\ log' = log \/ \E x \in Txs : log' = log \cup {x} /\ OfItsRow(x)'
        /\ mempool' = mempool \/ \E x \in log : mempool' = mempool \cup {x}
    BY <1>2, WalletMoves
  <2>2. IsFiniteSet(mempool') BY <2>1, FS_AddElement DEF NodeInv
  <2>3. log \subseteq log' /\ mempool' \subseteq log' BY <2>1 DEF NodeInv
  <2>4. \A tx \in log' : tx.nonce \in Nat /\ tx.w \in Withdrawals \cup {"fill"}
    BY <2>1 DEF NodeInv, OfItsRow
  <2>5. deep \in Nat BY DEF NodeInv
  <2> QED BY <2>1, <2>2, <2>3, <2>4, <2>5 DEF NodeInv
<1> QED BY <1>1, <1>2

\* Once settled, always settled.
LEMMA DeadStays ==
  ASSUME LoopInv, NodeInv, [Next]_vars, NEW w \in Withdrawals, NEW n, Dead(w, n)
  PROVE  Dead(w, n)'
<1>1. deep \in Nat /\ deep' \in Nat /\ deep =< deep' /\ \A i \in 1..deep : mined'[i] = mined[i]
  BY NodeStep DEF NodeInv
<1>2. n \in Nat /\ n + 1 \in 1..deep BY <1>1 DEF Dead
<1> QED BY <1>1, <1>2 DEF Dead

\* What is signed for a withdrawal is of the nonce its row names, until that
\* nonce is given up: never before it is settled.
LEMMA OneNonceStep ==
  ASSUME LoopInv, NodeInv, OneNonce, Settled, [Next]_vars
  PROVE  OneNonce'
<1> SUFFICES ASSUME NEW x \in log', x.w \in Withdrawals
             PROVE  x.nonce = row'[x.w].nonce \/ Dead(x.w, x.nonce)'
  BY DEF OneNonce
<1>1. PICK w \in Withdrawals : w = x.w OBVIOUS
<1>2. PICK n : n = x.nonce OBVIOUS
<1> SUFFICES n = row'[w].nonce \/ Dead(w, n)'
  BY <1>1, <1>2
<1>3. CASE ChainStep
  <2>1. log' = log /\ row' = row BY <1>3, ChainMoves
  <2>2. n = row[w].nonce \/ Dead(w, n) BY <1>1, <1>2, <2>1 DEF OneNonce
  <2> QED BY <2>1, <2>2, DeadStays
<1>4. CASE ~ChainStep /\ x \notin log
  <2>1. OfItsRow(x)' BY <1>4, WalletMoves
  <2> QED BY <1>1, <1>2, <2>1, WithdrawalAssumption DEF OfItsRow, WithdrawalAssumption
<1>5. CASE ~ChainStep /\ x \in log
  <2>1. (n = row[w].nonce \/ Dead(w, n)) /\ n \in Nat BY <1>1, <1>2, <1>5 DEF OneNonce, NodeInv
  <2>2. CASE Dead(w, n) BY <2>2, DeadStays
  <2>3. CASE n = row'[w].nonce BY <2>3
  <2>4. CASE n = row[w].nonce /\ row[w].nonce = None BY <2>1, <2>4 DEF None
  <2>5. CASE n = row[w].nonce /\ row[w].st = "failed" /\ row[w].why = "on_chain"
    <3>1. PICK i \in 1..deep : mined[i].tx = row[w].tx /\ ~mined[i].ok BY <2>5 DEF Settled
    <3>2. row[w].tx.nonce = row[w].nonce BY <2>5 DEF LoopInv, RowTx, Sent
    <3>3. i \in 1..Len(mined) /\ i \in Nat /\ deep \in Nat BY DEF NodeInv
    <3>4. mined[i].tx.nonce = i - 1 BY <3>3 DEF NodeInv
    <3>5. n = i - 1 BY <2>5, <3>1, <3>2, <3>4
    <3>6. n < deep /\ n + 1 = i BY <2>1, <3>3, <3>5
    <3>7. Dead(w, n) BY <2>1, <3>1, <3>6 DEF Dead
    <3> QED BY <3>7, DeadStays
  <2>6. \A v \in Withdrawals : row[v].nonce \in {None, row'[v].nonce}
                              \/ (row[v].st = "failed" /\ row[v].why = "on_chain")
    BY <1>5, WalletMoves
  <2> QED BY <2>1, <2>2, <2>3, <2>4, <2>5, <2>6
<1> QED BY <1>3, <1>4, <1>5

-----------------------------------------------------------------------------
(* What the steps do to the rows, marks and requests aside.                *)

Kept(v) ==
  /\ row'[v].st = row[v].st /\ row'[v].why = row[v].why /\ row'[v].att = row[v].att
  /\ row'[v].nonce = row[v].nonce /\ row'[v].tx = row[v].tx
\* Status and reason move, the attempt and its nonce stay.
Turned(w, st, why) ==
  /\ row'[w].st = st /\ row'[w].why = why /\ row'[w].att = row[w].att
  /\ row'[w].nonce = row[w].nonce /\ row'[w].tx = row[w].tx

Early(w) ==
  /\ row[w].st \in Before
  /\ \E st \in Before \cup {"rejected", "failed"}, why \in {"", "policy", "insufficient_balance"} :
       Turned(w, st, why)
Pinned(w) ==
  /\ row[w].st = "funds_locked" /\ row[w].nonce = None /\ row'[w].nonce = nextNonce
  /\ row'[w].st = "funds_locked" /\ row'[w].why = row[w].why /\ row'[w].att = row[w].att
Recorded(w) ==
  /\ row[w].st = "funds_locked" /\ row'[w].st = "signed" /\ row'[w].why = row[w].why
  /\ row'[w].att = row[w].att /\ row'[w].nonce = row[w].nonce
Replaced(w) ==
  /\ row[w].st = "broadcast" /\ row'[w].st = "broadcast" /\ row'[w].why = row[w].why
  /\ row'[w].att = row[w].att + 1 /\ row'[w].nonce = row[w].nonce
Retried(w) ==
  /\ row[w].st = "failed" /\ row[w].why = "on_chain"
  /\ row'[w].st = "funds_locked" /\ row'[w].why = "" /\ row'[w].att = row[w].att + 1

Moved(w) ==
  \/ Early(w) \/ (LockFunds(w) /\ row[w].st \in Before /\ Turned(w, "funds_locked", ""))
  \/ (PinNonce(w) /\ Pinned(w)) \/ (RecordSigned /\ Recorded(w))
  \/ (PostBroadcast /\ row[w].st = "signed" /\ Turned(w, "broadcast", ""))
  \/ (BroadcastFailed /\ job.w = w /\ row[w].st = "signed" /\ Turned(w, "failed", "broadcast"))
  \/ (Confirm(w) /\ Turned(w, "confirmed", ""))
  \/ (FailedOnChain(w) /\ Turned(w, "failed", "on_chain"))
  \/ (SettleCancelled(w) /\ Turned(w, "failed", "replaced"))
  \/ Replaced(w) \/ (Retry(w) /\ Retried(w))

Quiet(w) ==
  \/ Broadcast(w) \/ MaybeReplace(w) \/ Bump(w) \/ CancelNonce(w) \/ Refund(w) \/ DropRequest(w)
  \/ \E action \in {"bump", "cancel_nonce", "refund", "retry"} : RequestResolve(w, action)
QuietStep ==
  \/ SignerSigns \/ SignerFails \/ Recycle \/ RecordFill \/ SendFill \/ SendCancel
  \/ MarkCancelling \/ ClearRequest \/ Spend \/ Crash \/ Start \/ StartFill \/ Started
  \/ ChainStep \/ UNCHANGED vars

\* Sending, signing, requests and the environment leave status, attempt, nonce and
\* transaction of every row alone.
LEMMA QuietRows ==
  ASSUME LoopInv, QuietStep \/ \E w \in Withdrawals : Quiet(w)
  PROVE  \A v \in Withdrawals : Kept(v)
<1>0. row \in [Withdrawals -> RowType] BY DEF LoopInv, RowTypes
<1>1. \/ row' = row \/ \E w, ask : row' = [row EXCEPT ![w].ask = ask]
      \/ \E w : row' = [row EXCEPT ![w].cancel = TRUE]
  <2>1. CASE \E w \in Withdrawals : Quiet(w)
    BY <2>1 DEF Quiet, Broadcast, MaybeReplace, Bump, SignReplacement, CancelNonce, Refund, DropRequest,
                RequestResolve
  <2>2. CASE QuietStep
    BY <2>2 DEF QuietStep, SignerSigns, SignerFails, Recycle, RecordFill, SendFill, SendCancel,
                MarkCancelling, ClearRequest, Spend, Crash, Start, StartFill, Started,
                ChainStep, Mine, Deepen, Reorg, vars
  <2> QED BY <2>1, <2>2
<1>2. CASE row' = row BY <1>2 DEF Kept
<1>3. CASE \E w, ask : row' = [row EXCEPT ![w].ask = ask] BY <1>0, <1>3 DEF Kept, RowType
<1>4. CASE \E w : row' = [row EXCEPT ![w].cancel = TRUE] BY <1>0, <1>4 DEF Kept, RowType
<1> QED BY <1>1, <1>2, <1>3, <1>4

\* A status change turns one row and keeps the others.
LEMMA TurnedRow ==
  ASSUME LoopInv, NEW w \in Withdrawals, NEW st \in Statuses, NEW why \in Reasons, Status(w, st, why)
  PROVE  Turned(w, st, why) /\ \A v \in Withdrawals \ {w} : Kept(v)
BY StatusMoves DEF LoopInv, RowTypes, Turned, Kept

\* A retry starts the next attempt of one row and keeps the others.
LEMMA RetriedRow ==
  ASSUME LoopInv, NEW w \in Withdrawals, Retry(w)
  PROVE  Retried(w) /\ \A v \in Withdrawals \ {w} : Kept(v)
<1>0. row \in [Withdrawals -> RowType] BY DEF LoopInv, RowTypes
<1> DEFINE new == [row[w] EXCEPT !.st = "funds_locked", !.why = "", !.nonce = None,
                                 !.tx = NoTx, !.cancel = FALSE, !.att = @ + 1]
<1>1. row' = [row EXCEPT ![w] = new] BY DEF Retry
<1>2. row[w] \in RowType BY <1>0
<1>3. new.st = "funds_locked" /\ new.why = "" /\ new.att = row[w].att + 1 BY <1>2 DEF RowType
<1>4. row[w].st = "failed" /\ row[w].why = "on_chain" BY DEF Retry, Asked, Resolvable
<1> HIDE DEF new
<1> QED BY <1>0, <1>1, <1>3, <1>4 DEF Retried, Kept

\* Every step keeps all the rows or moves one of them, in one of the ways above.
LEMMA RowEffects ==
  ASSUME LoopInv, [Next]_vars
  PROVE  \/ \A v \in Withdrawals : Kept(v)
         \/ \E w \in Withdrawals : Moved(w) /\ \A v \in Withdrawals \ {w} : Kept(v)
<1>0. row \in [Withdrawals -> RowType] /\ nextNonce \in Nat BY DEF LoopInv, RowTypes
<1> DEFINE Goal == \/ \A v \in Withdrawals : Kept(v)
                   \/ \E w \in Withdrawals : Moved(w) /\ \A v \in Withdrawals \ {w} : Kept(v)
<1> SUFFICES Goal
  OBVIOUS
<1>1. ASSUME NEW w \in Withdrawals, Create(w) \/ Decide(w) \/ LockFunds(w) \/ (\E approve \in BOOLEAN : Review(w, approve))
      PROVE  Goal
  <2>1. PICK st \in Before \cup {"rejected", "funds_locked", "failed"}, why \in {"", "policy", "insufficient_balance"} :
          Status(w, st, why)
    BY <1>1 DEF Create, Decide, LockFunds, Review, Before
  <2>2. st \in Statuses /\ why \in Reasons BY DEF Statuses, Reasons, Before
  <2>3. row[w].st \in Before BY <1>1 DEF Create, Decide, LockFunds, Review, Before
  <2>4. Turned(w, st, why) /\ \A v \in Withdrawals \ {w} : Kept(v) BY <2>1, <2>2, TurnedRow
  <2>5. CASE st # "funds_locked" BY <2>3, <2>4, <2>5 DEF Moved, Early
  <2>6. CASE st = "funds_locked"
    <3>1. row'[w].st = "funds_locked" BY <2>4, <2>6 DEF Turned
    <3>2. LockFunds(w) /\ Turned(w, "funds_locked", "")
      <4>1. ~Create(w) /\ ~Decide(w) /\ \A approve \in BOOLEAN : ~Review(w, approve)
        <5>1. \A s \in Before \cup {"rejected"}, y \in Reasons : Status(w, s, y) => row'[w].st # "funds_locked"
          BY StatusMoves, <1>0, ZenonT(60) DEF Statuses, Before
        <5> QED BY <3>1, <5>1 DEF Create, Decide, Review, Before, Reasons
      <4>2. LockFunds(w) BY <1>1, <4>1
      <4>3. Status(w, "funds_locked", "") \/ Status(w, "failed", "insufficient_balance")
        BY <4>2 DEF LockFunds
      <4> QED BY <3>1, <4>2, <4>3, TurnedRow DEF Statuses, Reasons, Turned
    <3> QED BY <2>3, <2>4, <3>2 DEF Moved
  <2> QED BY <2>5, <2>6
<1>2. ASSUME NEW w \in Withdrawals, PinNonce(w) PROVE Goal
  <2>1. CASE row[w].nonce # None BY <1>2, <2>1 DEF PinNonce, Kept
  <2>2. CASE row[w].nonce = None
    <3>1. row' = [row EXCEPT ![w].nonce = nextNonce] /\ row[w].st = "funds_locked"
      BY <1>2, <2>2 DEF PinNonce, Ready
    <3>2. Pinned(w) /\ \A v \in Withdrawals \ {w} : Kept(v)
      BY <1>0, <2>2, <3>1 DEF Pinned, Kept, RowType
    <3> QED BY <1>2, <3>2 DEF Moved
  <2> QED BY <2>1, <2>2
<1>3. CASE RecordSigned
  <2>1. PICK w \in Withdrawals : w = job.w BY <1>3 DEF RecordSigned, LoopInv, JobInv
  <2>2. PICK n \in Nat : n = row[w].nonce /\ n = job.tx.nonce /\ row[w].st = "funds_locked"
    BY <1>3, <2>1 DEF RecordSigned, LoopInv, JobInv, Tx
  <2>3. PICK tx : row' = [row EXCEPT ![w].st = "signed", ![w].tx = tx, ![w].nonce = n]
    BY <1>3, <2>1, <2>2 DEF RecordSigned
  <2>4. Recorded(w) /\ \A v \in Withdrawals \ {w} : Kept(v) BY <1>0, <2>2, <2>3 DEF Recorded, Kept, RowType
  <2> QED BY <1>3, <2>4 DEF Moved
<1>4. CASE PostBroadcast \/ BroadcastFailed
  <2>1. PICK w \in Withdrawals : w = job.w BY <1>4 DEF PostBroadcast, BroadcastFailed, LoopInv, JobInv
  <2>2. row[w].st = "signed" BY <1>4, <2>1 DEF PostBroadcast, BroadcastFailed, LoopInv, JobInv
  <2>3. CASE PostBroadcast
    <3>1. Turned(w, "broadcast", "") /\ \A v \in Withdrawals \ {w} : Kept(v)
      BY <2>1, <2>3, TurnedRow DEF PostBroadcast, Statuses, Reasons
    <3> QED BY <2>2, <2>3, <3>1 DEF Moved
  <2>4. CASE BroadcastFailed
    <3>1. CASE row' = row BY <3>1 DEF Kept
    <3>2. CASE Status(w, "failed", "broadcast")
      <4>1. Turned(w, "failed", "broadcast") /\ \A v \in Withdrawals \ {w} : Kept(v)
        BY <3>2, TurnedRow DEF Statuses, Reasons
      <4> QED BY <2>1, <2>2, <2>4, <4>1 DEF Moved
    <3> QED BY <2>1, <2>4, <3>1, <3>2 DEF BroadcastFailed
  <2> QED BY <1>4, <2>3, <2>4
<1>5. ASSUME NEW w \in Withdrawals, Confirm(w) PROVE Goal
  <2>1. Turned(w, "confirmed", "") /\ \A v \in Withdrawals \ {w} : Kept(v)
    BY <1>5, TurnedRow DEF Confirm, Statuses, Reasons
  <2> QED BY <1>5, <2>1 DEF Moved
<1>6. ASSUME NEW w \in Withdrawals, FailedOnChain(w) PROVE Goal
  <2>1. Turned(w, "failed", "on_chain") /\ \A v \in Withdrawals \ {w} : Kept(v)
    BY <1>6, TurnedRow DEF FailedOnChain, Statuses, Reasons
  <2> QED BY <1>6, <2>1 DEF Moved
<1>7. ASSUME NEW w \in Withdrawals, SettleCancelled(w) PROVE Goal
  <2>1. Turned(w, "failed", "replaced") /\ \A v \in Withdrawals \ {w} : Kept(v)
    BY <1>7, TurnedRow DEF SettleCancelled, Statuses, Reasons
  <2> QED BY <1>7, <2>1 DEF Moved
<1>8. CASE Resend \/ RecordReplacement
  <2>1. PICK w \in Withdrawals : w = job.w BY <1>8 DEF Resend, RecordReplacement, LoopInv, JobInv
  <2>2. row[w].st = "broadcast" BY <1>8, <2>1 DEF Resend, RecordReplacement, LoopInv, JobInv
  <2>3. CASE row' = row BY <2>3 DEF Kept
  <2>4. CASE row' = [row EXCEPT ![w].att = @ + 1]
    <3>1. Replaced(w) /\ \A v \in Withdrawals \ {w} : Kept(v)
      BY <1>0, <2>2, <2>4 DEF Replaced, Kept, RowType
    <3> QED BY <3>1 DEF Moved
  <2>5. CASE \E tx : row' = [row EXCEPT ![w].att = @ + 1, ![w].tx = tx]
    <3>1. Replaced(w) /\ \A v \in Withdrawals \ {w} : Kept(v)
      BY <1>0, <2>2, <2>5 DEF Replaced, Kept, RowType
    <3> QED BY <3>1 DEF Moved
  <2> QED BY <1>8, <2>1, <2>3, <2>4, <2>5 DEF Resend, RecordReplacement
<1>9. ASSUME NEW w \in Withdrawals, Retry(w) PROVE Goal
  BY <1>9, RetriedRow DEF Moved
<1>10. CASE QuietStep \/ \E w \in Withdrawals : Quiet(w) BY <1>10, QuietRows
<1> HIDE DEF Goal
<1>11. CASE \E w \in Withdrawals : Create(w) \/ Decide(w) \/ LockFunds(w) \/ SendStep(w) \/ ResolveStep(w)
               \/ (\E approve \in BOOLEAN : Review(w, approve))
               \/ (\E action \in {"bump", "cancel_nonce", "refund", "retry"} : RequestResolve(w, action))
  BY <1>1, <1>2, <1>5, <1>6, <1>7, <1>9, <1>10, <1>11 DEF SendStep, ResolveStep, Quiet
<1>12. CASE JobStep BY <1>3, <1>4, <1>8, <1>10, <1>12 DEF JobStep, QuietStep
<1> QED BY <1>10, <1>11, <1>12 DEF Next, QuietStep, ChainStep

-----------------------------------------------------------------------------
(* What an ended row says of the chain, and who holds the nonces.          *)

\* What is beyond the confirmations stays there.
LEMMA ConfirmedStays ==
  ASSUME LoopInv, NodeInv, [Next]_vars, NEW tx, NEW ok, \E i \in 1..deep : mined[i].tx = tx /\ mined[i].ok = ok
  PROVE  \E i \in 1..deep' : mined'[i].tx = tx /\ mined'[i].ok = ok
<1>1. deep \in Nat /\ deep' \in Nat /\ deep =< deep' /\ \A i \in 1..deep : mined'[i] = mined[i]
  BY NodeStep DEF NodeInv
<1> QED BY <1>1

\* What is beyond the confirmations is a block of the chain, in its place.
LEMMA OkIsBoolean ==
  ASSUME NodeInv, NEW i \in 1..deep
  PROVE  mined[i].ok \in BOOLEAN /\ mined[i].tx.nonce = i - 1 /\ i \in Nat /\ i =< Len(mined)
<1>1. mined \in Seq(Blocks) /\ i \in 1..Len(mined) BY DEF NodeInv, Blocks
<1>2. mined[i] \in Blocks BY <1>1
<1> QED BY <1>1, <1>2 DEF NodeInv, Blocks

\* A row ends on what is beyond the confirmations, and that does not change.
LEMMA SettledStep ==
  ASSUME LoopInv, NodeInv, Settled, [Next]_vars
  PROVE  Settled'
<1> DEFINE Paid(w) == \E i \in 1..deep : mined[i].tx = row[w].tx /\ mined[i].ok
           Lost(w) == \E i \in 1..deep : mined[i].tx = row[w].tx /\ ~mined[i].ok
           Displ(w) == \E i \in 1..deep : mined[i].tx = FillTx(row[w].nonce)
<1>1. deep \in Nat /\ deep' \in Nat /\ deep =< deep' /\ \A i \in 1..deep : mined'[i] = mined[i]
  BY NodeStep DEF NodeInv
<1>2. ASSUME NEW w \in Withdrawals, row'[w].tx = row[w].tx, row'[w].nonce = row[w].nonce
      PROVE  (Paid(w) => Paid(w)') /\ (Lost(w) => Lost(w)') /\ (Displ(w) => Displ(w)')
  BY <1>1, <1>2
<1> HIDE DEF Paid, Lost, Displ
<1>3. ASSUME NEW w \in Withdrawals, Kept(w)
      PROVE  /\ row'[w].st = "confirmed" => Paid(w)'
             /\ row'[w].st = "failed" /\ row'[w].why = "on_chain" => Lost(w)'
             /\ row'[w].st = "failed" /\ row'[w].why = "replaced" => Displ(w)'
  BY <1>2, <1>3 DEF Kept, Settled, Paid, Lost, Displ
<1>4. ASSUME NEW w \in Withdrawals, Moved(w)
      PROVE  /\ row'[w].st = "confirmed" => Paid(w)'
             /\ row'[w].st = "failed" /\ row'[w].why = "on_chain" => Lost(w)'
             /\ row'[w].st = "failed" /\ row'[w].why = "replaced" => Displ(w)'
  <2>1. CASE Early(w) BY <2>1 DEF Early, Turned, Before
  <2>2. CASE Pinned(w) \/ Recorded(w) \/ Replaced(w) \/ Retried(w)
    BY <2>2 DEF Pinned, Recorded, Replaced, Retried
  <2>3. CASE Turned(w, "funds_locked", "") \/ Turned(w, "broadcast", "") \/ Turned(w, "failed", "broadcast")
    BY <2>3 DEF Turned
  <2>4. CASE Confirm(w) /\ Turned(w, "confirmed", "")
    <3>1. Paid(w) BY <2>4, OkIsBoolean DEF Confirm, Confirmed, Paid
    <3> QED BY <1>2, <2>4, <3>1 DEF Turned
  <2>5. CASE FailedOnChain(w) /\ Turned(w, "failed", "on_chain")
    <3>1. Lost(w) BY <2>5, OkIsBoolean DEF FailedOnChain, Confirmed, Lost
    <3> QED BY <1>2, <2>5, <3>1 DEF Turned
  <2>6. CASE SettleCancelled(w) /\ Turned(w, "failed", "replaced")
    <3>1. Displ(w) BY <2>6 DEF SettleCancelled, Confirmed, Displ
    <3> QED BY <1>2, <2>6, <3>1 DEF Turned
  <2> QED BY <1>4, <2>1, <2>2, <2>3, <2>4, <2>5, <2>6 DEF Moved
<1>5. \A w \in Withdrawals : Kept(w) \/ Moved(w) BY RowEffects
<1> QED BY <1>3, <1>4, <1>5 DEF Settled, Paid, Lost, Displ

\* Who moves the wallet's numbers: pinning takes the next nonce, recycling gives one
\* back, a fill once recorded stays, and a recycling ends in a fill or a crash.
LEMMA WalletFrame ==
  ASSUME LoopInv, [Next]_vars, ~ChainStep
  PROVE  /\ fills \subseteq fills'
         /\ \/ nextNonce' = nextNonce
            \/ \E w \in Withdrawals : PinNonce(w) /\ row[w].nonce = None /\ nextNonce' = nextNonce + 1
            \/ Recycle
         /\ phase' = "up" => phase = "up" \/ Started
         /\ job.at \in {"recycle", "fill"} => job' = job \/ Recycle \/ RecordFill \/ phase' = "down"
<1> DEFINE Frame == UNCHANGED <<fills, nextNonce>> /\ phase' = phase
<1> USE DEF LoopInv
<1>1. ASSUME NEW w \in Withdrawals,
             \/ Create(w) \/ Decide(w) \/ LockFunds(w) \/ DropRequest(w)
             \/ \E approve \in BOOLEAN : Review(w, approve)
             \/ \E action \in {"bump", "cancel_nonce", "refund", "retry"} : RequestResolve(w, action)
      PROVE  Frame /\ job' = job
  BY <1>1 DEF Create, Decide, LockFunds, DropRequest, Review, RequestResolve, wallet
<1>2. ASSUME NEW w \in Withdrawals, Confirm(w) \/ FailedOnChain(w) \/ SettleCancelled(w)
      PROVE  Frame /\ job' = job
  BY <1>2 DEF Confirm, FailedOnChain, SettleCancelled, wallet
<1>3. ASSUME NEW w \in Withdrawals, Broadcast(w) \/ MaybeReplace(w) \/ Bump(w) \/ Refund(w) \/ Retry(w)
      PROVE  Frame /\ job.at = "idle"
  <2>1. CASE Broadcast(w) BY <2>1 DEF Broadcast, wallet, Ready, Idle
  <2>2. CASE MaybeReplace(w) \/ Bump(w)
    <3>1. job = Idle BY <2>2 DEF MaybeReplace, Bump, Ready, Asked
    <3>2. \E clear : SignReplacement(w, clear) BY <2>2 DEF MaybeReplace, Bump
    <3>3. Frame BY <3>2 DEF SignReplacement
    <3> QED BY <3>1, <3>3 DEF Idle
  <2>3. CASE Refund(w) BY <2>3 DEF Refund, wallet, Asked, Idle
  <2>4. CASE Retry(w) BY <2>4 DEF Retry, wallet, Asked, Idle
  <2> QED BY <1>3, <2>1, <2>2, <2>3, <2>4
<1>4. ASSUME NEW w \in Withdrawals, CancelNonce(w)
      PROVE  fills \subseteq fills' /\ nextNonce' = nextNonce /\ phase' = phase /\ job.at = "idle"
  BY <1>4 DEF CancelNonce, Asked, Idle
<1>5. ASSUME NEW w \in Withdrawals, PinNonce(w)
      PROVE  /\ fills' = fills /\ phase' = phase /\ job.at = "idle"
             /\ nextNonce' = nextNonce \/ (row[w].nonce = None /\ nextNonce' = nextNonce + 1)
  BY <1>5 DEF PinNonce, Ready, Idle
<1>6. CASE SignerSigns \/ SignerFails \/ RecordSigned \/ SendFill
  <2>1. Frame /\ job.at \notin {"recycle", "fill"}
    BY <1>6 DEF SignerSigns, SignerFails, RecordSigned, SendFill, wallet
  <2> QED BY <2>1
<1>7. CASE PostBroadcast \/ BroadcastFailed \/ Resend \/ RecordReplacement
  <2>1. Frame /\ job.at \notin {"recycle", "fill"}
    BY <1>7 DEF PostBroadcast, BroadcastFailed, Resend, RecordReplacement, wallet
  <2> QED BY <2>1
<1>8. CASE SendCancel \/ MarkCancelling \/ ClearRequest
  <2>1. Frame /\ job.at \notin {"recycle", "fill"}
    BY <1>8 DEF SendCancel, MarkCancelling, ClearRequest, wallet
  <2> QED BY <2>1
<1>9. CASE Recycle \/ RecordFill BY <1>9 DEF Recycle, RecordFill
<1>10. CASE Spend \/ Crash \/ Start \/ StartFill \/ Started \/ UNCHANGED vars
  <2>1. CASE Spend \/ UNCHANGED vars BY <2>1 DEF Spend, wallet, vars
  <2>2. CASE Crash BY <2>2 DEF Crash, wallet
  <2>3. CASE Start BY <2>3 DEF Start, wallet
  <2>4. CASE StartFill BY <2>4 DEF StartFill, wallet, Idle
  <2>5. CASE Started BY <2>5 DEF Started, wallet
  <2> QED BY <1>10, <2>1, <2>2, <2>3, <2>4, <2>5
<1>11. CASE JobStep BY <1>6, <1>7, <1>8, <1>9, <1>11 DEF JobStep
<1>12. CASE \E w \in Withdrawals : PinNonce(w) BY <1>5, <1>12
<1>13. CASE \E w \in Withdrawals : \/ Create(w) \/ Decide(w) \/ LockFunds(w) \/ DropRequest(w)
             \/ \E approve \in BOOLEAN : Review(w, approve)
             \/ \E action \in {"bump", "cancel_nonce", "refund", "retry"} : RequestResolve(w, action)
  BY <1>1, <1>13
<1>14. CASE \E w \in Withdrawals : \/ Confirm(w) \/ FailedOnChain(w) \/ SettleCancelled(w) \/ Broadcast(w)
             \/ MaybeReplace(w) \/ Bump(w) \/ Refund(w) \/ Retry(w) \/ CancelNonce(w)
  BY <1>2, <1>3, <1>4, <1>14
<1> HIDE DEF LoopInv
<1> QED BY <1>10, <1>11, <1>12, <1>13, <1>14 DEF Next, SendStep, ResolveStep, ChainStep

Holding(w) == row[w].st \in {"funds_locked", "signed", "broadcast", "confirmed"}

\* A nonce is held by a recorded fill or by a row on its way.
LEMMA HoldersAre ==
  \A n : n \in Holders <=> n \in fills \/ \E w \in Withdrawals : Holding(w) /\ row[w].nonce = n
BY DEF Holders, Holding

\* A holder lets go of an open nonce only to have it recycled.
LEMMA HoldersStay ==
  ASSUME LoopInv, NodeInv, [Next]_vars, ~ChainStep,
         NEW n \in Nat, n >= Len(mined), n \in Holders
  PROVE  n \in Holders' \/ (job'.at = "recycle" /\ job'.tx.nonce = n)
<1>1. fills \subseteq fills' BY WalletFrame
<1>2. CASE n \in fills BY <1>1, <1>2, HoldersAre DEF Holders
<1>3. CASE n \notin fills
  <2>1. PICK w \in Withdrawals : Holding(w) /\ row[w].nonce = n BY <1>3, HoldersAre
  <2>2. row'[w].nonce = n /\ Holding(w)' => n \in Holders' BY DEF Holders, Holding
  <2>3. CASE Kept(w) BY <2>1, <2>2, <2>3 DEF Kept, Holding
  <2>4. CASE Moved(w)
    <3>1. ~Early(w) /\ ~Retried(w) /\ row[w].st \notin Before BY <2>1 DEF Early, Retried, Holding, Before
    <3>2. ~Pinned(w) BY <2>1 DEF Pinned, None
    <3>3. CASE Recorded(w) \/ Replaced(w) BY <2>1, <2>2, <3>3 DEF Recorded, Replaced, Holding
    <3>4. CASE Turned(w, "broadcast", "") \/ Turned(w, "confirmed", "")
      BY <2>1, <2>2, <3>4 DEF Turned, Holding
    <3>5. CASE BroadcastFailed /\ job.w = w /\ row[w].st = "signed" /\ Turned(w, "failed", "broadcast")
      <4>1. job' = [job EXCEPT !.at = "recycle"] BY <3>5 DEF BroadcastFailed, Turned
      <4>2. job.tx = row[w].tx /\ row[w].tx.nonce = row[w].nonce /\ job \in JobType
        BY <3>5 DEF BroadcastFailed, LoopInv, RowTypes, RowTx, Sent, JobInv
      <4>3. job'.at = "recycle" /\ job'.tx = job.tx BY <4>1, <4>2 DEF JobType
      <4> QED BY <2>1, <4>2, <4>3
    <3>6. CASE FailedOnChain(w) \/ SettleCancelled(w)
      <4>1. row[w].tx.nonce = row[w].nonce
        BY <3>6 DEF FailedOnChain, SettleCancelled, Ready, LoopInv, RowTx, Sent
      <4>2. PICK i \in 1..deep : mined[i].tx = row[w].tx \/ mined[i].tx = FillTx(row[w].nonce)
        BY <3>6 DEF FailedOnChain, SettleCancelled, Confirmed
      <4>3. mined[i].tx.nonce = n BY <2>1, <4>1, <4>2 DEF FillTx, Tx
      <4>4. n = i - 1 /\ i \in Nat /\ i =< Len(mined) /\ Len(mined) \in Nat
        BY <4>3, OkIsBoolean DEF NodeInv
      <4> QED BY <4>4
    <3> QED BY <2>4, <3>1, <3>2, <3>3, <3>4, <3>5, <3>6 DEF Moved
  <2> QED BY <2>3, <2>4, RowEffects
<1> QED BY <1>2, <1>3

\* A nonce handed out has a taker after every step: a holder lets go only to have
\* it recycled, and the role comes up only without gaps.
LEMMA CoveredStep ==
  ASSUME LoopInv, NodeInv, Covered, [Next]_vars
  PROVE  Covered'
<1>0. /\ Len(mined) \in Nat /\ Len(mined') \in Nat /\ nextNonce \in Nat /\ nextNonce' \in Nat
      /\ row \in [Withdrawals -> RowType]
  BY NodeStep, LoopStep DEF NodeInv, LoopInv, RowTypes
<1> SUFFICES ASSUME phase' = "up", NEW n \in Len(mined')..(nextNonce' - 1)
             PROVE  \/ n \in Holders' \/ \E tx \in mempool' : tx.nonce = n
                    \/ (job'.at \in {"recycle", "fill"} /\ job'.tx.nonce = n)
  BY DEF Covered
<1>a. n \in Nat /\ Len(mined') =< n /\ n < nextNonce'
  <2>1. PICK L \in Nat, N \in Nat : L = Len(mined') /\ N = nextNonce' BY <1>0
  <2>2. n \in L..(N - 1) BY <2>1
  <2>3. n \in Nat /\ L =< n /\ n < N BY <2>2
  <2> QED BY <2>1, <2>3
<1> DEFINE Taken == \/ n \in Holders \/ \E tx \in mempool : tx.nonce = n
                    \/ (job.at \in {"recycle", "fill"} /\ job.tx.nonce = n)
<1>1. phase = "up" /\ Len(mined) =< n /\ n < nextNonce => Taken BY <1>0 DEF Covered
<1>2. CASE ChainStep
  <2>1. UNCHANGED <<row, nextNonce, fills, job, phase>> BY <1>2, ChainMoves
  <2>2. Holders' = Holders BY <2>1 DEF Holders
  <2>3. CASE Deepen BY <1>a, <1>1, <2>1, <2>2, <2>3 DEF Deepen
  <2>4. ASSUME NEW tx \in mempool, NEW ok \in BOOLEAN, Mine(tx, ok) PROVE Taken'
    <3>1. tx.nonce = Len(mined) /\ mempool' = mempool \ {tx} /\ mined' = Append(mined, [tx |-> tx, ok |-> ok])
      BY <2>4 DEF Mine
    <3>2. Len(mined') = Len(mined) + 1 BY <3>1 DEF NodeInv
    <3>3. Len(mined) =< n /\ tx.nonce # n BY <1>0, <1>a, <3>1, <3>2
    <3> QED BY <1>a, <1>1, <2>1, <2>2, <3>1, <3>3
  <2>5. CASE Reorg
    <3>1. PICK L \in Nat : L = Len(mined) BY <1>0
    <3>2. L \in 1..Len(mined) BY <2>5, <3>1 DEF Reorg, NodeInv
    <3>3. mempool' = mempool \cup {mined[L].tx} /\ Len(mined') = L - 1
      BY <2>5, <3>1, <3>2 DEF Reorg, NodeInv
    <3>4. mined[L].tx.nonce = L - 1 BY <3>2 DEF NodeInv
    <3>5. CASE n = L - 1 BY <3>3, <3>4, <3>5
    <3>6. CASE n # L - 1 BY <1>a, <1>1, <2>1, <2>2, <3>1, <3>3, <3>6
    <3> QED BY <3>5, <3>6
  <2> QED BY <1>2, <2>3, <2>4, <2>5 DEF ChainStep
<1>3. CASE Started
  <2>1. UNCHANGED <<row, fills, nextNonce, mempool, mined>> /\ Gaps = {} BY <1>3 DEF Started, wallet, node
  <2>2. Holders' = Holders BY <2>1 DEF Holders
  <2>3. CASE n < PendingNonce BY <1>0, <1>a, <2>1, <2>3, PendingIsDue
  <2>4. CASE n >= PendingNonce
    <3>1. n \in PendingNonce..(nextNonce - 1) BY <1>0, <1>a, <2>1, <2>4, PendingIsDue
    <3> QED BY <2>1, <2>2, <3>1 DEF Gaps
  <2> QED BY <1>a, <2>3, <2>4, PendingIsDue
<1>4. CASE ~ChainStep /\ ~Started
  <2>1. phase = "up" BY <1>4, WalletFrame
  <2>2. mined' = mined /\ mempool \subseteq mempool' BY <1>4, WalletMoves
  <2>3. CASE n < nextNonce
    <3>1. Taken BY <1>a, <1>1, <2>1, <2>2, <2>3
    <3>2. CASE n \in Holders BY <1>a, <1>4, <2>2, <3>2, HoldersStay
    <3>3. CASE \E tx \in mempool : tx.nonce = n BY <2>2, <3>3
    <3>4. CASE job.at \in {"recycle", "fill"} /\ job.tx.nonce = n
      <4>1. CASE job' = job BY <3>4, <4>1
      <4>2. CASE Recycle
        <5>1. nextNonce' # n BY <1>0, <1>a
        <5>2. job' = Job("fill", "none", FillTx(n), FALSE) BY <3>4, <4>2, <5>1 DEF Recycle
        <5> QED BY <5>2 DEF Job, FillTx, Tx
      <4>3. CASE RecordFill
        <5>1. n \in fills' BY <3>4, <4>3 DEF RecordFill
        <5> QED BY <5>1 DEF Holders
      <4> QED BY <1>4, <3>4, <4>1, <4>2, <4>3, WalletFrame
    <3> QED BY <3>1, <3>2, <3>3, <3>4
  <2>4. CASE nextNonce =< n
    <3>1. CASE nextNonce' = nextNonce BY <1>0, <1>a, <2>4, <3>1
    <3>2. ASSUME NEW w \in Withdrawals, PinNonce(w), row[w].nonce = None, nextNonce' = nextNonce + 1
          PROVE  n \in Holders'
      <4>1. n = nextNonce BY <1>0, <1>a, <2>4, <3>2
      <4>2. row' = [row EXCEPT ![w].nonce = nextNonce] /\ row[w].st = "funds_locked"
        BY <3>2 DEF PinNonce, Ready
      <4>3. row'[w].nonce = n /\ row'[w].st = "funds_locked" BY <1>0, <4>1, <4>2 DEF RowType
      <4> QED BY <4>3 DEF Holders
    <3>3. CASE Recycle
      <4>1. job.tx.nonce \in Nat BY <3>3 DEF Recycle, LoopInv, JobInv
      <4>2. PICK k \in Nat : k = job.tx.nonce BY <4>1
      <4>3. nextNonce' = nextNonce \/ (nextNonce = k + 1 /\ nextNonce' = k) BY <3>3, <4>2 DEF Recycle
      <4> QED BY <1>0, <1>a, <2>4, <4>3
    <3> QED BY <1>4, <3>1, <3>2, <3>3, WalletFrame
  <2> QED BY <1>0, <1>a, <2>3, <2>4
<1> QED BY <1>2, <1>3, <1>4

-----------------------------------------------------------------------------
(* The books.                                                              *)

Posting(w) ==
  \/ LockFunds(w) \/ Confirm(w) \/ SettleCancelled(w) \/ Refund(w) \/ Retry(w)
  \/ (PostBroadcast /\ job.w = w) \/ (BroadcastFailed /\ job.w = w)

\* Only these steps write to the ledger.
LEMMA LedgerQuiet ==
  ASSUME LoopInv, [Next]_vars, \A w \in Withdrawals : ~Posting(w)
  PROVE  UNCHANGED keys /\ (UNCHANGED <<bal, house>> \/ Spend)
<1> USE DEF ledger
<1>1. ASSUME NEW w \in Withdrawals,
             \/ Create(w) \/ Decide(w) \/ DropRequest(w)
             \/ \E approve \in BOOLEAN : Review(w, approve)
             \/ \E action \in {"bump", "cancel_nonce", "refund", "retry"} : RequestResolve(w, action)
      PROVE  UNCHANGED <<bal, house, keys>>
  BY <1>1 DEF Create, Decide, DropRequest, Review, RequestResolve
<1>2. ASSUME NEW w \in Withdrawals,
             \/ PinNonce(w) \/ Broadcast(w) \/ FailedOnChain(w) \/ MaybeReplace(w) \/ Bump(w) \/ CancelNonce(w)
      PROVE  UNCHANGED <<bal, house, keys>>
  BY <1>2 DEF PinNonce, Broadcast, FailedOnChain, MaybeReplace, Bump, SignReplacement, CancelNonce
<1>3. ~PostBroadcast /\ ~BroadcastFailed
  BY DEF Posting, PostBroadcast, BroadcastFailed, LoopInv, JobInv
<1>4. CASE JobStep
  BY <1>3, <1>4 DEF JobStep, SignerSigns, SignerFails, RecordSigned, Recycle, RecordFill, SendFill,
                    Resend, RecordReplacement, SendCancel, MarkCancelling, ClearRequest
<1>5. CASE Spend \/ Crash \/ Start \/ StartFill \/ Started \/ UNCHANGED vars
  BY <1>5 DEF Spend, Crash, Start, StartFill, Started, vars
<1>6. CASE ChainStep BY <1>6 DEF ChainStep, Mine, Deepen, Reorg
<1> HIDE DEF ledger
<1>7. CASE \E w \in Withdrawals : \/ Create(w) \/ Decide(w) \/ LockFunds(w) \/ SendStep(w) \/ ResolveStep(w)
             \/ \E approve \in BOOLEAN : Review(w, approve)
             \/ \E action \in {"bump", "cancel_nonce", "refund", "retry"} : RequestResolve(w, action)
  BY <1>1, <1>2, <1>7 DEF SendStep, ResolveStep, Posting
<1> QED BY <1>4, <1>5, <1>6, <1>7 DEF Next, ChainStep

\* The keys a posting step adds, all of its row's attempt.
LEMMA KeyMoves ==
  ASSUME LoopInv, [Next]_vars
  PROVE  \/ keys' = keys
         \/ \E w \in Withdrawals :
              \/ keys' = keys \cup {<<"broadcast", w, row[w].att>>} /\ PostBroadcast /\ job.w = w
              \/ keys' = keys \cup {<<"refund", w, row[w].att>>} /\ Refund(w)
              \/ keys' = keys \cup {<<"retry", w, row[w].att>>} /\ Retry(w)
<1>1. CASE \A w \in Withdrawals : ~Posting(w) BY <1>1, LedgerQuiet
<1>2. ASSUME NEW w \in Withdrawals, LockFunds(w) \/ Confirm(w) \/ SettleCancelled(w) \/ BroadcastFailed
      PROVE  keys' = keys
  BY <1>2 DEF LockFunds, Confirm, SettleCancelled, BroadcastFailed
<1>3. ASSUME NEW w \in Withdrawals, PostBroadcast, job.w = w
      PROVE  keys' = keys \/ keys' = keys \cup {<<"broadcast", w, row[w].att>>}
  BY <1>3 DEF PostBroadcast, ledger
<1>4. ASSUME NEW w \in Withdrawals, Refund(w)
      PROVE  keys' = keys \/ keys' = keys \cup {<<"refund", w, row[w].att>>}
  BY <1>4 DEF Refund, ledger
<1>5. ASSUME NEW w \in Withdrawals, Retry(w)
      PROVE  keys' = keys \/ keys' = keys \cup {<<"retry", w, row[w].att>>}
  BY <1>5 DEF Retry, ledger
<1> QED BY <1>1, <1>2, <1>3, <1>4, <1>5 DEF Posting

\* A key's attempt is not ahead of its row, and the row is where the posting
\* left it or further.
LEMMA KeysStep ==
  ASSUME LoopInv, KeysFollow, [Next]_vars, LoopInv'
  PROVE  KeysFollow'
<1>0. row \in [Withdrawals -> RowType] /\ row' \in [Withdrawals -> RowType] BY DEF LoopInv, RowTypes
<1> SUFFICES ASSUME NEW w \in Withdrawals, NEW a \in Nat
             PROVE  /\ <<"broadcast", w, a>> \in keys' =>
                         a =< row'[w].att /\ (a = row'[w].att => row'[w].st \in {"broadcast", "confirmed", "failed"})
                    /\ <<"refund", w, a>> \in keys' =>
                         a =< row'[w].att /\ (a = row'[w].att => row'[w].st = "failed" /\ row'[w].why = "on_chain")
                    /\ <<"retry", w, a>> \in keys' => a < row'[w].att
  BY DEF KeysFollow
<1>1. PICK m \in Nat, n \in Nat : m = row[w].att /\ n = row'[w].att BY <1>0 DEF RowType
<1>2. Kept(w) \/ Moved(w) BY RowEffects
<1> DEFINE Onward == /\ row[w].st \in {"broadcast", "confirmed", "failed"} =>
                          row'[w].st \in {"broadcast", "confirmed", "failed"}
                     /\ row[w].st = "failed" => row'[w].st = "failed" /\ row'[w].why = row[w].why
<1>3. n = m + 1 \/ (n = m /\ Onward)
  <2>1. CASE Kept(w) BY <1>1, <2>1 DEF Kept
  <2>2. CASE Early(w)
    <3>1. row'[w].att = row[w].att /\ row[w].st \in Before BY <2>2 DEF Early, Turned
    <3> QED BY <1>1, <3>1 DEF Before
  <2>3. CASE Pinned(w) \/ Recorded(w)
    <3>1. row'[w].att = row[w].att /\ row[w].st = "funds_locked" BY <2>3 DEF Pinned, Recorded
    <3> QED BY <1>1, <3>1
  <2>4. CASE Replaced(w) \/ Retried(w)
    <3>1. row'[w].att = row[w].att + 1 BY <2>4 DEF Replaced, Retried
    <3> QED BY <1>1, <3>1
  <2>5. CASE row[w].st \in Before \cup {"signed"} /\ \E st, why : Turned(w, st, why)
    <3>1. row'[w].att = row[w].att BY <2>5 DEF Turned
    <3> QED BY <1>1, <2>5, <3>1 DEF Before
  <2>6. CASE row[w].st = "broadcast" /\ \E st \in {"confirmed", "failed"} : \E why : Turned(w, st, why)
    <3>1. row'[w].att = row[w].att /\ row'[w].st \in {"confirmed", "failed"} BY <2>6 DEF Turned
    <3> QED BY <1>1, <2>6, <3>1
  <2>7. Confirm(w) \/ FailedOnChain(w) \/ SettleCancelled(w) => row[w].st = "broadcast"
    BY DEF Confirm, FailedOnChain, SettleCancelled, Ready
  <2> QED BY <1>2, <2>1, <2>2, <2>3, <2>4, <2>5, <2>6, <2>7 DEF Moved
<1>4. <<"broadcast", w, a>> \in keys' =>
        a =< n /\ (a = n => row'[w].st \in {"broadcast", "confirmed", "failed"})
  <2>1. CASE <<"broadcast", w, a>> \in keys
    <3>1. a =< m /\ (a = m => row[w].st \in {"broadcast", "confirmed", "failed"}) BY <1>1, <2>1 DEF KeysFollow
    <3> QED BY <1>3, <3>1
  <2>2. CASE <<"broadcast", w, a>> \in keys' \ keys
    <3>1. a = m /\ PostBroadcast /\ job.w = w BY <1>1, <2>2, KeyMoves
    <3>2. Turned(w, "broadcast", "")
      BY <3>1, TurnedRow DEF PostBroadcast, Statuses, Reasons
    <3>3. n = m /\ row'[w].st = "broadcast" BY <1>1, <3>2 DEF Turned
    <3> QED BY <3>1, <3>3
  <2> QED BY <2>1, <2>2
<1>5. <<"refund", w, a>> \in keys' =>
        a =< n /\ (a = n => row'[w].st = "failed" /\ row'[w].why = "on_chain")
  <2>1. CASE <<"refund", w, a>> \in keys
    <3>1. a =< m /\ (a = m => row[w].st = "failed" /\ row[w].why = "on_chain") BY <1>1, <2>1 DEF KeysFollow
    <3> QED BY <1>3, <3>1
  <2>2. CASE <<"refund", w, a>> \in keys' \ keys
    <3>1. a = m /\ Refund(w) BY <1>1, <2>2, KeyMoves
    <3>2. row' = row /\ row[w].st = "failed" /\ row[w].why = "on_chain"
      BY <3>1 DEF Refund, Asked, Resolvable
    <3> QED BY <1>1, <3>1, <3>2
  <2> QED BY <2>1, <2>2
<1>6. <<"retry", w, a>> \in keys' => a < n
  <2>1. CASE <<"retry", w, a>> \in keys
    <3>1. a < m BY <1>1, <2>1 DEF KeysFollow
    <3> QED BY <1>3, <3>1
  <2>2. CASE <<"retry", w, a>> \in keys' \ keys
    <3>1. a = m /\ Retry(w) BY <1>1, <2>2, KeyMoves
    <3>2. n = m + 1 BY <1>1, <3>1, RetriedRow DEF Retried
    <3> QED BY <3>1, <3>2
  <2> QED BY <2>1, <2>2
<1> QED BY <1>1, <1>4, <1>5, <1>6

\* The withdrawals each bucket carries.
Locked  == {w \in Withdrawals : row[w].st \in {"funds_locked", "signed"}}
Outside == {w \in Withdrawals : row[w].st = "broadcast" \/ Undecided(w)}
Settlements == {w \in Withdrawals : row[w].st = "confirmed"}

Buckets(nL, nO, nP) ==
  /\ bal.hold = Total * nL + Fee * nO /\ house.pending = Amount * nO
  /\ house.hot = Amount * nP /\ house.revenue = Fee * nP

\* The books agree when the buckets carry what their rows add up to.
LEMMA Sums ==
  LedgerAgrees <=> bal.avail >= 0 /\ Buckets(Cardinality(Locked), Cardinality(Outside), Cardinality(Settlements))
BY DEF LedgerAgrees, With, Locked, Outside, Settlements, Buckets

In(w, S) == IF w \in S THEN 1 ELSE 0

\* A bucket's rows change in number by the one row that moves.
LEMMA Shift ==
  ASSUME NEW S, S \subseteq Withdrawals, NEW T, T \subseteq Withdrawals, NEW w \in Withdrawals,
         \A v \in Withdrawals \ {w} : v \in T <=> v \in S
  PROVE  /\ Cardinality(S) \in Nat /\ Cardinality(T) \in Nat
         /\ Cardinality(T) = Cardinality(S) + In(w, T) - In(w, S)
<1>1. IsFiniteSet(S) /\ IsFiniteSet(T)
  BY FS_Subset, WithdrawalAssumption DEF WithdrawalAssumption
<1>2. Cardinality(S) \in Nat /\ Cardinality(T) \in Nat BY <1>1, FS_CardinalityType
<1>3. CASE w \in T <=> w \in S
  <2>1. T = S BY <1>3
  <2> QED BY <1>2, <2>1 DEF In
<1>4. CASE w \in T /\ w \notin S
  <2>1. T = S \cup {w} BY <1>4
  <2>2. Cardinality(T) = Cardinality(S) + 1 BY <1>1, <1>4, <2>1, FS_AddElement
  <2> QED BY <1>2, <1>4, <2>2 DEF In
<1>5. CASE w \notin T /\ w \in S
  <2>1. T = S \ {w} BY <1>5
  <2>2. Cardinality(T) = Cardinality(S) - 1 BY <1>1, <1>5, <2>1, FS_RemoveElement
  <2> QED BY <1>2, <1>5, <2>2 DEF In
<1> QED BY <1>3, <1>4, <1>5

\* One row moves and the buckets move with it.
LEMMA Booked ==
  ASSUME LedgerAgrees, BookTypes, NEW w \in Withdrawals,
         \A v \in Withdrawals \ {w} : Kept(v) /\ (Refunded(v)' <=> Refunded(v)),
         NEW dL \in Int, dL = In(w, Locked') - In(w, Locked),
         NEW dO \in Int, dO = In(w, Outside') - In(w, Outside),
         NEW dP \in Int, dP = In(w, Settlements') - In(w, Settlements),
         bal'.avail >= 0, bal'.hold = bal.hold + Total * dL + Fee * dO,
         house'.pending = house.pending + Amount * dO,
         house'.hot = house.hot + Amount * dP, house'.revenue = house.revenue + Fee * dP
  PROVE  LedgerAgrees'
<1>1. \A v \in Withdrawals \ {w} : /\ (v \in Locked' <=> v \in Locked)
                                 /\ (v \in Outside' <=> v \in Outside)
                                 /\ (v \in Settlements' <=> v \in Settlements)
  BY DEF Kept, Locked, Outside, Settlements, Undecided
<1>2. /\ Locked \subseteq Withdrawals /\ Locked' \subseteq Withdrawals
      /\ Outside \subseteq Withdrawals /\ Outside' \subseteq Withdrawals
      /\ Settlements \subseteq Withdrawals /\ Settlements' \subseteq Withdrawals
  BY DEF Locked, Outside, Settlements
<1>3. PICK nL \in Nat, mL \in Nat : nL = Cardinality(Locked) /\ mL = Cardinality(Locked') /\ mL = nL + dL
  <2>1. /\ Cardinality(Locked) \in Nat /\ Cardinality(Locked') \in Nat
        /\ Cardinality(Locked') = Cardinality(Locked) + In(w, Locked') - In(w, Locked)
    BY <1>1, <1>2, Shift
  <2> QED BY <2>1 DEF In
<1>4. PICK nO \in Nat, mO \in Nat : nO = Cardinality(Outside) /\ mO = Cardinality(Outside') /\ mO = nO + dO
  <2>1. /\ Cardinality(Outside) \in Nat /\ Cardinality(Outside') \in Nat
        /\ Cardinality(Outside') = Cardinality(Outside) + In(w, Outside') - In(w, Outside)
    BY <1>1, <1>2, Shift
  <2> QED BY <2>1 DEF In
<1>5. PICK nP \in Nat, mP \in Nat : nP = Cardinality(Settlements) /\ mP = Cardinality(Settlements') /\ mP = nP + dP
  <2>1. /\ Cardinality(Settlements) \in Nat /\ Cardinality(Settlements') \in Nat
        /\ Cardinality(Settlements') = Cardinality(Settlements) + In(w, Settlements') - In(w, Settlements)
    BY <1>1, <1>2, Shift
  <2> QED BY <2>1 DEF In
<1>6. Buckets(nL, nO, nP) BY <1>3, <1>4, <1>5, Sums
<1>7. PICK amount \in Nat, fee \in Nat, total \in Nat : amount = Amount /\ fee = Fee /\ total = Total /\ total = amount + fee
  BY WithdrawalAssumption DEF WithdrawalAssumption, Total
<1>8. /\ total * mL = total * nL + total * dL /\ fee * mO = fee * nO + fee * dO
      /\ amount * mO = amount * nO + amount * dO
      /\ amount * mP = amount * nP + amount * dP /\ fee * mP = fee * nP + fee * dP
  <2>1. \A x, y, z \in Int : x * (y + z) = x * y + x * z OBVIOUS
  <2> QED BY <1>3, <1>4, <1>5, <2>1
<1>9. /\ bal'.hold = total * mL + fee * mO /\ house'.pending = amount * mO
      /\ house'.hot = amount * mP /\ house'.revenue = fee * mP
  <2>1. /\ bal'.hold = (total * nL + fee * nO) + total * dL + fee * dO
        /\ house'.pending = amount * nO + amount * dO
        /\ house'.hot = amount * nP + amount * dP /\ house'.revenue = fee * nP + fee * dP
    BY <1>6, <1>7 DEF Buckets
  <2>2. total * nL \in Int /\ total * dL \in Int /\ fee * nO \in Int /\ fee * dO \in Int OBVIOUS
  <2>3. (total * nL + fee * nO) + total * dL + fee * dO = (total * nL + total * dL) + (fee * nO + fee * dO)
    BY <2>2
  <2> QED BY <1>8, <2>1, <2>3
<1>10. (Buckets(Cardinality(Locked), Cardinality(Outside), Cardinality(Settlements)))'
  BY <1>3, <1>4, <1>5, <1>7, <1>9 DEF Buckets
<1>11. bal'.avail >= 0 OBVIOUS
<1> QED BY <1>10, <1>11 DEF LedgerAgrees, With, Locked, Outside, Settlements, Buckets

\* A request is made by an operator, and goes away.
LEMMA AskMoves ==
  ASSUME LoopInv, [Next]_vars, NEW w \in Withdrawals
  PROVE  row'[w].ask \in {"", row[w].ask} \/ RequestResolve(w, row'[w].ask)
<1>0. row \in [Withdrawals -> RowType] BY DEF LoopInv, RowTypes
<1>1. ASSUME row' = row \/ \E v, st, why : Status(v, st, why) PROVE row'[w].ask = row[w].ask
  <2>1. CASE \E v, st, why : row' = [row EXCEPT ![v].st = st, ![v].why = why]
    <3>1. PICK v, st, why : row' = [row EXCEPT ![v].st = st, ![v].why = why] BY <2>1
    <3> QED BY <1>0, <3>1 DEF RowType
  <2> QED BY <1>1, <2>1 DEF Status
<1>2. ASSUME \E v, x : \/ row' = [row EXCEPT ![v].nonce = x] \/ row' = [row EXCEPT ![v].cancel = x]
                      \/ row' = [row EXCEPT ![v].att = x]
      PROVE  row'[w].ask = row[w].ask
  <2>1. PICK v, x : \/ row' = [row EXCEPT ![v].nonce = x] \/ row' = [row EXCEPT ![v].cancel = x]
                    \/ row' = [row EXCEPT ![v].att = x]
    BY <1>2
  <2>2. CASE row' = [row EXCEPT ![v].nonce = x] BY <1>0, <2>2 DEF RowType
  <2>3. CASE row' = [row EXCEPT ![v].cancel = x] BY <1>0, <2>3 DEF RowType
  <2>4. CASE row' = [row EXCEPT ![v].att = x] BY <1>0, <2>4 DEF RowType
  <2> QED BY <2>1, <2>2, <2>3, <2>4
<1>3. ASSUME \E v, x, y : row' = [row EXCEPT ![v].att = x, ![v].tx = y] PROVE row'[w].ask = row[w].ask
  BY <1>0, <1>3 DEF RowType
<1>4. CASE RecordSigned
  <2>1. PICK tx, n : tx = job.tx /\ n = job.tx.nonce OBVIOUS
  <2>2. row' = [row EXCEPT ![job.w].st = "signed", ![job.w].tx = tx, ![job.w].nonce = n]
    BY <1>4, <2>1 DEF RecordSigned
  <2> QED BY <1>0, <2>2 DEF RowType
<1>5. ASSUME NEW v \in Withdrawals, Retry(v) PROVE row'[w].ask = row[w].ask
  <2> DEFINE new == [row[v] EXCEPT !.st = "funds_locked", !.why = "", !.nonce = None,
                                   !.tx = NoTx, !.cancel = FALSE, !.att = @ + 1]
  <2>1. row' = [row EXCEPT ![v] = new] BY <1>5 DEF Retry
  <2>2. new.ask = row[v].ask BY <1>0 DEF RowType
  <2> HIDE DEF new
  <2> QED BY <1>0, <2>1, <2>2
<1>6. ASSUME NEW v \in Withdrawals, DropRequest(v) \/ ClearRequest PROVE row'[w].ask \in {"", row[w].ask}
  <2>1. \E u : row' = [row EXCEPT ![u].ask = ""] BY <1>6 DEF DropRequest, ClearRequest
  <2> QED BY <1>0, <2>1 DEF RowType
<1>7. ASSUME NEW v \in Withdrawals, NEW action, RequestResolve(v, action)
      PROVE  row'[w].ask = row[w].ask \/ RequestResolve(w, row'[w].ask)
  <2>1. row' = [row EXCEPT ![v].ask = action] BY <1>7 DEF RequestResolve
  <2>2. CASE v = w
    <3>1. row'[w].ask = action BY <1>0, <2>1, <2>2 DEF RowType
    <3> QED BY <1>7, <2>2, <3>1
  <2>3. CASE v # w BY <1>0, <2>1, <2>3
  <2> QED BY <2>2, <2>3
<1>8. ASSUME NEW v \in Withdrawals,
             \/ Create(v) \/ Decide(v) \/ LockFunds(v) \/ Broadcast(v) \/ Confirm(v) \/ FailedOnChain(v)
             \/ SettleCancelled(v) \/ MaybeReplace(v) \/ Bump(v) \/ CancelNonce(v) \/ Refund(v) \/ PostBroadcast
             \/ \E approve \in BOOLEAN : Review(v, approve)
             \/ BroadcastFailed
      PROVE  row' = row \/ \E u, st, why : Status(u, st, why)
  BY <1>8 DEF Create, Decide, LockFunds, Broadcast, Confirm, FailedOnChain, SettleCancelled, MaybeReplace, Bump,
              SignReplacement, CancelNonce, Refund, PostBroadcast, Review, BroadcastFailed
<1>9. CASE SignerSigns \/ SignerFails \/ Recycle \/ RecordFill \/ SendFill \/ SendCancel
  BY <1>1, <1>9 DEF SignerSigns, SignerFails, Recycle, RecordFill, SendFill, SendCancel
<1>10. CASE Spend \/ Crash \/ Start \/ StartFill \/ Started \/ ChainStep \/ UNCHANGED vars
  BY <1>1, <1>10 DEF Spend, Crash, Start, StartFill, Started, ChainStep, Mine, Deepen, Reorg, vars
<1>11. CASE Resend BY <1>1, <1>2, <1>11 DEF Resend
<1>12. CASE RecordReplacement BY <1>3, <1>12 DEF RecordReplacement
<1>13. CASE MarkCancelling BY <1>2, <1>13 DEF MarkCancelling
<1>14. ASSUME NEW v \in Withdrawals, PinNonce(v) PROVE row'[w].ask = row[w].ask
  BY <1>1, <1>2, <1>14 DEF PinNonce
<1>15. CASE JobStep BY <1>1, <1>4, <1>6, <1>8, <1>9, <1>11, <1>12, <1>13, <1>15 DEF JobStep
<1>16. CASE \E v \in Withdrawals : Create(v) \/ Decide(v) \/ LockFunds(v) \/ SendStep(v) \/ ResolveStep(v)
              \/ (\E approve \in BOOLEAN : Review(v, approve))
  BY <1>1, <1>5, <1>6, <1>8, <1>14, <1>16 DEF SendStep, ResolveStep
<1>17. CASE \E v \in Withdrawals, action \in {"bump", "cancel_nonce", "refund", "retry"} : RequestResolve(v, action)
  BY <1>7, <1>17
<1> QED BY <1>10, <1>15, <1>16, <1>17 DEF Next, ChainStep

\* A retry is not asked for, and does not wait, once the money is back.
LEMMA RetryStep ==
  ASSUME LoopInv, LoopInv', KeysFollow, RetryInv, "reresolve" \notin Faults, [Next]_vars
  PROVE  RetryInv'
<1>0. row \in [Withdrawals -> RowType] /\ row' \in [Withdrawals -> RowType] BY DEF LoopInv, RowTypes
<1> SUFFICES ASSUME NEW w \in Withdrawals, row'[w].ask = "retry", <<"refund", w, row'[w].att>> \in keys'
             PROVE  FALSE
  BY DEF RetryInv, Refunded
<1>1. PICK m \in Nat, n \in Nat : m = row[w].att /\ n = row'[w].att BY <1>0 DEF RowType
<1>2. CASE RequestResolve(w, "retry")
  <2>1. UNCHANGED keys /\ ~Refunded(w) /\ row' = [row EXCEPT ![w].ask = "retry"]
    BY <1>2 DEF RequestResolve, ledger
  <2>2. row'[w].att = row[w].att BY <1>0, <2>1 DEF RowType
  <2> QED BY <2>1, <2>2 DEF Refunded
<1>3. CASE row[w].ask = "retry"
  <2>1. ~Refunded(w) BY <1>3 DEF RetryInv
  <2>2. <<"refund", w, n>> \notin keys' \ keys
    <3>1. SUFFICES ASSUME <<"refund", w, n>> \in keys' \ keys PROVE FALSE
      OBVIOUS
    <3>2. Refund(w) BY <3>1, KeyMoves
    <3> QED BY <1>3, <3>2 DEF Refund, Asked
  <2>3. <<"refund", w, n>> \in keys BY <1>1, <2>2
  <2>4. n =< m BY <1>1, <2>3 DEF KeysFollow
  <2>5. n = m
    <3>1. row'[w].att = row[w].att \/ row'[w].att = row[w].att + 1
      <4>1. CASE Kept(w) BY <4>1 DEF Kept
      <4>2. CASE Moved(w) BY <4>2 DEF Moved, Early, Turned, Pinned, Recorded, Replaced, Retried
      <4> QED BY <4>1, <4>2, RowEffects
    <3> QED BY <1>1, <2>4, <3>1
  <2> QED BY <1>1, <2>1, <2>3, <2>5 DEF Refunded
<1> QED BY <1>2, <1>3, AskMoves

\* A posting is about one withdrawal: it says nothing of the others' refunds.
LEMMA OthersKept ==
  ASSUME NEW w \in Withdrawals, NEW kind, NEW a,
         keys' = keys \/ keys' = keys \cup {<<kind, w, a>>},
         NEW v \in Withdrawals \ {w}, Kept(v)
  PROVE  Refunded(v)' <=> Refunded(v)
BY DEF Kept, Refunded

\* Which bucket a row counts for, before the step and after it.
LEMMA Places ==
  ASSUME NEW w \in Withdrawals
  PROVE  /\ w \in Locked <=> row[w].st \in {"funds_locked", "signed"}
         /\ w \in Outside <=> row[w].st = "broadcast" \/ Undecided(w)
         /\ w \in Settlements <=> row[w].st = "confirmed"
         /\ w \in Locked' <=> row'[w].st \in {"funds_locked", "signed"}
         /\ w \in Outside' <=> row'[w].st = "broadcast" \/ Undecided(w)'
         /\ w \in Settlements' <=> row'[w].st = "confirmed"
BY DEF Locked, Outside, Settlements

\* A step that posts nothing leaves every row in its bucket.
LEMMA BooksQuiet ==
  ASSUME LoopInv, KeysFollow, BookTypes, LedgerAgrees, [Next]_vars, \A w \in Withdrawals : ~Posting(w)
  PROVE  BookTypes' /\ LedgerAgrees'
<1>0. row \in [Withdrawals -> RowType] BY DEF LoopInv, RowTypes
<1>1. UNCHANGED keys /\ (UNCHANGED <<bal, house>> \/ Spend) BY LedgerQuiet
<1>2. ASSUME NEW v \in Withdrawals
      PROVE  (v \in Locked' <=> v \in Locked) /\ (v \in Outside' <=> v \in Outside)
               /\ (v \in Settlements' <=> v \in Settlements)
  <2>1. ~PostBroadcast /\ ~BroadcastFailed
    BY DEF Posting, PostBroadcast, BroadcastFailed, LoopInv, JobInv
  <2>2. \/ Kept(v) \/ Early(v) \/ Pinned(v) \/ Recorded(v) \/ Replaced(v)
        \/ (FailedOnChain(v) /\ Turned(v, "failed", "on_chain"))
    BY <2>1, RowEffects DEF Moved, Posting
  <2>3. CASE Kept(v)
    <3>1. Undecided(v)' <=> Undecided(v) BY <1>1, <2>3 DEF Kept, Undecided, Refunded
    <3> QED BY <2>3, <3>1, Places DEF Kept
  <2>4. CASE Early(v)
    <3>1. /\ row[v].st \in Before /\ row'[v].st \in Before \cup {"rejected", "failed"}
          /\ row'[v].why \in {"", "policy", "insufficient_balance"}
      BY <2>4 DEF Early, Turned
    <3>2. ~Undecided(v) /\ ~Undecided(v)' BY <3>1 DEF Undecided, Before
    <3> QED BY <3>1, <3>2, Places DEF Before
  <2>5. CASE Pinned(v) \/ Recorded(v) \/ Replaced(v)
    <3>1. \/ row[v].st = "broadcast" /\ row'[v].st = "broadcast"
          \/ row[v].st = "funds_locked" /\ row'[v].st \in {"funds_locked", "signed"}
      BY <2>5 DEF Pinned, Recorded, Replaced
    <3>2. ~Undecided(v) /\ ~Undecided(v)' BY <3>1 DEF Undecided
    <3> QED BY <3>1, <3>2, Places
  <2>6. CASE FailedOnChain(v) /\ Turned(v, "failed", "on_chain")
    <3>1. row[v].st = "broadcast" BY <2>6 DEF FailedOnChain, Ready
    <3>2. row[v].att \in Nat BY <1>0 DEF RowType
    <3>3. ~Refunded(v) BY <3>1, <3>2 DEF Refunded, KeysFollow
    <3>4. Undecided(v)' BY <1>1, <2>6, <3>3 DEF Undecided, Turned, Refunded
    <3>5. row'[v].st = "failed" BY <2>6 DEF Turned
    <3> QED BY <3>1, <3>4, <3>5, Places
  <2> QED BY <2>2, <2>3, <2>4, <2>5, <2>6
<1>3. Locked' = Locked /\ Outside' = Outside /\ Settlements' = Settlements
  <2>1. /\ Locked \subseteq Withdrawals /\ Locked' \subseteq Withdrawals
        /\ Outside \subseteq Withdrawals /\ Outside' \subseteq Withdrawals
        /\ Settlements \subseteq Withdrawals /\ Settlements' \subseteq Withdrawals
    BY DEF Locked, Outside, Settlements
  <2> QED BY <1>2, <2>1
<1>4. PICK nL, nO, nP : /\ nL = Cardinality(Locked) /\ nO = Cardinality(Outside) /\ nP = Cardinality(Settlements)
                        /\ nL = Cardinality(Locked') /\ nO = Cardinality(Outside')
                        /\ nP = Cardinality(Settlements')
  BY <1>3
<1>5. bal.avail >= 0 /\ Buckets(nL, nO, nP) BY <1>4, Sums
<1>6. /\ BookTypes' /\ bal'.avail >= 0 /\ bal'.hold = bal.hold /\ house'.pending = house.pending
      /\ house'.hot = house.hot /\ house'.revenue = house.revenue
  <2>1. CASE UNCHANGED <<bal, house>> BY <1>5, <2>1 DEF BookTypes
  <2>2. CASE Spend BY <1>5, <2>2 DEF Spend, BookTypes
  <2> QED BY <1>1, <2>1, <2>2
<1>7. Buckets(nL, nO, nP)' BY <1>5, <1>6 DEF Buckets
<1>8. (Buckets(Cardinality(Locked), Cardinality(Outside), Cardinality(Settlements)))'
  BY <1>4, <1>7 DEF Buckets
<1> QED BY <1>6, <1>8 DEF LedgerAgrees, With, Locked, Outside, Settlements, Buckets

\* Funds are locked, or there are not enough of them.
LEMMA LockBooks ==
  ASSUME LoopInv, BookTypes, LedgerAgrees, NEW w \in Withdrawals, LockFunds(w)
  PROVE  BookTypes' /\ LedgerAgrees'
<1>1. Total \in Int /\ Amount \in Int /\ Fee \in Int /\ Total = Amount + Fee
  BY WithdrawalAssumption DEF WithdrawalAssumption, Total
<1>2. UNCHANGED <<house, keys>> BY DEF LockFunds
<1>3. w \notin Locked /\ w \notin Outside /\ w \notin Settlements BY Places DEF LockFunds, Undecided
<1>4. CASE bal.avail >= Total
  <2>1. Status(w, "funds_locked", "") BY <1>4 DEF LockFunds
  <2>a. bal' = [avail |-> bal.avail - Total, hold |-> bal.hold + Total] BY <1>4 DEF LockFunds
  <2>2. Turned(w, "funds_locked", "") /\ \A v \in Withdrawals \ {w} : Kept(v)
    BY <2>1, TurnedRow DEF Statuses, Reasons
  <2>3. w \in Locked' /\ w \notin Outside' /\ w \notin Settlements'
    BY <2>2, Places DEF Turned, Undecided
  <2>4. \A v \in Withdrawals \ {w} : Kept(v) /\ (Refunded(v)' <=> Refunded(v))
    BY <1>2, <2>2, OthersKept
  <2>5. BookTypes' BY <1>1, <1>2, <2>a DEF BookTypes
  <2>6. 1 = In(w, Locked') - In(w, Locked) /\ 0 = In(w, Outside') - In(w, Outside)
          /\ 0 = In(w, Settlements') - In(w, Settlements)
    BY <1>3, <2>3 DEF In
  <2>7. /\ bal'.avail >= 0 /\ bal'.hold = bal.hold + Total * 1 + Fee * 0
        /\ house'.pending = house.pending + Amount * 0
        /\ house'.hot = house.hot + Amount * 0 /\ house'.revenue = house.revenue + Fee * 0
    BY <1>1, <1>2, <1>4, <2>a DEF BookTypes
  <2> QED BY <2>4, <2>5, <2>6, <2>7, Booked
<1>5. CASE ~(bal.avail >= Total)
  <2>1. UNCHANGED bal /\ Status(w, "failed", "insufficient_balance") BY <1>5 DEF LockFunds
  <2>2. Turned(w, "failed", "insufficient_balance") /\ \A v \in Withdrawals \ {w} : Kept(v)
    BY <2>1, TurnedRow DEF Statuses, Reasons
  <2>3. w \notin Locked' /\ w \notin Outside' /\ w \notin Settlements'
    BY <2>2, Places DEF Turned, Undecided
  <2>4. \A v \in Withdrawals \ {w} : Kept(v) /\ (Refunded(v)' <=> Refunded(v))
    BY <1>2, <2>2, OthersKept
  <2>5. BookTypes' BY <1>2, <2>1 DEF BookTypes
  <2>6. 0 = In(w, Locked') - In(w, Locked) /\ 0 = In(w, Outside') - In(w, Outside)
          /\ 0 = In(w, Settlements') - In(w, Settlements)
    BY <1>3, <2>3 DEF In
  <2>7. /\ bal'.avail >= 0 /\ bal'.hold = bal.hold + Total * 0 + Fee * 0
        /\ house'.pending = house.pending + Amount * 0
        /\ house'.hot = house.hot + Amount * 0 /\ house'.revenue = house.revenue + Fee * 0
    BY <1>1, <1>2, <2>1 DEF BookTypes, LedgerAgrees
  <2> QED BY <2>4, <2>5, <2>6, <2>7, Booked
<1> QED BY <1>4, <1>5

\* The broadcast posts an attempt once: the row was signed, so its key is new.
\* A refused one gives everything back.
LEMMA BroadcastBooks ==
  ASSUME LoopInv, KeysFollow, BookTypes, LedgerAgrees, PostBroadcast \/ BroadcastFailed
  PROVE  BookTypes' /\ LedgerAgrees'
<1>0. row \in [Withdrawals -> RowType] BY DEF LoopInv, RowTypes
<1>1. Total \in Int /\ Amount \in Int /\ Fee \in Int /\ Total = Amount + Fee
  BY WithdrawalAssumption DEF WithdrawalAssumption, Total
<1>2. PICK w \in Withdrawals : w = job.w
  BY DEF PostBroadcast, BroadcastFailed, LoopInv, JobInv
<1>3. row[w].st = "signed" BY <1>2 DEF PostBroadcast, BroadcastFailed, LoopInv, JobInv
<1>4. w \in Locked /\ w \notin Outside /\ w \notin Settlements BY <1>3, Places DEF Undecided
<1>5. CASE PostBroadcast
  <2>1. <<"broadcast", w, row[w].att>> \notin keys
    <3>1. row[w].att \in Nat BY <1>0 DEF RowType
    <3> QED BY <1>3, <3>1 DEF KeysFollow
  <2>2. keys' = keys \cup {<<"broadcast", w, row[w].att>>} /\ Status(w, "broadcast", "")
    BY <1>2, <1>5, <2>1 DEF PostBroadcast
  <2>a. /\ bal' = [avail |-> bal.avail, hold |-> bal.hold - Amount]
        /\ house' = [pending |-> house.pending + Amount, hot |-> house.hot,
                     revenue |-> house.revenue, spent |-> house.spent]
    <3>1. bal' = [bal EXCEPT !.hold = @ - Amount] /\ house' = [house EXCEPT !.pending = @ + Amount]
      BY <1>2, <1>5, <2>1 DEF PostBroadcast
    <3> QED BY <3>1 DEF BookTypes
  <2>3. Turned(w, "broadcast", "") /\ \A v \in Withdrawals \ {w} : Kept(v)
    BY <2>2, TurnedRow DEF Statuses, Reasons
  <2>4. w \notin Locked' /\ w \in Outside' /\ w \notin Settlements'
    BY <2>3, Places DEF Turned
  <2>5. \A v \in Withdrawals \ {w} : Kept(v) /\ (Refunded(v)' <=> Refunded(v))
    BY <2>2, <2>3, OthersKept
  <2>6. BookTypes' BY <1>1, <2>a DEF BookTypes
  <2>7. -1 = In(w, Locked') - In(w, Locked) /\ 1 = In(w, Outside') - In(w, Outside)
          /\ 0 = In(w, Settlements') - In(w, Settlements)
    BY <1>4, <2>4 DEF In
  <2>8. /\ bal'.avail >= 0 /\ bal'.hold = bal.hold + Total * (-1) + Fee * 1
        /\ house'.pending = house.pending + Amount * 1
        /\ house'.hot = house.hot + Amount * 0 /\ house'.revenue = house.revenue + Fee * 0
    BY <1>1, <2>a DEF BookTypes, LedgerAgrees
  <2> QED BY <2>5, <2>6, <2>7, <2>8, Booked
<1>6. CASE BroadcastFailed /\ UNCHANGED <<row, bal>>
  <2>1. UNCHANGED <<house, keys>> BY <1>6 DEF BroadcastFailed
  <2>2. \A v \in Withdrawals : Kept(v) /\ (Refunded(v)' <=> Refunded(v)) BY <1>6, <2>1 DEF Kept, Refunded
  <2>3. w \in Locked' /\ w \notin Outside' /\ w \notin Settlements'
    BY <1>3, <1>6, Places DEF Undecided
  <2>4. BookTypes' BY <1>6, <2>1 DEF BookTypes
  <2>5. 0 = In(w, Locked') - In(w, Locked) /\ 0 = In(w, Outside') - In(w, Outside)
          /\ 0 = In(w, Settlements') - In(w, Settlements)
    BY <1>4, <2>3 DEF In
  <2>6. /\ bal'.avail >= 0 /\ bal'.hold = bal.hold + Total * 0 + Fee * 0
        /\ house'.pending = house.pending + Amount * 0
        /\ house'.hot = house.hot + Amount * 0 /\ house'.revenue = house.revenue + Fee * 0
    BY <1>1, <1>6, <2>1 DEF BookTypes, LedgerAgrees
  <2> QED BY <2>2, <2>4, <2>5, <2>6, Booked
<1>7. CASE BroadcastFailed /\ ~UNCHANGED <<row, bal>>
  <2>1. /\ bal' = [avail |-> bal.avail + Total, hold |-> bal.hold - Total] /\ bal.hold >= Total
        /\ UNCHANGED <<house, keys>> /\ Status(w, "failed", "broadcast")
    BY <1>2, <1>7 DEF BroadcastFailed
  <2>2. Turned(w, "failed", "broadcast") /\ \A v \in Withdrawals \ {w} : Kept(v)
    BY <2>1, TurnedRow DEF Statuses, Reasons
  <2>3. w \notin Locked' /\ w \notin Outside' /\ w \notin Settlements'
    BY <2>2, Places DEF Turned, Undecided
  <2>4. \A v \in Withdrawals \ {w} : Kept(v) /\ (Refunded(v)' <=> Refunded(v))
    BY <2>1, <2>2, OthersKept
  <2>5. BookTypes' BY <1>1, <2>1 DEF BookTypes
  <2>6. -1 = In(w, Locked') - In(w, Locked) /\ 0 = In(w, Outside') - In(w, Outside)
          /\ 0 = In(w, Settlements') - In(w, Settlements)
    BY <1>4, <2>3 DEF In
  <2>7. /\ bal'.avail >= 0 /\ bal'.hold = bal.hold + Total * (-1) + Fee * 0
        /\ house'.pending = house.pending + Amount * 0
        /\ house'.hot = house.hot + Amount * 0 /\ house'.revenue = house.revenue + Fee * 0
    <3>1. Total >= 0 BY WithdrawalAssumption DEF WithdrawalAssumption, Total
    <3> QED BY <1>1, <2>1, <3>1 DEF BookTypes, LedgerAgrees
  <2> QED BY <2>4, <2>5, <2>6, <2>7, Booked
<1> QED BY <1>5, <1>6, <1>7

\* A confirmed or displaced withdrawal leaves the way it was on.
LEMMA SettleBooks ==
  ASSUME LoopInv, BookTypes, LedgerAgrees, NEW w \in Withdrawals, Confirm(w) \/ SettleCancelled(w)
  PROVE  BookTypes' /\ LedgerAgrees'
<1>1. Total \in Int /\ Total >= 0 /\ Amount \in Int /\ Fee \in Int /\ Total = Amount + Fee
  BY WithdrawalAssumption DEF WithdrawalAssumption, Total
<1>2. row[w].st = "broadcast" /\ UNCHANGED keys BY DEF Confirm, SettleCancelled, Ready
<1>3. w \notin Locked /\ w \in Outside /\ w \notin Settlements BY <1>2, Places DEF Undecided
<1>4. CASE Confirm(w)
  <2>1. Status(w, "confirmed", "") BY <1>4 DEF Confirm
  <2>a. /\ bal' = [avail |-> bal.avail, hold |-> bal.hold - Fee]
        /\ house' = [pending |-> house.pending - Amount, hot |-> house.hot + Amount,
                     revenue |-> house.revenue + Fee, spent |-> house.spent]
    <3>1. /\ bal' = [bal EXCEPT !.hold = @ - Fee]
          /\ house' = [house EXCEPT !.pending = @ - Amount, !.hot = @ + Amount, !.revenue = @ + Fee]
      BY <1>4 DEF Confirm
    <3> QED BY <3>1 DEF BookTypes
  <2>2. Turned(w, "confirmed", "") /\ \A v \in Withdrawals \ {w} : Kept(v)
    BY <2>1, TurnedRow DEF Statuses, Reasons
  <2>3. w \notin Locked' /\ w \notin Outside' /\ w \in Settlements'
    BY <2>2, Places DEF Turned, Undecided
  <2>4. \A v \in Withdrawals \ {w} : Kept(v) /\ (Refunded(v)' <=> Refunded(v))
    BY <1>2, <2>2, OthersKept
  <2>5. BookTypes' BY <1>1, <2>a DEF BookTypes
  <2>6. 0 = In(w, Locked') - In(w, Locked) /\ -1 = In(w, Outside') - In(w, Outside)
          /\ 1 = In(w, Settlements') - In(w, Settlements)
    BY <1>3, <2>3 DEF In
  <2>7. /\ bal'.avail >= 0 /\ bal'.hold = bal.hold + Total * 0 + Fee * (-1)
        /\ house'.pending = house.pending + Amount * (-1)
        /\ house'.hot = house.hot + Amount * 1 /\ house'.revenue = house.revenue + Fee * 1
    BY <1>1, <2>a DEF BookTypes, LedgerAgrees
  <2> QED BY <2>4, <2>5, <2>6, <2>7, Booked
<1>5. CASE SettleCancelled(w)
  <2>1. /\ bal' = [avail |-> bal.avail + Total, hold |-> bal.hold - Fee] /\ Status(w, "failed", "replaced")
        /\ house' = [house EXCEPT !.pending = @ - Amount]
    BY <1>5 DEF SettleCancelled
  <2>2. Turned(w, "failed", "replaced") /\ \A v \in Withdrawals \ {w} : Kept(v)
    BY <2>1, TurnedRow DEF Statuses, Reasons
  <2>3. w \notin Locked' /\ w \notin Outside' /\ w \notin Settlements'
    BY <2>2, Places DEF Turned, Undecided
  <2>4. \A v \in Withdrawals \ {w} : Kept(v) /\ (Refunded(v)' <=> Refunded(v))
    BY <1>2, <2>2, OthersKept
  <2>5. BookTypes' BY <1>1, <2>1 DEF BookTypes
  <2>6. 0 = In(w, Locked') - In(w, Locked) /\ -1 = In(w, Outside') - In(w, Outside)
          /\ 0 = In(w, Settlements') - In(w, Settlements)
    BY <1>3, <2>3 DEF In
  <2>7. /\ bal'.avail >= 0 /\ bal'.hold = bal.hold + Total * 0 + Fee * (-1)
        /\ house'.pending = house.pending + Amount * (-1)
        /\ house'.hot = house.hot + Amount * 0 /\ house'.revenue = house.revenue + Fee * 0
    BY <1>1, <2>1 DEF BookTypes, LedgerAgrees
  <2> QED BY <2>4, <2>5, <2>6, <2>7, Booked
<1> QED BY <1>4, <1>5

\* A refund is booked once for an attempt and ends the indecision about it.
LEMMA RefundBooks ==
  ASSUME LoopInv, BookTypes, LedgerAgrees, NEW w \in Withdrawals, Refund(w)
  PROVE  BookTypes' /\ LedgerAgrees'
<1>1. Total \in Int /\ Total >= 0 /\ Amount \in Int /\ Fee \in Int /\ Total = Amount + Fee
  BY WithdrawalAssumption DEF WithdrawalAssumption, Total
<1>2. row[w].st = "failed" /\ row[w].why = "on_chain" /\ row' = row
  BY DEF Refund, Asked, Resolvable
<1>3. \A v \in Withdrawals : Kept(v) BY <1>2 DEF Kept
<1>4. CASE <<"refund", w, row[w].att>> \in keys
  <2>1. UNCHANGED <<bal, house, keys>> BY <1>4 DEF Refund, ledger
  <2>2. Locked' = Locked /\ Outside' = Outside /\ Settlements' = Settlements
    BY <1>2, <2>1 DEF Locked, Outside, Settlements, Undecided, Refunded
  <2>3. (Buckets(Cardinality(Locked), Cardinality(Outside), Cardinality(Settlements)))'
    <3>1. Buckets(Cardinality(Locked), Cardinality(Outside), Cardinality(Settlements)) BY Sums
    <3> QED BY <2>1, <2>2, <3>1 DEF Buckets
  <2>4. bal'.avail >= 0 /\ BookTypes' BY <2>1 DEF LedgerAgrees, BookTypes
  <2> QED BY <2>3, <2>4 DEF LedgerAgrees, With, Locked, Outside, Settlements, Buckets
<1>5. CASE <<"refund", w, row[w].att>> \notin keys
  <2>1. keys' = keys \cup {<<"refund", w, row[w].att>>} BY <1>5 DEF Refund
  <2>2. /\ bal' = [avail |-> bal.avail + Total, hold |-> bal.hold - Fee]
        /\ house' = [pending |-> house.pending - Amount, hot |-> house.hot,
                     revenue |-> house.revenue, spent |-> house.spent]
    <3>1. /\ bal' = [avail |-> bal.avail + Total, hold |-> bal.hold - Fee]
          /\ house' = [house EXCEPT !.pending = @ - Amount]
      BY <1>5 DEF Refund
    <3> QED BY <3>1 DEF BookTypes
  <2>3. w \notin Locked /\ w \in Outside /\ w \notin Settlements
    BY <1>2, <1>5, Places DEF Undecided, Refunded
  <2>4. w \notin Locked' /\ w \notin Outside' /\ w \notin Settlements'
    <3>1. Refunded(w)' BY <1>2, <2>1 DEF Refunded
    <3> QED BY <1>2, <3>1, Places DEF Undecided
  <2>5. \A v \in Withdrawals \ {w} : Kept(v) /\ (Refunded(v)' <=> Refunded(v))
    BY <1>3, <2>1, OthersKept
  <2>6. BookTypes' BY <1>1, <2>2 DEF BookTypes
  <2>7. 0 = In(w, Locked') - In(w, Locked) /\ -1 = In(w, Outside') - In(w, Outside)
          /\ 0 = In(w, Settlements') - In(w, Settlements)
    BY <2>3, <2>4 DEF In
  <2>8. /\ bal'.avail >= 0 /\ bal'.hold = bal.hold + Total * 0 + Fee * (-1)
        /\ house'.pending = house.pending + Amount * (-1)
        /\ house'.hot = house.hot + Amount * 0 /\ house'.revenue = house.revenue + Fee * 0
    BY <1>1, <2>2 DEF BookTypes, LedgerAgrees
  <2> QED BY <2>5, <2>6, <2>7, <2>8, Booked
<1> QED BY <1>4, <1>5

\* A retry takes the amount back on hold: the attempt's key is new, and the
\* money has not been given back.
LEMMA RetryBooks ==
  ASSUME LoopInv, KeysFollow, RetryInv, BookTypes, LedgerAgrees, NEW w \in Withdrawals, Retry(w)
  PROVE  BookTypes' /\ LedgerAgrees'
<1>0. row \in [Withdrawals -> RowType] BY DEF LoopInv, RowTypes
<1>1. Total \in Int /\ Total >= 0 /\ Amount \in Int /\ Fee \in Int /\ Total = Amount + Fee
  BY WithdrawalAssumption DEF WithdrawalAssumption, Total
<1>2. row[w].st = "failed" /\ row[w].why = "on_chain" /\ row[w].ask = "retry"
  BY DEF Retry, Asked, Resolvable
<1>3. <<"retry", w, row[w].att>> \notin keys
  <2>1. PICK a \in Nat : a = row[w].att BY <1>0 DEF RowType
  <2>2. ~(a < a) BY <2>1
  <2> QED BY <2>1, <2>2 DEF KeysFollow
<1>4. keys' = keys \cup {<<"retry", w, row[w].att>>} BY <1>3 DEF Retry
<1>5. /\ bal' = [avail |-> bal.avail, hold |-> bal.hold + Amount]
      /\ house' = [pending |-> house.pending - Amount, hot |-> house.hot,
                   revenue |-> house.revenue, spent |-> house.spent]
  <2>1. bal' = [bal EXCEPT !.hold = @ + Amount] /\ house' = [house EXCEPT !.pending = @ - Amount]
    BY <1>3 DEF Retry
  <2> QED BY <2>1 DEF BookTypes
<1>6. Retried(w) /\ \A v \in Withdrawals \ {w} : Kept(v) BY RetriedRow
<1>7. w \notin Locked /\ w \in Outside /\ w \notin Settlements
  BY <1>2, Places DEF Undecided, RetryInv
<1>8. w \in Locked' /\ w \notin Outside' /\ w \notin Settlements'
  BY <1>6, Places DEF Retried, Undecided
<1>9. \A v \in Withdrawals \ {w} : Kept(v) /\ (Refunded(v)' <=> Refunded(v))
  BY <1>4, <1>6, OthersKept
<1>10. BookTypes' BY <1>1, <1>5 DEF BookTypes
<1>11. 1 = In(w, Locked') - In(w, Locked) /\ -1 = In(w, Outside') - In(w, Outside)
         /\ 0 = In(w, Settlements') - In(w, Settlements)
  BY <1>7, <1>8 DEF In
<1>12. /\ bal'.avail >= 0 /\ bal'.hold = bal.hold + Total * 1 + Fee * (-1)
       /\ house'.pending = house.pending + Amount * (-1)
       /\ house'.hot = house.hot + Amount * 0 /\ house'.revenue = house.revenue + Fee * 0
  BY <1>1, <1>5 DEF BookTypes, LedgerAgrees
<1> QED BY <1>9, <1>10, <1>11, <1>12, Booked

\* No commit loses or makes money.
LEMMA BookStep ==
  ASSUME LoopInv, LoopInv', BookInv, "reresolve" \notin Faults, [Next]_vars
  PROVE  BookInv'
<1> USE DEF BookInv
<1>1. CASE \A w \in Withdrawals : ~Posting(w) BY <1>1, BooksQuiet, KeysStep, RetryStep
<1>2. CASE \E w \in Withdrawals : Posting(w)
  BY <1>2, LockBooks, BroadcastBooks, SettleBooks, RefundBooks, RetryBooks, KeysStep, RetryStep DEF Posting
<1> QED BY <1>1, <1>2

\* Nothing is asked for, kept or posted at first.
LEMMA BookInit == Init => BookInv
<1> SUFFICES ASSUME Init PROVE BookInv
  OBVIOUS
<1>0. Total \in Int /\ Amount \in Int /\ Fee \in Int /\ Funds \in Int /\ Funds >= 0
  BY WithdrawalAssumption DEF WithdrawalAssumption, Total
<1>1. /\ bal = [avail |-> Funds, hold |-> 0]
      /\ house = [pending |-> 0, hot |-> 0, revenue |-> 0, spent |-> 0]
  BY DEF Init
<1>2. BookTypes BY <1>0, <1>1 DEF BookTypes
<1>3. KeysFollow /\ RetryInv BY DEF Init, KeysFollow, RetryInv, Refunded
<1>4. Locked = {} /\ Outside = {} /\ Settlements = {}
  BY DEF Init, Locked, Outside, Settlements, Undecided
<1>5. Buckets(0, 0, 0) /\ bal.avail >= 0 BY <1>0, <1>1 DEF Buckets
<1>6. LedgerAgrees BY <1>4, <1>5, Sums, FS_EmptySet
<1> QED BY <1>2, <1>3, <1>6 DEF BookInv

\* Nothing is signed and no nonce is handed out at first.
LEMMA ChainInit == Init => ChainInv
<1> SUFFICES ASSUME Init PROVE ChainInv
  OBVIOUS
<1>1. NodeInv BY NodeInit
<1>2. OneNonce /\ Settled BY DEF Init, OneNonce, Settled
<1>3. Covered
  <2>1. nextNonce = 0 /\ Len(mined) = 0 BY DEF Init
  <2> QED BY <2>1 DEF Covered
<1> QED BY <1>1, <1>2, <1>3 DEF ChainInv

-----------------------------------------------------------------------------
(* The theorems.                                                           *)

\* Every step of the program, of its operators and of the chain keeps the rows,
\* the sending loop, the posting keys, the nonces and the chain together.
THEOREM WalletInvariance == Spec => [](LoopInv /\ ChainInv /\ KeysFollow)
<1>1. Init => LoopInv /\ ChainInv /\ KeysFollow
  BY LoopInit, ChainInit, BookInit DEF BookInv
<1>2. (LoopInv /\ ChainInv /\ KeysFollow) /\ [Next]_vars => (LoopInv /\ ChainInv /\ KeysFollow)'
  <2> SUFFICES ASSUME LoopInv, ChainInv, KeysFollow, [Next]_vars
               PROVE  LoopInv' /\ ChainInv' /\ KeysFollow'
    OBVIOUS
  <2> USE DEF ChainInv
  <2>1. LoopInv' BY LoopStep
  <2>2. KeysFollow' BY <2>1, KeysStep
  <2>3. NodeInv' BY NodeStep
  <2>4. OneNonce' /\ Settled' /\ Covered' BY <2>1, <2>3, OneNonceStep, SettledStep, CoveredStep
  <2> QED BY <2>1, <2>2, <2>3, <2>4
<1> QED BY <1>1, <1>2, PTL DEF Spec

\* The postings of lock, broadcast, confirmation, displacement, refund and retry
\* keep every bucket at what the rows say, over crashes and repeated requests, as
\* long as nobody asks for a retry of what was refunded.
THEOREM LedgerAlwaysAgrees == ASSUME "reresolve" \notin Faults PROVE Spec => []LedgerAgrees
<1>1. Init => BookInv BY BookInit
<1>2. LoopInv /\ LoopInv' /\ BookInv /\ [Next]_vars => BookInv' BY BookStep
<1>3. BookInv => LedgerAgrees BY DEF BookInv
<1>4. Spec => []LoopInv BY WalletInvariance, PTL
<1> QED BY <1>1, <1>2, <1>3, <1>4, PTL DEF Spec

\* The chain pays a withdrawal at most once, whatever was bumped, retried,
\* recycled or signed again: two payments of one withdrawal would both have the
\* nonce its row names.
THEOREM PaidAtMostOnce == Spec => []PaidOnce
<1>1. LoopInv /\ ChainInv => PaidOnce
  <2> SUFFICES ASSUME LoopInv, NodeInv, OneNonce, NEW i \in 1..Len(mined), NEW j \in 1..Len(mined),
                      mined[i].ok, mined[j].ok, mined[i].tx.w = mined[j].tx.w, mined[i].tx.w # "fill"
               PROVE  i = j
    BY DEF ChainInv, PaidOnce, NodeInv
  <2>1. mined[i].tx \in log /\ mined[i].tx.nonce = i - 1 /\ mined[j].tx \in log /\ mined[j].tx.nonce = j - 1
    BY DEF NodeInv
  <2>2. PICK w \in Withdrawals : w = mined[i].tx.w BY <2>1 DEF NodeInv
  <2>3. ~Dead(w, i - 1) /\ ~Dead(w, j - 1)
    <3>1. (i - 1) + 1 = i /\ (j - 1) + 1 = j OBVIOUS
    <3> QED BY <2>2, <3>1 DEF Dead
  <2>4. i - 1 = row[w].nonce /\ j - 1 = row[w].nonce BY <2>1, <2>2, <2>3 DEF OneNonce
  <2>5. i \in Int /\ j \in Int /\ i - 1 = j - 1 BY <2>4
  <2> QED BY <2>5
<1> QED BY <1>1, WalletInvariance, PTL

\* confirm waits for the confirmations, so no reorganisation takes a confirmed
\* withdrawal back.
THEOREM ConfirmedStaysPaid == Spec => []ConfirmedIsPaid
<1>1. ChainInv => ConfirmedIsPaid BY DEF ChainInv, Settled, ConfirmedIsPaid
<1> QED BY <1>1, WalletInvariance, PTL

\* Whatever fails, is recycled, displaced or filled, the sending loop leaves no
\* nonce behind that nobody will take.
THEOREM NonceHasATaker == Spec => []NoAbandonedNonce
<1>1. ChainInv => NoAbandonedNonce
  BY DEF ChainInv, Covered, NoAbandonedNonce, Idle
<1> QED BY <1>1, WalletInvariance, PTL

\* A displacement or a refund gives money back only when no transaction of the
\* withdrawal can pay any more: the nonce its row names is settled without
\* paying, and the others it ever had were settled before.
THEOREM ReturnedOnlyWhenOver == Spec => []ReturnedIsOver
<1>1. LoopInv /\ ChainInv /\ KeysFollow => ReturnedIsOver
  <2> SUFFICES ASSUME LoopInv, NodeInv, OneNonce, Settled, KeysFollow, NEW w \in Withdrawals, Returned(w)
               PROVE  /\ \A i \in DOMAIN mined : mined[i].tx.w = w => ~mined[i].ok /\ i =< deep
                      /\ \A tx \in mempool : tx.w = w => tx.nonce < deep
    BY DEF ChainInv, ReturnedIsOver
  <2>0. row[w] \in RowType BY DEF LoopInv, RowTypes
  <2>1. row[w].st = "failed" /\ row[w].why \in {"on_chain", "replaced"}
    <3>1. Refunded(w) => row[w].why = "on_chain"
      <4>1. row[w].att \in Nat BY <2>0 DEF RowType
      <4> QED BY <4>1 DEF Refunded, KeysFollow
    <3> QED BY <3>1 DEF Returned
  <2>2. PICK k \in 1..deep : mined[k].tx = FillTx(row[w].nonce) \/ (mined[k].tx = row[w].tx /\ ~mined[k].ok)
    BY <2>1 DEF Settled
  <2>3. row[w].nonce \in Nat /\ row[w].tx.nonce = row[w].nonce
    BY <2>1 DEF LoopInv, RowTx, Sent
  <2>4. k \in Nat /\ k \in 1..Len(mined) /\ deep \in Nat /\ deep =< Len(mined) /\ Len(mined) \in Nat BY DEF NodeInv
  <2>5. mined[k].tx.nonce = k - 1 BY <2>4 DEF NodeInv
  <2>6. row[w].nonce = k - 1
    <3>1. FillTx(row[w].nonce).nonce = row[w].nonce BY DEF FillTx, Tx
    <3> QED BY <2>2, <2>3, <2>5, <3>1
  <2>7. Dead(w, row[w].nonce)
    <3>1. FillTx(row[w].nonce).w = "fill" /\ w # "fill"
      BY WithdrawalAssumption DEF WithdrawalAssumption, FillTx, Tx
    <3>2. (k - 1) + 1 = k /\ k - 1 < deep BY <2>4
    <3>3. ~(mined[k].tx.w = w /\ mined[k].ok) BY <2>2, <3>1
    <3> QED BY <2>3, <2>6, <3>2, <3>3 DEF Dead
  <2>8. \A tx \in log : tx.w = w => Dead(w, tx.nonce) BY <2>7 DEF OneNonce
  <2>9. ASSUME NEW i \in DOMAIN mined, mined[i].tx.w = w PROVE ~mined[i].ok /\ i =< deep
    <3>1. i \in 1..Len(mined) /\ i \in Nat BY DEF NodeInv
    <3>2. mined[i].tx \in log /\ mined[i].tx.nonce = i - 1 BY <3>1 DEF NodeInv
    <3>3. Dead(w, i - 1) BY <2>8, <2>9, <3>2
    <3>4. (i - 1) + 1 = i BY <3>1
    <3>5. i - 1 < deep /\ ~mined[i].ok BY <2>9, <3>3, <3>4 DEF Dead
    <3> QED BY <2>4, <3>1, <3>5
  <2>10. ASSUME NEW tx \in mempool, tx.w = w PROVE tx.nonce < deep
    BY <2>8, <2>10 DEF NodeInv, Dead
  <2> QED BY <2>9, <2>10
<1> QED BY <1>1, WalletInvariance, PTL

================================================================================
