--------------------------- MODULE PlayerCodesProofs ---------------------------
(***************************************************************************)
(* Proofs about PlayerCodes: for any number of transactions, categories    *)
(* and applications, and with counters missing at the start or not, a code *)
(* under allocation is new and the allocation ends within its two rounds.  *)
(***************************************************************************)
EXTENDS PlayerCodes, TLAPS

Covers(c, m) == \A n \in 1 .. MaxNumber : <<c, n>> \in Live => n <= m

\* A counter row is at or above the codes in use; its holder has either just
\* seeded it or allocated from it.
RowInv(c) ==
    /\ counter[c] # Missing => Covers(c, counter[c])
    /\ holder[c] # NoTx =>
          /\ tx[holder[c]].cat = c
          /\ \/ /\ tx[holder[c]].pc = "update"
                /\ counter[c] = Missing
                /\ Covers(c, draft[c])
             \/ /\ tx[holder[c]].pc = "allocated"
                /\ tx[holder[c]].number = draft[c]
                /\ draft[c] > counter[c] /\ draft[c] > 0
                /\ Covers(c, draft[c] - 1)

\* Where a transaction is in its loop.  What it scanned is good as long as the
\* counter is missing, and the counter is there in the second round.
JobInv(t) ==
    /\ tx[t].pc = "allocated" => holder[tx[t].cat] = t
    /\ tx[t].pc = "scanned" =>
          /\ tx[t].round = 1
          /\ holder[tx[t].cat] # t
          /\ counter[tx[t].cat] = Missing => Covers(tx[t].cat, tx[t].number)
    /\ tx[t].pc = "update" =>
          \/ tx[t].round = 1 /\ holder[tx[t].cat] # t
          \/ tx[t].round = 2 /\ (holder[tx[t].cat] = t \/ counter[tx[t].cat] # Missing)
    /\ tx[t].pc # "failed"

CodesInv ==
    /\ TypeOK
    /\ \A c \in Categories : RowInv(c)
    /\ \A t \in Txs : JobInv(t)

-----------------------------------------------------------------------------
LEMMA CodeType == NoCode \notin Codes
BY DEF NoCode, Codes

LEMMA TxType ==
    ASSUME TypeOK, NEW t \in Txs
    PROVE  /\ tx[t].pc \in {"idle", "update", "scanned", "allocated", "failed"}
           /\ tx[t].cat \in Categories /\ tx[t].round \in 0 .. 3
           /\ tx[t].number \in 0 .. MaxNumber /\ tx[t].app \in Apps \cup {NoApp}
BY DEF TypeOK

LEMMA RestingType ==
    /\ Resting.pc = "idle" /\ Resting.cat \in Categories /\ Resting.round = 0
    /\ Resting.number = 0 /\ Resting.app = NoApp
    /\ Resting \in [pc : {"idle", "update", "scanned", "allocated", "failed"},
                    cat : Categories, round : 0 .. 3, number : 0 .. MaxNumber,
                    app : Apps \cup {NoApp}]
BY CodeAssumption DEF Resting

\* Two transactions are never both past the allocation in one category, and
\* what the one has is above every code in use.
LEMMA FreshCodes == CodesInv => CodesAreFresh
<1> SUFFICES ASSUME CodesInv, NEW t \in Txs, tx[t].pc = "allocated"
             PROVE  /\ <<tx[t].cat, tx[t].number>> \notin Live
                    /\ \A s \in Txs \ {t} : tx[s].pc = "allocated" =>
                          <<tx[t].cat, tx[t].number>> # <<tx[s].cat, tx[s].number>>
    BY DEF CodesAreFresh
<1> DEFINE c == tx[t].cat
<1>1. c \in Categories /\ tx[t].number \in 0 .. MaxNumber
    BY TxType DEF CodesInv
<1>2. holder[c] = t /\ t # NoTx
    BY CodeAssumption DEF CodesInv, JobInv
<1>3. tx[t].number = draft[c] /\ draft[c] > 0 /\ Covers(c, draft[c] - 1)
    BY <1>1, <1>2 DEF CodesInv, RowInv
<1>4. <<c, tx[t].number>> \notin Live
    BY <1>1, <1>3, CodeAssumption DEF Covers
<1>5. ASSUME NEW s \in Txs \ {t}, tx[s].pc = "allocated" PROVE tx[s].cat # c
    BY <1>2, <1>5 DEF CodesInv, JobInv
<1> QED BY <1>4, <1>5

-----------------------------------------------------------------------------
LEMMA CodesStart == Init => CodesInv
<1> SUFFICES ASSUME Init PROVE CodesInv
    OBVIOUS
<1>1. TypeOK
  <2>1. code \in [Apps -> Codes \cup {NoCode}]
      BY CodeAssumption DEF Init, Codes
  <2>2. counter \in [Categories -> {Missing} \cup 0 .. MaxNumber]
      BY CodeAssumption DEF Init, Missing
  <2> QED BY <2>1, <2>2, RestingType, CodeAssumption DEF Init, TypeOK
<1>2. ASSUME NEW c \in Categories PROVE RowInv(c)
    BY DEF Init, RowInv, Covers
<1>3. ASSUME NEW t \in Txs PROVE JobInv(t)
    BY RestingType DEF Init, JobInv
<1> QED BY <1>1, <1>2, <1>3 DEF CodesInv

\* What the applications have decides what a number covers.
LEMMA CoversShrink ==
    ASSUME NEW c, NEW m, Live' \subseteq Live, Covers(c, m)
    PROVE  Covers(c, m)'
BY DEF Covers

LEMMA LiveSame == UNCHANGED <<stored, code>> => Live' = Live
BY DEF Live

\* A step of t that touches neither counters nor applications keeps the rows
\* when t holds none, and the jobs of the others.
LEMMA OwnStep ==
    ASSUME CodesInv, NEW t \in Txs, UNCHANGED <<counter, holder, draft, stored, code, retired>>,
           \A c \in Categories : holder[c] # t,
           NEW j \in [pc : {"idle", "update", "scanned", "allocated", "failed"},
                      cat : Categories, round : 0 .. 3, number : 0 .. MaxNumber,
                      app : Apps \cup {NoApp}],
           tx' = [tx EXCEPT ![t] = j], JobInv(t)'
    PROVE  CodesInv'
<1>1. TypeOK'
    BY DEF CodesInv, TypeOK
<1>2. ASSUME NEW c \in Categories PROVE RowInv(c)'
  <2>1. holder[c] # NoTx => holder[c] \in Txs \ {t}
      BY DEF CodesInv, TypeOK
  <2>2. holder[c] # NoTx => tx'[holder[c]] = tx[holder[c]]
      BY <2>1 DEF CodesInv, TypeOK
  <2> QED BY <2>2, LiveSame, CoversShrink DEF CodesInv, RowInv, Covers
<1>3. ASSUME NEW s \in Txs, s # t PROVE JobInv(s)'
  <2>1. tx'[s] = tx[s]
      BY <1>3 DEF CodesInv, TypeOK
  <2> QED BY <2>1, LiveSame DEF CodesInv, JobInv, Covers
<1> QED BY <1>1, <1>2, <1>3 DEF CodesInv

\* The holder of a row is past the update of that row, or has seeded it.
LEMMA HoldsNothing ==
    ASSUME CodesInv, NEW t \in Txs, NEW c \in Categories,
           tx[t].pc \in {"idle", "scanned"} \/ (tx[t].pc = "update" /\ holder[tx[t].cat] # t)
    PROVE  holder[c] # t
BY CodeAssumption DEF CodesInv, RowInv, JobInv

LEMMA BeginKeeps ==
    ASSUME CodesInv, NEW t \in Txs, NEW c \in Categories,
           BeginSubmit(t, c) \/ \E a \in Apps : BeginEdit(t, c, a)
    PROVE  CodesInv'
<1>0. /\ tx[t].pc = "idle"
      /\ UNCHANGED <<counter, holder, draft, stored, code, retired>>
    BY DEF BeginSubmit, BeginEdit
<1>1. PICK b \in Apps \cup {NoApp} : tx' = [tx EXCEPT ![t] = First(c, b)]
    BY DEF BeginSubmit, BeginEdit
<1> DEFINE j == First(c, b)
<1>2. /\ j \in [pc : {"idle", "update", "scanned", "allocated", "failed"},
                cat : Categories, round : 0 .. 3, number : 0 .. MaxNumber,
                app : Apps \cup {NoApp}]
      /\ j.pc = "update" /\ j.cat = c /\ j.round = 1
    BY CodeAssumption DEF First
<1>3. \A k \in Categories : holder[k] # t
    BY <1>0, HoldsNothing
<1>4. tx' = [tx EXCEPT ![t] = j] /\ tx'[t] = j
    BY <1>1 DEF CodesInv, TypeOK
<1> HIDE DEF j
<1>5. JobInv(t)'
    BY <1>0, <1>2, <1>3, <1>4 DEF JobInv
<1> QED BY <1>0, <1>2, <1>3, <1>4, <1>5, OwnStep

LEMMA ScanKeeps ==
    ASSUME CodesInv, NEW t \in Txs, Scan(t)
    PROVE  CodesInv'
<1>0. PICK c \in Categories : c = tx[t].cat
    BY TxType DEF CodesInv
<1>1. PICK m \in 0 .. MaxNumber :
        Highest(c, m) /\ tx' = [tx EXCEPT ![t].pc = "scanned", ![t].number = m]
    BY <1>0 DEF Scan
<1>2. /\ tx[t].pc = "update" /\ Seen(t, c) = Missing
      /\ UNCHANGED <<counter, holder, draft, stored, code, retired>>
    BY <1>0 DEF Scan
<1>3. tx[t].round = 1 /\ holder[c] # t
    BY <1>0, <1>2 DEF CodesInv, JobInv, Seen, TypeOK, Missing
<1> DEFINE j == [tx[t] EXCEPT !.pc = "scanned", !.number = m]
<1>4. /\ j \in [pc : {"idle", "update", "scanned", "allocated", "failed"},
                cat : Categories, round : 0 .. 3, number : 0 .. MaxNumber,
                app : Apps \cup {NoApp}]
      /\ j.pc = "scanned" /\ j.cat = c /\ j.round = 1 /\ j.number = m
    BY <1>0, <1>3 DEF CodesInv, TypeOK
<1>5. tx' = [tx EXCEPT ![t] = j] /\ tx'[t] = j
    BY <1>0, <1>1 DEF CodesInv, TypeOK
<1> HIDE DEF j
<1>6. Covers(c, m)'
    BY <1>1, <1>2, LiveSame DEF Highest, Covers
<1>7. JobInv(t)'
    BY <1>2, <1>3, <1>4, <1>5, <1>6 DEF JobInv
<1>8. \A k \in Categories : holder[k] # t
    BY <1>0, <1>2, <1>3, HoldsNothing
<1> QED BY <1>2, <1>4, <1>5, <1>7, <1>8, OwnStep

LEMMA SeedLostKeeps ==
    ASSUME CodesInv, NEW t \in Txs, SeedLost(t)
    PROVE  CodesInv'
<1>0. PICK c \in Categories : c = tx[t].cat
    BY TxType DEF CodesInv
<1>1. /\ tx[t].pc = "scanned" /\ counter[c] # Missing
      /\ UNCHANGED <<counter, holder, draft, stored, code, retired>>
    BY <1>0 DEF SeedLost
<1>2. tx[t].round = 1
    BY <1>1 DEF CodesInv, JobInv
<1> DEFINE j == [tx[t] EXCEPT !.pc = "update", !.round = 2]
<1>3. /\ j \in [pc : {"idle", "update", "scanned", "allocated", "failed"},
                cat : Categories, round : 0 .. 3, number : 0 .. MaxNumber,
                app : Apps \cup {NoApp}]
      /\ j.pc = "update" /\ j.cat = c /\ j.round = 2
  <2>1. tx[t] \in [pc : {"idle", "update", "scanned", "allocated", "failed"},
                    cat : Categories, round : 0 .. 3, number : 0 .. MaxNumber,
                    app : Apps \cup {NoApp}]
      BY DEF CodesInv, TypeOK
  <2>2. 2 \in 0 .. 3
      OBVIOUS
  <2> QED BY <1>0, <2>1, <2>2
<1>4. tx' = [tx EXCEPT ![t] = j] /\ tx'[t] = j
    BY <1>1, <1>2 DEF CodesInv, TypeOK, SeedLost, Again
<1> HIDE DEF j
<1>5. JobInv(t)'
    BY <1>1, <1>3, <1>4 DEF JobInv
<1>6. \A k \in Categories : holder[k] # t
    BY <1>1, HoldsNothing
<1> QED BY <1>1, <1>3, <1>4, <1>5, <1>6, OwnStep

-----------------------------------------------------------------------------
\* Taking a row, or writing it once more, by t in its own category.
LEMMA RowStep ==
    ASSUME CodesInv, NEW t \in Txs, NEW c \in Categories, c = tx[t].cat,
           UNCHANGED <<counter, stored, code, retired>>,
           holder[c] \in {NoTx, t}, \A k \in Categories \ {c} : holder[k] # t,
           holder' = [holder EXCEPT ![c] = t],
           NEW n \in 0 .. MaxNumber, draft' = [draft EXCEPT ![c] = n],
           NEW j \in [pc : {"idle", "update", "scanned", "allocated", "failed"},
                      cat : Categories, round : 0 .. 3, number : 0 .. MaxNumber,
                      app : Apps \cup {NoApp}],
           tx' = [tx EXCEPT ![t] = j], JobInv(t)', RowInv(c)'
    PROVE  CodesInv'
<1>1. TypeOK'
    BY DEF CodesInv, TypeOK
<1>2. ASSUME NEW k \in Categories, k # c PROVE RowInv(k)'
  <2>1. holder'[k] = holder[k] /\ draft'[k] = draft[k] /\ counter'[k] = counter[k]
      BY <1>2 DEF CodesInv, TypeOK
  <2>2. holder[k] # NoTx => holder[k] \in Txs \ {t}
      BY <1>2 DEF CodesInv, TypeOK
  <2>3. holder[k] # NoTx => tx'[holder[k]] = tx[holder[k]]
      BY <2>2 DEF CodesInv, TypeOK
  <2> QED BY <2>1, <2>3, LiveSame DEF CodesInv, RowInv, Covers
<1>3. ASSUME NEW s \in Txs, s # t PROVE JobInv(s)'
  <2>1. tx'[s] = tx[s] /\ tx[s].cat \in Categories
      BY <1>3, TxType DEF CodesInv, TypeOK
  <2>2. holder'[tx[s].cat] = s <=> holder[tx[s].cat] = s
      BY <1>3, <2>1, CodeAssumption DEF CodesInv, TypeOK
  <2> QED BY <2>1, <2>2, LiveSame DEF CodesInv, JobInv, Covers
<1> QED BY <1>1, <1>2, <1>3 DEF CodesInv

LEMMA UpdateKeeps ==
    ASSUME CodesInv, NEW t \in Txs, Update(t)
    PROVE  CodesInv'
<1>0. PICK c \in Categories : c = tx[t].cat
    BY TxType DEF CodesInv
<1>1. PICK n : n = Seen(t, c)
    OBVIOUS
<1>2. /\ tx[t].pc = "update" /\ n # Missing /\ n < MaxNumber
      /\ holder[c] \in {NoTx, t}
      /\ draft' = [draft EXCEPT ![c] = n + 1] /\ holder' = [holder EXCEPT ![c] = t]
      /\ tx' = [tx EXCEPT ![t].pc = "allocated", ![t].number = n + 1]
      /\ UNCHANGED <<counter, stored, code, retired>>
    BY <1>0, <1>1 DEF Update, Free
<1>3. n \in 0 .. MaxNumber /\ n + 1 \in 0 .. MaxNumber
    BY <1>0, <1>1, <1>2, CodeAssumption DEF Seen, CodesInv, TypeOK, Missing
<1>4. Covers(c, n) /\ n >= counter[c]
  <2>1. CASE holder[c] = t
      BY <1>0, <1>1, <1>2, <1>3, <2>1, CodeAssumption
      DEF Seen, CodesInv, RowInv, Missing
  <2>2. CASE holder[c] # t
      BY <1>0, <1>1, <1>2, <1>3, <2>2 DEF Seen, CodesInv, RowInv
  <2> QED BY <2>1, <2>2
<1>5. \A k \in Categories \ {c} : holder[k] # t
    BY <1>0, CodeAssumption DEF CodesInv, RowInv
<1> DEFINE j == [tx[t] EXCEPT !.pc = "allocated", !.number = n + 1]
<1>6. /\ j \in [pc : {"idle", "update", "scanned", "allocated", "failed"},
                cat : Categories, round : 0 .. 3, number : 0 .. MaxNumber,
                app : Apps \cup {NoApp}]
      /\ j.pc = "allocated" /\ j.cat = c /\ j.number = n + 1
    BY <1>0, <1>3 DEF CodesInv, TypeOK
<1>7. tx' = [tx EXCEPT ![t] = j] /\ tx'[t] = j
    BY <1>2 DEF CodesInv, TypeOK
<1> HIDE DEF j
<1>8. holder'[c] = t /\ draft'[c] = n + 1 /\ counter'[c] = counter[c]
    BY <1>2 DEF CodesInv, TypeOK
<1>9. JobInv(t)'
    BY <1>6, <1>7, <1>8 DEF JobInv
<1>10. Covers(c, n)'
    BY <1>2, <1>4, LiveSame DEF Covers
<1>11. counter'[c] # Missing => Covers(c, counter[c])'
    BY <1>2, LiveSame DEF CodesInv, RowInv, Covers
<1>12. counter[c] \in {Missing} \cup 0 .. MaxNumber
    BY DEF CodesInv, TypeOK
<1>13. /\ n + 1 > counter[c] /\ n + 1 > 0 /\ (n + 1) - 1 = n
    BY <1>3, <1>4, <1>12 DEF Missing
<1>14. RowInv(c)'
    BY <1>2, <1>6, <1>7, <1>8, <1>10, <1>11, <1>13 DEF RowInv
<1> QED BY <1>0, <1>2, <1>3, <1>5, <1>6, <1>7, <1>9, <1>14, RowStep

LEMMA SeedKeeps ==
    ASSUME CodesInv, NEW t \in Txs, Seed(t)
    PROVE  CodesInv'
<1>0. PICK c \in Categories : c = tx[t].cat
    BY TxType DEF CodesInv
<1>1. PICK n \in 0 .. MaxNumber : n = tx[t].number
    BY TxType DEF CodesInv
<1>2. /\ tx[t].pc = "scanned" /\ holder[c] = NoTx /\ counter[c] = Missing
      /\ draft' = [draft EXCEPT ![c] = n] /\ holder' = [holder EXCEPT ![c] = t]
      /\ UNCHANGED <<counter, stored, code, retired>>
    BY <1>0, <1>1 DEF Seed
<1>3. tx[t].round = 1 /\ Covers(c, n)
    BY <1>0, <1>1, <1>2 DEF CodesInv, JobInv
<1>4. \A k \in Categories : holder[k] # t
    BY <1>2, HoldsNothing
<1> DEFINE j == [tx[t] EXCEPT !.pc = "update", !.round = 2]
<1>5. /\ j \in [pc : {"idle", "update", "scanned", "allocated", "failed"},
                cat : Categories, round : 0 .. 3, number : 0 .. MaxNumber,
                app : Apps \cup {NoApp}]
      /\ j.pc = "update" /\ j.cat = c /\ j.round = 2
  <2>1. tx[t] \in [pc : {"idle", "update", "scanned", "allocated", "failed"},
                    cat : Categories, round : 0 .. 3, number : 0 .. MaxNumber,
                    app : Apps \cup {NoApp}]
      BY DEF CodesInv, TypeOK
  <2>2. 2 \in 0 .. 3
      OBVIOUS
  <2> QED BY <1>0, <2>1, <2>2
<1>6. tx' = [tx EXCEPT ![t] = j] /\ tx'[t] = j
    BY <1>2, <1>3 DEF CodesInv, TypeOK, Seed, Again
<1> HIDE DEF j
<1>7. holder'[c] = t /\ draft'[c] = n /\ counter'[c] = Missing
    BY <1>2 DEF CodesInv, TypeOK
<1>8. JobInv(t)'
    BY <1>5, <1>6, <1>7 DEF JobInv
<1>9. Covers(c, n)'
    BY <1>2, <1>3, LiveSame DEF Covers
<1>10. RowInv(c)'
    BY <1>5, <1>6, <1>7, <1>9 DEF RowInv
<1> QED BY <1>0, <1>2, <1>4, <1>5, <1>6, <1>8, <1>10, RowStep

-----------------------------------------------------------------------------
\* The end of a transaction: its rows are free, the jobs of the others as before.
LEMMA ReleaseKeeps ==
    ASSUME CodesInv, NEW t \in Txs, Released(t),
           counter' \in [Categories -> {Missing} \cup 0 .. MaxNumber],
           \A c \in Categories : counter'[c] = Missing => counter[c] = Missing,
           \A c \in Categories : holder[c] # t => counter'[c] = counter[c],
           \A c \in Categories : counter'[c] # Missing => Covers(c, counter[c])',
           \A c \in Categories, n \in 1 .. MaxNumber :
              (holder[c] # t \/ counter'[c] = Missing) /\ <<c, n>> \in Live' => <<c, n>> \in Live,
           stored' \subseteq Apps, code' \in [Apps -> Codes \cup {NoCode}],
           retired' \subseteq Codes
    PROVE  CodesInv'
<1>1. TypeOK'
    BY RestingType, CodeAssumption DEF CodesInv, TypeOK, Released
<1>2. tx'[t] = Resting /\ \A s \in Txs \ {t} : tx'[s] = tx[s]
    BY DEF Released, CodesInv, TypeOK
<1>3. ASSUME NEW c \in Categories PROVE RowInv(c)'
  <2>1. CASE holder[c] = t
      BY <2>1 DEF Released, RowInv
  <2>2. CASE holder[c] # t
    <3>1. holder'[c] = holder[c] /\ draft'[c] = draft[c] /\ counter'[c] = counter[c]
        BY <2>2 DEF Released
    <3>2. holder[c] # NoTx => tx'[holder[c]] = tx[holder[c]]
        BY <1>2, <2>2 DEF CodesInv, TypeOK
    <3>3. ASSUME NEW m \in Int, Covers(c, m) PROVE Covers(c, m)'
        BY <2>2, <3>3 DEF Covers
    <3>4. draft[c] \in Int /\ draft[c] - 1 \in Int
        BY DEF CodesInv, TypeOK
    <3>5. holder[c] # NoTx => RowInv(c)'
        BY <3>1, <3>2, <3>3, <3>4 DEF CodesInv, RowInv
    <3> QED BY <3>1, <3>5 DEF RowInv
  <2> QED BY <2>1, <2>2
<1>4. ASSUME NEW s \in Txs, s # t PROVE JobInv(s)'
  <2>0. PICK c \in Categories : c = tx[s].cat
      BY TxType DEF CodesInv
  <2>1. tx'[s] = tx[s] /\ (holder'[c] = s <=> holder[c] = s)
      BY <1>2, <1>4, CodeAssumption DEF Released
  <2>2. PICK m \in 0 .. MaxNumber : m = tx[s].number
      BY TxType DEF CodesInv
  <2>3. tx[s].pc = "scanned" /\ counter'[c] = Missing => Covers(c, m)'
      BY <2>0, <2>2 DEF CodesInv, JobInv, Covers
  <2> QED BY <2>0, <2>1, <2>2, <2>3 DEF CodesInv, JobInv
<1>5. JobInv(t)'
    BY <1>2, RestingType DEF JobInv
<1> QED BY <1>1, <1>3, <1>4, <1>5 DEF CodesInv

LEMMA RollbackKeeps ==
    ASSUME CodesInv, NEW t \in Txs, Rollback(t)
    PROVE  CodesInv'
<1>1. Released(t) /\ UNCHANGED <<counter, stored, code, retired>> /\ Live' = Live
    BY LiveSame DEF Rollback
<1>2. \A c \in Categories : counter'[c] # Missing => Covers(c, counter[c])'
    BY <1>1 DEF CodesInv, RowInv, Covers
<1> QED BY <1>1, <1>2, ReleaseKeeps DEF CodesInv, TypeOK

\* What an application loses and gains.
LEMMA RetireType ==
    ASSUME TypeOK, NEW a \in Apps, Retire(a)
    PROVE  retired' \subseteq Codes
BY DEF TypeOK, Retire

LEMMA WrittenType ==
    ASSUME CodesInv, NEW t \in Txs, tx[t].pc = "allocated", Written(t)
    PROVE  /\ stored' \subseteq Apps /\ code' \in [Apps -> Codes \cup {NoCode}]
           /\ retired' \subseteq Codes
           /\ Live' \subseteq Live \cup {<<tx[t].cat, tx[t].number>>}
<1>0. PICK c \in Categories : c = tx[t].cat
    BY TxType DEF CodesInv
<1>1. PICK n \in 1 .. MaxNumber : n = tx[t].number
  <2>1. holder[c] = t /\ t # NoTx
      BY <1>0, CodeAssumption DEF CodesInv, JobInv
  <2> QED BY <1>0, <2>1, TxType DEF CodesInv, RowInv
<1>2. <<c, n>> \in Codes
    BY DEF Codes
<1>3. CASE tx[t].app = NoApp
  <2>1. PICK a \in Apps \ stored :
          /\ stored' = stored \cup {a} /\ code' = [code EXCEPT ![a] = <<c, n>>]
          /\ UNCHANGED retired
      BY <1>0, <1>1, <1>3 DEF Written
  <2> QED BY <1>0, <1>1, <1>2, <2>1 DEF CodesInv, TypeOK, Live
<1>4. CASE tx[t].app # NoApp
  <2>1. PICK a \in Apps : a = tx[t].app
      BY <1>4, TxType DEF CodesInv
  <2>2. /\ a \in stored /\ code' = [code EXCEPT ![a] = <<c, n>>]
        /\ Retire(a) /\ UNCHANGED stored
      BY <1>0, <1>1, <1>4, <2>1 DEF Written
  <2> QED BY <1>0, <1>1, <1>2, <2>2, RetireType DEF CodesInv, TypeOK, Live
<1> QED BY <1>3, <1>4

LEMMA CommitKeeps ==
    ASSUME CodesInv, NEW t \in Txs, Commit(t)
    PROVE  CodesInv'
<1>0. PICK c \in Categories : c = tx[t].cat
    BY TxType DEF CodesInv
<1>1. /\ tx[t].pc = "allocated" /\ Written(t) /\ Released(t)
      /\ counter' = [k \in Categories |-> IF holder[k] = t THEN draft[k] ELSE counter[k]]
    BY DEF Commit
<1>2. holder[c] = t /\ t # NoTx
    BY <1>0, <1>1, CodeAssumption DEF CodesInv, JobInv
<1>3. \A k \in Categories \ {c} : holder[k] # t
    BY <1>0, <1>2 DEF CodesInv, RowInv
<1>4. PICK n \in 1 .. MaxNumber : n = tx[t].number /\ n = draft[c] /\ Covers(c, n - 1)
    BY <1>0, <1>1, <1>2, TxType DEF CodesInv, RowInv
<1>5. counter'[c] = n /\ \A k \in Categories \ {c} : counter'[k] = counter[k]
    BY <1>1, <1>2, <1>3, <1>4
<1>6. counter' \in [Categories -> {Missing} \cup 0 .. MaxNumber]
    BY <1>1 DEF CodesInv, TypeOK
<1>7. Live' \subseteq Live \cup {<<c, n>>}
    BY <1>0, <1>1, <1>4, WrittenType
<1>8. \A k \in Categories \ {c}, m \in 1 .. MaxNumber : <<k, m>> \in Live' => <<k, m>> \in Live
    BY <1>7
<1>9. Covers(c, n)'
  <2>1. SUFFICES ASSUME NEW m \in 1 .. MaxNumber, <<c, m>> \in Live' PROVE m <= n
      BY DEF Covers
  <2>2. <<c, m>> \in Live \/ m = n
      BY <1>7, <2>1
  <2> QED BY <1>4, <2>2, CodeAssumption DEF Covers
<1>10. ASSUME NEW k \in Categories, counter'[k] # Missing PROVE Covers(k, counter[k])'
  <2>1. CASE k = c
      BY <1>5, <1>9, <2>1
  <2>2. CASE k # c
      BY <1>5, <1>8, <1>10, <2>2 DEF Covers, CodesInv, RowInv
  <2> QED BY <2>1, <2>2
<1>11. n # Missing
    BY DEF Missing
<1> QED BY <1>1, <1>2, <1>3, <1>5, <1>6, <1>8, <1>10, <1>11, WrittenType, ReleaseKeeps

LEMMA EraseKeeps ==
    ASSUME CodesInv, NEW a \in Apps, Erase(a)
    PROVE  CodesInv'
<1>1. /\ a \in stored /\ stored' = stored \ {a} /\ code' = [code EXCEPT ![a] = NoCode]
      /\ Retire(a) /\ UNCHANGED <<counter, holder, draft, tx>>
    BY DEF Erase
<1>2. TypeOK'
    BY <1>1, RetireType DEF CodesInv, TypeOK
<1>3. Live' \subseteq Live
    BY <1>1 DEF Live, CodesInv, TypeOK
<1>4. ASSUME NEW c \in Categories PROVE RowInv(c)'
    BY <1>1, <1>3 DEF CodesInv, RowInv, Covers
<1>5. ASSUME NEW t \in Txs PROVE JobInv(t)'
    BY <1>1, <1>3 DEF CodesInv, JobInv, Covers
<1> QED BY <1>2, <1>4, <1>5 DEF CodesInv

-----------------------------------------------------------------------------
LEMMA CodesStep == CodesInv /\ [Next]_vars => CodesInv'
<1> SUFFICES ASSUME CodesInv, [Next]_vars PROVE CodesInv'
    OBVIOUS
<1>1. CASE UNCHANGED vars
    BY <1>1 DEF vars, CodesInv, TypeOK, RowInv, JobInv, Covers, Live, Codes
<1>2. ASSUME NEW t \in Txs, NEW c \in Categories,
             BeginSubmit(t, c) \/ \E a \in Apps : BeginEdit(t, c, a)
      PROVE  CodesInv'
    BY <1>2, BeginKeeps
<1>3. ASSUME NEW t \in Txs, Continue(t) PROVE CodesInv'
    BY <1>3, UpdateKeeps, ScanKeeps, SeedLostKeeps, SeedKeeps, CommitKeeps DEF Continue
<1>4. ASSUME NEW t \in Txs, Rollback(t) PROVE CodesInv'
    BY <1>4, RollbackKeeps
<1>5. ASSUME NEW a \in Apps, Erase(a) PROVE CodesInv'
    BY <1>5, EraseKeeps
<1> QED BY <1>1, <1>2, <1>3, <1>4, <1>5 DEF Next

LEMMA CodesAlways == Spec => []CodesInv
BY CodesStart, CodesStep, PTL DEF Spec

\* Every variable keeps its type: a counter is never written with the NULL of
\* an empty block.
THEOREM CodesTypeCorrect == Spec => []TypeOK
<1>1. CodesInv => TypeOK
    BY DEF CodesInv
<1> QED BY <1>1, CodesAlways, PTL

\* The UNIQUE index on player_code has nothing to refuse: a code under
\* allocation is on no application and with no other transaction.
THEOREM FreshAlways == Spec => []CodesAreFresh
BY FreshCodes, CodesAlways, PTL

\* The loop of _next_player_code never falls through to its RuntimeError.
THEOREM TwoRoundsSuffice == Spec => []AllocationSucceeds
<1>1. CodesInv => AllocationSucceeds
    BY DEF CodesInv, JobInv, AllocationSucceeds
<1> QED BY <1>1, CodesAlways, PTL

-----------------------------------------------------------------------------
\* Codes given up: the counter that was there then stays at or above them, and
\* no two applications have the same one to give up.
RetiredInv ==
    /\ RetiredForGood
    /\ \A k \in retired : counter[k[1]] # Missing /\ k[2] <= counter[k[1]]
    /\ \A a, b \in stored : a # b => code[a] = NoCode \/ code[a] # code[b]

LEMMA RetiredStart == Init => RetiredInv
BY DEF Init, RetiredInv, RetiredForGood

\* A code on an application is at or below the counter of its category.
LEMMA LiveBelow ==
    ASSUME CodesInv, NEW a \in stored, code[a] # NoCode
    PROVE  /\ code[a] \in Codes /\ code[a] \in Live
           /\ counter[code[a][1]] # Missing => code[a][2] <= counter[code[a][1]]
<1>1. code[a] \in Codes /\ code[a] \in Live
    BY DEF CodesInv, TypeOK, Live
<1>2. PICK c \in Categories, n \in 1 .. MaxNumber : code[a] = <<c, n>>
    BY <1>1 DEF Codes
<1> QED BY <1>1, <1>2 DEF CodesInv, RowInv, Covers

LEMMA EraseRetires ==
    ASSUME CodesInv, RetiredInv, NEW a \in Apps, Erase(a)
    PROVE  RetiredInv'
<1>1. /\ a \in stored /\ stored' = stored \ {a} /\ code' = [code EXCEPT ![a] = NoCode]
      /\ retired' = retired \cup {k \in {code[a]} \ {NoCode} : counter[k[1]] # Missing}
      /\ counter' = counter
    BY DEF Erase, Retire
<1>2. \A b \in stored \ {a} : code'[b] = code[b]
    BY <1>1 DEF CodesInv, TypeOK
<1>3. Live' \subseteq Live
    BY <1>1, <1>2 DEF Live
<1>4. code[a] # NoCode => code[a] \notin Live'
    BY <1>1, <1>2 DEF RetiredInv, Live
<1>5. RetiredForGood'
    BY <1>1, <1>3, <1>4 DEF RetiredInv, RetiredForGood
<1>6. \A k \in retired' : counter'[k[1]] # Missing /\ k[2] <= counter'[k[1]]
    BY <1>1, LiveBelow DEF RetiredInv
<1> QED BY <1>1, <1>2, <1>5, <1>6 DEF RetiredInv

LEMMA CommitRetires ==
    ASSUME CodesInv, RetiredInv, NEW t \in Txs, Commit(t)
    PROVE  RetiredInv'
<1>0. PICK c \in Categories : c = tx[t].cat
    BY TxType DEF CodesInv
<1>1. /\ tx[t].pc = "allocated" /\ Written(t)
      /\ counter' = [k \in Categories |-> IF holder[k] = t THEN draft[k] ELSE counter[k]]
    BY DEF Commit
<1>2. holder[c] = t /\ t # NoTx
    BY <1>0, <1>1, CodeAssumption DEF CodesInv, JobInv
<1>3. \A k \in Categories \ {c} : holder[k] # t
    BY <1>0, <1>2 DEF CodesInv, RowInv
<1>4. PICK n \in 1 .. MaxNumber : n = tx[t].number /\ n = draft[c] /\ n > counter[c]
    BY <1>0, <1>1, <1>2, TxType DEF CodesInv, RowInv
<1>5. counter'[c] = n /\ \A k \in Categories \ {c} : counter'[k] = counter[k]
    BY <1>1, <1>2, <1>3, <1>4
<1>6. <<c, n>> \notin Live
    BY <1>0, <1>1, <1>4, FreshCodes DEF CodesAreFresh
<1>7. <<c, n>> \notin retired
    BY <1>4 DEF RetiredInv, CodesInv, TypeOK
\* What was given up before stays below the counters.
<1>8. ASSUME NEW k \in retired PROVE counter'[k[1]] # Missing /\ k[2] <= counter'[k[1]]
  <2>1. PICK d \in Categories, m \in 1 .. MaxNumber : k = <<d, m>>
      BY DEF CodesInv, TypeOK, Codes
  <2>2. counter[d] # Missing /\ m <= counter[d] /\ counter[d] \in Int
      BY <2>1 DEF RetiredInv, CodesInv, TypeOK
  <2>3. CASE d = c
      BY <1>4, <1>5, <2>1, <2>2, <2>3 DEF Missing
  <2>4. CASE d # c
      BY <1>5, <2>1, <2>2, <2>4
  <2> QED BY <2>3, <2>4
<1>9. CASE tx[t].app = NoApp
  <2>1. PICK a \in Apps \ stored :
          /\ stored' = stored \cup {a} /\ code' = [code EXCEPT ![a] = <<c, n>>]
          /\ retired' = retired
      BY <1>0, <1>1, <1>4, <1>9 DEF Written
  <2>2. code'[a] = <<c, n>> /\ \A b \in stored : code'[b] = code[b]
      BY <2>1 DEF CodesInv, TypeOK
  <2>3. Live' \subseteq Live \cup {<<c, n>>}
      BY <2>1, <2>2 DEF Live
  <2>4. RetiredForGood'
      BY <1>7, <2>1, <2>3 DEF RetiredInv, RetiredForGood
  <2>5. \A b \in stored : code[b] # <<c, n>>
      BY <1>6, CodeType DEF Live, NoCode
  <2> QED BY <1>8, <2>1, <2>2, <2>4, <2>5 DEF RetiredInv
<1>10. CASE tx[t].app # NoApp
  <2>0. PICK a \in Apps : a = tx[t].app
      BY <1>10, TxType DEF CodesInv
  <2>1. /\ a \in stored /\ stored' = stored /\ code' = [code EXCEPT ![a] = <<c, n>>]
        /\ retired' = retired \cup {k \in {code[a]} \ {NoCode} : counter[k[1]] # Missing}
      BY <1>0, <1>1, <1>4, <1>10, <2>0 DEF Written, Retire
  <2>2. code'[a] = <<c, n>> /\ \A b \in stored \ {a} : code'[b] = code[b]
      BY <2>1 DEF CodesInv, TypeOK
  <2>3. Live' \subseteq Live \cup {<<c, n>>}
      BY <2>1, <2>2 DEF Live
  <2>4. \A b \in stored : code[b] # <<c, n>>
      BY <1>6, CodeType DEF Live, NoCode
  <2>5. code[a] # NoCode => code[a] \notin Live'
      BY <2>1, <2>2, <2>4 DEF RetiredInv, Live
  <2>6. RetiredForGood'
      BY <1>7, <2>1, <2>3, <2>4, <2>5 DEF RetiredInv, RetiredForGood
  <2>7. ASSUME NEW k \in retired' PROVE counter'[k[1]] # Missing /\ k[2] <= counter'[k[1]]
    <3>1. CASE k \in retired
        BY <1>8, <3>1
    <3>2. CASE k \notin retired
      <4>1. k = code[a] /\ k # NoCode /\ counter[k[1]] # Missing
          BY <2>1, <2>7, <3>2
      <4>2. PICK d \in Categories, m \in 1 .. MaxNumber : k = <<d, m>>
          BY <2>1, <4>1, LiveBelow DEF Codes
      <4>3. m <= counter[d] /\ counter[d] # Missing /\ counter[d] \in Int
        <5>1. k[1] = d /\ k[2] = m
            BY <4>2
        <5>2. counter[d] # Missing => m <= counter[d]
            BY <2>1, <4>1, <5>1, LiveBelow
        <5> QED BY <4>1, <5>1, <5>2 DEF CodesInv, TypeOK
      <4>4. CASE d = c
          BY <1>4, <1>5, <4>2, <4>3, <4>4 DEF Missing
      <4>5. CASE d # c
          BY <1>5, <4>2, <4>3, <4>5
      <4> QED BY <4>4, <4>5
    <3> QED BY <3>1, <3>2
  <2> QED BY <2>1, <2>2, <2>4, <2>6, <2>7 DEF RetiredInv
<1> QED BY <1>9, <1>10

\* The other actions touch no application.
LEMMA RetiredStep == CodesInv /\ RetiredInv /\ [Next]_vars => RetiredInv'
<1> SUFFICES ASSUME CodesInv, RetiredInv, [Next]_vars PROVE RetiredInv'
    OBVIOUS
<1>1. CASE UNCHANGED <<counter, stored, code, retired>>
    BY <1>1 DEF RetiredInv, RetiredForGood, Live
<1>2. CASE \E t \in Txs : Commit(t)
    BY <1>2, CommitRetires
<1>3. CASE \E a \in Apps : Erase(a)
    BY <1>3, EraseRetires
<1>4. CASE ~UNCHANGED <<counter, stored, code, retired>>
  <2>1. Next
      BY <1>4 DEF vars
  <2>2. \/ \E t \in Txs : Commit(t)
        \/ \E a \in Apps : Erase(a)
      BY <1>4, <2>1
      DEF Next, Continue, BeginSubmit, BeginEdit, Update, Scan, SeedLost, Seed, Rollback
  <2> QED BY <1>2, <1>3, <2>2
<1> QED BY <1>1, <1>4

\* A code that was given up is not issued again once its category has a counter.
THEOREM RetiredStayRetired == Spec => []RetiredForGood
<1>1. RetiredInv => RetiredForGood
    BY DEF RetiredInv
<1> QED BY <1>1, RetiredStart, RetiredStep, CodesAlways, PTL DEF Spec
=============================================================================
