---------------------------- MODULE SdHostProofs ----------------------------
(***************************************************************************)
(* Proofs about the SD host interface, for every block size and any number *)
(* of blocks: no command is swallowed as data, and the access end means    *)
(* that the blocks asked for have moved.                                   *)
(*                                                                         *)
(* Between a command and its access end the units moved and the units the  *)
(* controller still waits for make up the transfer, and the card owes at   *)
(* least those.  Everywhere a command may come, no data phase is open.     *)
(***************************************************************************)
EXTENDS SdHost, SequenceTheorems, TLAPS

Prefix(k) == [i \in 1 .. k |-> i - 1]

Owed == (blockcnt - 1) * BlockUnits + datacnt

Driver == [phase : Phase, write : BOOLEAN, count : 1 .. MaxBlocks, dma : BOOLEAN]

\* No data phase is open where the driver may write SD_CMD, nor after an
\* access end, nor while the card that was just asked is ready.
Closed ==
  /\ drv.phase \in {"idle", "command", "status", "stop"} => data_dir = 0
  /\ "DATA_TRNS" \in info1 => data_dir = 0
  /\ drv.phase = "poll" /\ card = "tran" => data_dir = 0

\* What the driver has programmed before it writes SD_CMD.
Programmed ==
  /\ drv.phase \in {"idle", "command"} => card = "tran"
  /\ drv.phase \in {"command", "response", "data"} => stop = (drv.count > 1)
  /\ drv.phase = "command" => moved = <<>> /\ (stop => seccnt = drv.count)

\* The account of an open data phase.
Open ==
  /\ blockcnt \in Nat /\ datacnt \in Nat /\ Owed \in Nat \ {0}
  /\ next \in Nat /\ left \in Nat
  /\ next + Owed = drv.count * BlockUnits
  /\ moved = Prefix(next)
  /\ left >= Owed
  /\ drv.count = 1 => left = Owed
  /\ drv.dma => next = 0
  /\ card # "tran"
  /\ info2 \cap {"RE", "WE"} \subseteq {IF data_dir = 1 THEN "RE" ELSE "WE"}

DataPhase ==
  drv.phase \in {"response", "data"} =>
    IF data_dir = 0 THEN info2 \cap {"RE", "WE"} = {} ELSE Open

Inv == drv \in Driver /\ Closed /\ Programmed /\ DataPhase

-----------------------------------------------------------------------------
(* Arithmetic and sequences.                                               *)

LEMMA DivMod ==
  ASSUME NEW n \in Nat, NEW d \in Nat \ {0}
  PROVE  /\ n \div d \in Nat /\ n % d \in 0 .. d - 1
         /\ n = d * (n \div d) + (n % d)
  OBVIOUS

\* The counters that stand for a number of units owed.
LEMMA Counters ==
  ASSUME NEW o \in Nat \ {0}, NEW d \in Nat \ {0}
  PROVE  ((o + d - 1) \div d - 1) * d + ((o - 1) % d) + 1 = o
<1> DEFINE q == (o - 1) \div d
           r == (o - 1) % d
           p == (o + d - 1) \div d
           t == (o + d - 1) % d
<1>1. q \in Nat /\ r \in 0 .. d - 1 /\ o - 1 = d * q + r
  <2> o - 1 \in Nat
    OBVIOUS
  <2> HIDE DEF q, r
  <2> QED BY DivMod, Zenon DEF q, r
<1>2. p \in Nat /\ t \in 0 .. d - 1 /\ o + d - 1 = d * p + t
  <2> o + d - 1 \in Nat
    OBVIOUS
  <2> HIDE DEF p, t
  <2> QED BY DivMod, Zenon DEF p, t
<1> HIDE DEF q, r, p, t
<1>3. d * (p - (q + 1)) = r - t
  <2>1. d * (p - (q + 1)) = d * p - d * q - d
    BY <1>1, <1>2
  <2> QED BY <2>1, <1>1, <1>2
<1>4. p = q + 1
  <2>1. CASE p > q + 1
    <3>1. d * (p - (q + 1)) >= d
      BY <2>1, <1>1, <1>2
    <3> QED BY <3>1, <1>1, <1>2, <1>3
  <2>2. CASE p < q + 1
    <3>1. d * (p - (q + 1)) <= -d
      BY <2>2, <1>1, <1>2
    <3> QED BY <3>1, <1>1, <1>2, <1>3
  <2> QED BY <2>1, <2>2, <1>1, <1>2
<1>5. (p - 1) * d = d * q
  BY <1>1, <1>4
<1> QED BY <1>1, <1>5 DEF p, r

LEMMA Longer ==
  ASSUME NEW k \in Nat, NEW n \in Nat, NEW s \in Seq(Int), NEW t \in Seq(Int),
         s = Prefix(k), t = [i \in 1 .. n |-> k + i - 1]
  PROVE  s \o t = Prefix(k + n)
<1>1. Len(s) = k /\ Len(t) = n
  BY DEF Prefix
<1>2. /\ \A i \in 1 .. k : s[i] = i - 1
      /\ \A j \in 1 .. n : t[j] = k + j - 1
  BY DEF Prefix
<1>3. /\ s \o t \in Seq(Int)
      /\ Len(s \o t) = k + n
      /\ \A i \in 1 .. k + n : (s \o t)[i] = IF i <= k THEN s[i] ELSE t[i - k]
  <2>1. /\ s \o t \in Seq(Int)
        /\ Len(s \o t) = Len(s) + Len(t)
        /\ \A i \in 1 .. Len(s) + Len(t) :
              (s \o t)[i] = IF i <= Len(s) THEN s[i] ELSE t[i - Len(s)]
    BY ConcatProperties
  <2> QED BY <1>1, <2>1, Zenon
<1>4. /\ Prefix(k + n) \in Seq(Int) /\ Len(Prefix(k + n)) = k + n
      /\ \A i \in 1 .. k + n : Prefix(k + n)[i] = i - 1
  BY DEF Prefix
<1>5. ASSUME NEW i \in 1 .. k + n
      PROVE  (s \o t)[i] = i - 1
  <2>1. (s \o t)[i] = IF i <= k THEN s[i] ELSE t[i - k]
    BY <1>3
  <2>2. CASE i <= k
    <3>1. i \in 1 .. k
      BY <2>2
    <3> QED BY <1>2, <2>1, <2>2, <3>1
  <2>3. CASE ~(i <= k)
    <3>1. i - k \in 1 .. n /\ k + (i - k) - 1 = i - 1
      BY <2>3
    <3>2. t[i - k] = k + (i - k) - 1
      BY <1>2, <3>1, Zenon
    <3> QED BY <2>1, <2>3, <3>1, <3>2, Zenon
  <2> QED BY <2>2, <2>3, Zenon
<1>6. \A i \in 1 .. Len(s \o t) : (s \o t)[i] = Prefix(k + n)[i]
  BY <1>3, <1>4, <1>5, Zenon
<1>7. Len(s \o t) = Len(Prefix(k + n))
  BY <1>3, <1>4, Zenon
<1> QED BY <1>3, <1>4, <1>6, <1>7, SeqEqual, Zenon
-----------------------------------------------------------------------------
(* The controller.                                                         *)

\* Outside a data phase a write of SD_CMD is a command.
LEMMA IsCommand ==
  ASSUME NEW cmd, data_dir = 0, WriteCmd(cmd)
  PROVE  rza1l_sdhi_command(cmd)
  BY DEF WriteCmd

\* Accesses of the FIFO, at most as many as are owed, keep the account; the
\* last ones close the data phase with everything moved and the card ready.
LEMMA Moving ==
  ASSUME NEW n \in Nat \ {0}, drv \in Driver, Open, n <= Owed,
         drv.dma => n = Owed, stop = (drv.count > 1),
         MoveUnits(n), UNCHANGED drv
  PROVE  \/ /\ data_dir' = 0 /\ card' = "tran"
            /\ moved' = Prefix(drv.count * BlockUnits)
            /\ info2' \cap {"RE", "WE"} = {}
         \/ /\ Open' /\ data_dir' = data_dir /\ info1' = info1
<1> USE SdAssumption
<1> DEFINE rest == Owed - n
           total == drv.count * BlockUnits
<1>1. /\ drv.count \in Nat \ {0} /\ total \in Nat
      /\ rest \in Nat /\ next \in Nat /\ left \in Nat
      /\ next + Owed = total /\ n <= left /\ Owed \in Nat
  BY DEF Open, Driver
<1>2. rest = (blockcnt - 1) * BlockUnits + datacnt - n
  <2>1. (blockcnt - 1) * BlockUnits \in Int /\ datacnt \in Int
    BY DEF Open
  <2> QED BY <2>1 DEF Owed
<1>3. moved' = Prefix(next + n)
  <2>1. Streamed(n) = [i \in 1 .. n |-> next + i - 1]
    <3>1. \A i \in 1 .. n : i <= left
      BY <1>1
    <3> QED BY <3>1, Zenon DEF Streamed
  <2>2. moved' = moved \o Streamed(n) /\ moved = Prefix(next)
    BY DEF MoveUnits, Open
  <2>3. Streamed(n) \in Seq(Int) /\ Prefix(next) \in Seq(Int)
    BY <2>1, <1>1 DEF Prefix
  <2> QED BY <2>1, <2>2, <2>3, <1>1, Longer
<1>4. CASE rest = 0
  <2>1. next + n = total
    BY <1>1, <1>4
  <2>2. data_dir' = 0 /\ info2' = info2 \ {IF data_dir = 1 THEN "RE" ELSE "WE"}
    BY <1>2, <1>4 DEF MoveUnits
  <2>3. info2' \cap {"RE", "WE"} = {}
    BY <2>2 DEF Open
  <2>4. card' = "tran"
    <3>1. CASE left <= n
      BY <3>1 DEF MoveUnits
    <3>2. CASE ~(left <= n)
      <4>1. stop
        <5>1. drv.count # 1
          BY <3>2, <1>1, <1>4 DEF Open
        <5>2. drv.count > 1
          BY <5>1, <1>1
        <5> QED BY <5>2
      <4> QED BY <4>1, <3>2, <1>2, <1>4 DEF MoveUnits, AutoStop
    <3> QED BY <3>1, <3>2
  <2> QED BY <2>1, <2>2, <2>3, <2>4, <1>3
<1>5. CASE rest # 0
  <2>1. ~drv.dma /\ rest \in Nat \ {0} /\ ~(left <= n)
    BY <1>1, <1>5 DEF Open
  <2>2. /\ data_dir' = data_dir /\ info1' = info1 /\ info2' = info2
        /\ card' = card /\ left' = left - n /\ next' = next + n
    BY <2>1, <1>2, <1>5 DEF MoveUnits, Open
  <2>3. /\ blockcnt' = (rest + BlockUnits - 1) \div BlockUnits
        /\ datacnt' = ((rest - 1) % BlockUnits) + 1
    BY <1>2, <1>5 DEF MoveUnits
  <2>4. Owed' = rest
    <3>1. Owed' = (blockcnt' - 1) * BlockUnits + datacnt'
      BY DEF Owed
    <3>2. (rest - 1) % BlockUnits \in Int /\ (blockcnt' - 1) * BlockUnits \in Int
      BY <2>1, <2>3
    <3> HIDE DEF rest
    <3>3. ((rest + BlockUnits - 1) \div BlockUnits - 1) * BlockUnits
            + ((rest - 1) % BlockUnits) + 1 = rest
      BY <2>1, Counters
    <3> QED BY <3>1, <3>2, <3>3, <2>3
  <2>5. /\ blockcnt' \in Nat /\ datacnt' \in Nat
    <3> HIDE DEF rest
    <3>1. /\ (rest + BlockUnits - 1) \div BlockUnits \in Nat
          /\ (rest - 1) % BlockUnits \in Nat
      <4>1. rest + BlockUnits - 1 \in Nat /\ rest - 1 \in Nat
        BY <2>1
      <4>2. (rest + BlockUnits - 1) \div BlockUnits \in Nat
        BY <4>1, DivMod, Zenon
      <4>3. (rest - 1) % BlockUnits \in 0 .. BlockUnits - 1
        BY <4>1, DivMod, Zenon
      <4> QED BY <4>2, <4>3
    <3> QED BY <3>1, <2>3
  <2>6. /\ next' \in Nat /\ left' \in Nat /\ left' >= rest
        /\ next' + rest = total /\ (drv.count = 1 => left' = rest)
    BY <2>1, <2>2, <1>1 DEF Open
  <2> QED BY <2>1, <2>2, <2>4, <2>5, <2>6, <1>3 DEF Open
<1> QED BY <1>4, <1>5
\* A command opens a data phase for as many units as the driver wants.
LEMMA Issuing ==
  ASSUME Inv, Issue
  PROVE  Inv'
<1> USE SdAssumption
<1>1. /\ drv \in Driver /\ drv.phase = "command"
      /\ data_dir = 0 /\ card = "tran" /\ moved = <<>>
      /\ stop = (drv.count > 1) /\ (stop => seccnt = drv.count)
  BY DEF Inv, Issue, Closed, Programmed
<1>2. /\ drv' \in Driver /\ drv'.phase = "response"
      /\ drv'.count = drv.count /\ drv'.dma = drv.dma
  BY <1>1 DEF Issue, Enter, Driver, Phase
<1>3. drv.count \in Nat \ {0} /\ drv.count <= MaxBlocks /\ drv.write \in BOOLEAN
  BY <1>1 DEF Driver
<1>4. PICK cmd \in {"CMD17", "CMD18", "CMD24", "CMD25"} :
        /\ rza1l_sdhi_command(cmd)
        /\ cmd \in Single <=> drv.count = 1
  <2> DEFINE c == CASE drv.write /\ drv.count = 1 -> "CMD24"
                    [] drv.write /\ drv.count > 1 -> "CMD25"
                    [] ~drv.write /\ drv.count = 1 -> "CMD17"
                    [] OTHER -> "CMD18"
  <2>1. c \in {"CMD17", "CMD18", "CMD24", "CMD25"} /\ (c \in Single <=> drv.count = 1)
    BY <1>3 DEF Single
  <2>2. WriteCmd(c)
    BY DEF Issue
  <2> HIDE DEF c
  <2>3. rza1l_sdhi_command(c)
    BY <2>2, <1>1, IsCommand
  <2> QED BY <2>1, <2>3
<1>5. /\ info1' = {"RESP"} /\ stop' = stop /\ moved' = moved /\ next' = 0
      /\ left' = IF drv.count = 1 THEN BlockUnits ELSE Unbounded
      /\ blockcnt' = Blocks /\ datacnt' = BlockUnits
      /\ card' # "tran" /\ data_dir' \in {1, 2}
      /\ info2' = {IF data_dir' = 1 THEN "RE" ELSE "WE"}
  BY <1>1, <1>4 DEF rza1l_sdhi_command, sdbus_do_command, Answers, Single
<1>6. Blocks = drv.count
  <2>1. CASE drv.count = 1
    <3>1. ~(drv.count > 1)
      BY <2>1
    <3>2. ~stop
      BY <1>1, <3>1, Zenon
    <3> QED BY <2>1, <3>2 DEF Blocks
  <2>2. CASE drv.count > 1
    <3>1. stop
      BY <1>1, <2>2
    <3>2. seccnt = drv.count /\ seccnt > 0
      BY <1>1, <1>3, <3>1
    <3> QED BY <3>1, <3>2 DEF Blocks
  <2> QED BY <2>1, <2>2, <1>3
<1>7. Owed' = drv.count * BlockUnits /\ Owed' \in Nat \ {0}
  <2>1. Owed' = (drv.count - 1) * BlockUnits + BlockUnits
    BY <1>5, <1>6 DEF Owed
  <2>2. (drv.count - 1) * BlockUnits + BlockUnits = drv.count * BlockUnits
    BY <1>3
  <2>3. drv.count * BlockUnits \in Nat \ {0}
    BY <1>3
  <2> QED BY <2>1, <2>2, <2>3
<1>8. left' \in Nat /\ left' >= Owed' /\ (drv.count = 1 => left' = Owed')
  <2>1. CASE drv.count = 1
    BY <1>5, <1>7, <2>1
  <2>2. CASE drv.count # 1
    <3>1. left' = BlockUnits * (MaxBlocks + 1)
      BY <1>5, <2>2 DEF Unbounded
    <3>2. BlockUnits * (MaxBlocks + 1) \in Nat
      OBVIOUS
    <3>3. BlockUnits * (MaxBlocks + 1) >= drv.count * BlockUnits
      BY <1>3
    <3> QED BY <3>1, <3>2, <3>3, <1>7, <2>2
  <2> QED BY <2>1, <2>2
<1>9. moved' = Prefix(next')
  BY <1>1, <1>5 DEF Prefix
<1>10. Open'
  BY <1>2, <1>3, <1>5, <1>6, <1>7, <1>8, <1>9 DEF Open
<1>11. Closed' /\ Programmed' /\ DataPhase'
  BY <1>1, <1>2, <1>5, <1>10 DEF Closed, Programmed, DataPhase
<1> QED BY <1>2, <1>11 DEF Inv

\* Accesses of the FIFO, by the processor or by the DMA controller.
LEMMA Streaming ==
  ASSUME Inv, Access \/ Transfer
  PROVE  /\ Inv'
         /\ "DATA_TRNS" \in info1' \ info1 =>
              moved' = Prefix(drv.count * BlockUnits) /\ card' = "tran"
<1> USE SdAssumption
<1>1. /\ drv \in Driver /\ drv.phase = "data" /\ drv' = drv
      /\ stop = (drv.count > 1) /\ data_dir # 0 /\ Open
  BY DEF Inv, Access, Transfer, Programmed, DataPhase
<1>2. drv.count \in Nat \ {0} /\ drv.dma \in BOOLEAN
  BY <1>1 DEF Driver
<1>3. PICK n \in Nat \ {0} : n <= Owed /\ (drv.dma => n = Owed) /\ MoveUnits(n)
  <2>1. CASE Access
    <3>1. MoveUnits(1) /\ ~drv.dma
      BY <2>1 DEF Access
    <3>2. 1 <= Owed
      BY <1>1 DEF Open
    <3> QED BY <3>1, <3>2
  <2>2. CASE Transfer
    <3>1. MoveUnits(drv.count * BlockUnits) /\ drv.dma
      BY <2>2 DEF Transfer
    <3>2. drv.count * BlockUnits \in Nat \ {0}
      BY <1>2
    <3>3. Owed = drv.count * BlockUnits
      BY <1>1, <3>1, <3>2 DEF Open
    <3> QED BY <3>1, <3>2, <3>3
  <2> QED BY <2>1, <2>2
<1>4. \/ /\ data_dir' = 0 /\ card' = "tran"
         /\ moved' = Prefix(drv.count * BlockUnits)
         /\ info2' \cap {"RE", "WE"} = {}
      \/ /\ Open' /\ data_dir' = data_dir /\ info1' = info1
  BY <1>1, <1>3, Moving
<1>5. stop' = stop
  BY <1>3 DEF MoveUnits
<1>6. Inv'
  BY <1>1, <1>4, <1>5 DEF Inv, Closed, Programmed, DataPhase
<1> QED BY <1>4, <1>6
-----------------------------------------------------------------------------
(* The invariant and what follows from it.                                 *)

LEMMA Initially == SdInit => Inv
  BY SdAssumption DEF SdInit, Inv, Driver, Phase, Closed, Programmed, DataPhase

LEMMA Preserved == Inv /\ [SdNext]_sdVars => Inv'
<1> SUFFICES ASSUME Inv, [SdNext]_sdVars PROVE Inv'
  OBVIOUS
<1>1. ASSUME NEW write \in BOOLEAN, NEW dma \in BOOLEAN, NEW count \in 1 .. MaxBlocks,
             Program(write, count, dma)
      PROVE  Inv'
  <2>1. /\ drv' \in Driver /\ drv'.phase = "command" /\ drv'.count = count
        /\ drv.phase = "idle"
    BY <1>1 DEF Program, Driver, Phase
  <2>2. /\ data_dir' = data_dir /\ card' = card /\ moved' = <<>>
        /\ stop' = (count > 1) /\ (count > 1 => seccnt' = count) /\ info1' = {}
    BY <1>1 DEF Program, WriteInfo
  <2> QED BY <2>1, <2>2 DEF Inv, Closed, Programmed, DataPhase
<1>2. CASE Issue
  BY <1>2, Issuing
<1>3. CASE TakeResponse
  <2>1. /\ drv' \in Driver /\ drv'.phase \in {"failed", "data"} /\ drv.phase = "response"
        /\ drv'.count = drv.count /\ drv'.dma = drv.dma
    BY <1>3 DEF TakeResponse, Enter, Inv, Driver, Phase
  <2>2. /\ info1' = info1 \cap (Info1 \ {"RESP"}) /\ info2' = info2 \cap Info2
        /\ UNCHANGED <<stop, seccnt, data_dir, blockcnt, datacnt, card, left, next, moved>>
    BY <1>3 DEF TakeResponse, WriteInfo, medium
  <2>3. Open => Open'
    BY <2>1, <2>2 DEF Open, Owed
  <2> QED BY <2>1, <2>2, <2>3 DEF Inv, Closed, Programmed, DataPhase
<1>4. CASE Access \/ Transfer
  BY <1>4, Streaming
<1>5. CASE TakeEnd
  <2>1. /\ drv' \in Driver /\ drv'.phase = "status" /\ "DATA_TRNS" \in info1
    BY <1>5 DEF TakeEnd, Enter, Inv, Driver, Phase
  <2>2. info1' = info1 \cap {} /\ data_dir' = data_dir
    BY <1>5 DEF TakeEnd, WriteInfo
  <2> QED BY <2>1, <2>2 DEF Inv, Closed, Programmed, DataPhase
<1>6. CASE AskStatus
  <2>1. drv' \in Driver /\ drv'.phase = "poll" /\ data_dir = 0
    BY <1>6 DEF AskStatus, Enter, Inv, Driver, Phase, Closed
  <2>2. rza1l_sdhi_command("CMD13")
    BY <1>6, <2>1, IsCommand DEF AskStatus
  <2>3. info1' = {"RESP"} /\ (card' = "tran" => data_dir' = 0)
    BY <2>2 DEF rza1l_sdhi_command, sdbus_do_command
  <2> QED BY <2>1, <2>3 DEF Inv, Closed, Programmed, DataPhase
<1>7. CASE TakeStatus
  <2>1. /\ drv' \in Driver /\ drv.phase = "poll"
        /\ drv'.phase = IF card = "tran" THEN "idle" ELSE "failed"
        /\ UNCHANGED <<info1, data_dir, card>>
    BY <1>7 DEF TakeStatus, Enter, Inv, Driver, Phase, host, medium
  <2> QED BY <2>1 DEF Inv, Closed, Programmed, DataPhase
<1>8. CASE GiveUp
  <2>1. drv' \in Driver /\ drv'.phase = "failed" /\ UNCHANGED <<info1, data_dir, card>>
    BY <1>8 DEF GiveUp, Enter, Inv, Driver, Phase, host, medium
  <2> QED BY <2>1 DEF Inv, Closed, Programmed, DataPhase
<1>9. CASE Recover
  <2>1. drv' \in Driver /\ drv'.phase = "stop" /\ data_dir' = 0
    BY <1>9 DEF Recover, SoftReset, Enter, Inv, Driver, Phase
  <2> QED BY <2>1 DEF Inv, Closed, Programmed, DataPhase
<1>10. CASE SendStop
  <2>1. drv' \in Driver /\ drv'.phase = "idle" /\ data_dir = 0
    BY <1>10 DEF SendStop, Enter, Inv, Driver, Phase, Closed
  <2>2. rza1l_sdhi_command("CMD12")
    BY <1>10, <2>1, IsCommand DEF SendStop
  <2>3. info1' = {"RESP"} /\ card' = "tran" /\ data_dir' = 0
    BY <2>2 DEF rza1l_sdhi_command, sdbus_do_command
  <2> QED BY <2>1, <2>3 DEF Inv, Closed, Programmed, DataPhase
<1>11. CASE UNCHANGED sdVars
  BY <1>11 DEF sdVars, host, medium, Inv, Closed, Programmed, DataPhase, Open, Owed
<1> QED BY <1>1, <1>2, <1>3, <1>4, <1>5, <1>6, <1>7, <1>8, <1>9, <1>10, <1>11
        DEF SdNext, Step

\* The account of the transfer under way holds in every reachable state.
THEOREM Invariance == SdSpec => []Inv
  BY Initially, Preserved, PTL DEF SdSpec

\* CommandsReachCard: whenever the driver writes SD_CMD, after transfers that
\* ended, failed or were given up, the controller takes it for a command.
THEOREM CommandsHeard == SdSpec => []CommandsReachCard
<1>1. Inv => CommandsReachCard
  BY DEF Inv, Closed, CommandsReachCard
<1> QED BY <1>1, Invariance, PTL

\* AccessEndIsRight: the access end is set only when the blocks asked for have
\* moved, once each and in order, and the card has returned to its ready state.
THEOREM AccessEndsRight == SdSpec => AccessEndIsRight
<1>1. ASSUME Inv, [SdNext]_sdVars, "DATA_TRNS" \in info1' \ info1
      PROVE  moved' = Prefix(drv.count * BlockUnits) /\ card' = "tran"
  <2>1. ASSUME NEW cmd, rza1l_sdhi_command(cmd) PROVE FALSE
    BY <1>1, <2>1 DEF rza1l_sdhi_command
  <2>2. data_dir = 0 => ~ (Issue \/ AskStatus \/ SendStop)
    BY <2>1, IsCommand DEF Issue, AskStatus, SendStop
  <2>3. ~ (Issue \/ AskStatus \/ SendStop)
    BY <1>1, <2>2 DEF Inv, Closed, Issue, AskStatus, SendStop
  <2>4. ~ \E write, dma \in BOOLEAN, count \in 1 .. MaxBlocks : Program(write, count, dma)
    BY <1>1 DEF Program, WriteInfo
  <2>5. ~ (TakeResponse \/ TakeEnd)
    BY <1>1 DEF TakeResponse, TakeEnd, WriteInfo
  <2>6. ~ (TakeStatus \/ GiveUp \/ Recover \/ UNCHANGED sdVars)
    BY <1>1 DEF TakeStatus, GiveUp, Recover, SoftReset, sdVars, host
  <2>7. Access \/ Transfer
    BY <1>1, <2>3, <2>4, <2>5, <2>6 DEF SdNext, Step
  <2> QED BY <1>1, <2>7, Streaming
<1>2. Inv /\ [SdNext]_sdVars =>
        [("DATA_TRNS" \in info1' \ info1) =>
           /\ moved' = [i \in 1 .. drv.count * BlockUnits |-> i - 1]
           /\ card' = "tran"]_sdVars
  BY <1>1 DEF Prefix
<1> QED BY <1>2, Invariance, PTL DEF SdSpec, AccessEndIsRight
-----------------------------------------------------------------------------
(* The safety that TransfersEnd rests on: the driver never waits in vain,  *)
(* and each of its steps brings the transfer nearer to its end.  That the  *)
(* transfer ends when the driver runs on is left to TLC.                   *)

\* Wherever the driver waits, what it waits for is there, with its interrupt: a
\* response, a ready buffer or the access end (rza1l_sdhi_update_irq), or the
\* DMA channel and the data phase that its transfer needs.
WaitsAnswered ==
  /\ drv.phase \in {"response", "poll"} => irq /\ "RESP" \in info1
  /\ drv.phase = "data" =>
       \/ /\ irq /\ "DATA_TRNS" \in info1
          /\ drv.dma => chstat = ChStat
       \/ /\ data_dir = IF drv.write THEN 2 ELSE 1
          /\ IF drv.dma THEN chstat = {}
             ELSE irq /\ (IF drv.write THEN "WE" ELSE "RE") \in info2

\* How far the transfer is from its end: the phases to come, and the units the
\* data phase waits for.
Stage ==
  [command |-> 7, response |-> 6, data |-> 5, status |-> 4, poll |-> 3,
   failed |-> 2, stop |-> 1, idle |-> 0]
UnitsOwed == IF data_dir = 0 THEN 0 ELSE Owed

\* Each step of the driver goes on to a later phase or has moved units.
StepAdvances ==
  [][Step => \/ Stage[drv'.phase] < Stage[drv.phase]
             \/ drv' = drv /\ UnitsOwed' \in 0 .. UnitsOwed - 1]_sdVars

\* What is unmasked, latched and ready in each phase.
Ready == data_dir # 0 =>
  /\ data_dir = IF drv.write THEN 2 ELSE 1
  /\ (IF drv.write THEN "WE" ELSE "RE") \in info2

Expected ==
  /\ irq = (info1 \cap enabled1 # {} \/ info2 \cap enabled2 # {})
  /\ drv.phase \in {"command", "response", "status", "poll"} => enabled1 = {"RESP"}
  /\ drv.phase \in {"response", "poll"} => "RESP" \in info1
  /\ drv.phase \in {"command", "response"} => chstat = {}
  /\ drv.phase = "response" => data_dir # 0 /\ "ERR6" \notin info2 /\ Ready
  /\ drv.phase = "data" =>
       /\ enabled1 = {"DATA_TRNS"} /\ (~drv.dma => enabled2 = Info2)
       /\ Ready
       /\ IF data_dir = 0 THEN "DATA_TRNS" \in info1 /\ (drv.dma => chstat = ChStat)
          ELSE drv.dma => chstat = {}

LEMMA ExpectedAtFirst == SdInit => Expected
<1> SUFFICES ASSUME SdInit PROVE Expected
  OBVIOUS
<1>1. drv.phase = "idle"
  BY DEF SdInit
<1>2. irq = FALSE /\ info1 = {} /\ info2 = {}
  BY DEF SdInit
<1> QED BY <1>1, <1>2 DEF Expected

\* Accesses of the FIFO close the data phase with the access end, or leave
\* fewer units owed and the buffer ready.
LEMMA MovesNearer ==
  ASSUME NEW n \in Nat \ {0}, drv \in Driver, Open, n <= Owed,
         drv.dma => n = Owed, MoveUnits(n), UNCHANGED drv
  PROVE  \/ data_dir' = 0 /\ "DATA_TRNS" \in info1'
         \/ /\ ~drv.dma /\ data_dir' = data_dir /\ info1' = info1 /\ info2' = info2
            /\ Owed' \in 0 .. Owed - 1
<1> USE SdAssumption
<1> DEFINE rest == (blockcnt - 1) * BlockUnits + datacnt - n
<1>1. Owed \in Nat \ {0} /\ drv.dma \in BOOLEAN /\ rest = Owed - n /\ rest \in Nat
  <2>1. (blockcnt - 1) * BlockUnits \in Int /\ datacnt \in Int
    BY DEF Open
  <2> QED BY <2>1 DEF Open, Owed, Driver
<1>2. CASE rest = 0
  <2>1. data_dir' = 0 /\ info1' = info1 \cup {"DATA_TRNS"}
    BY <1>2 DEF MoveUnits
  <2> QED BY <2>1
<1>3. CASE rest # 0
  <2>1. data_dir' = data_dir /\ info1' = info1 /\ info2' = info2
    BY <1>3 DEF MoveUnits
  <2>2. /\ blockcnt' = (rest + BlockUnits - 1) \div BlockUnits
        /\ datacnt' = ((rest - 1) % BlockUnits) + 1
    BY <1>3 DEF MoveUnits
  <2>3. rest \in Nat \ {0} /\ rest <= Owed - 1 /\ ~drv.dma
    BY <1>1, <1>3
  <2> HIDE DEF rest
  <2>4. ((rest + BlockUnits - 1) \div BlockUnits - 1) * BlockUnits
          + ((rest - 1) % BlockUnits) + 1 = rest
    BY <2>3, Counters
  <2>5. (rest - 1) % BlockUnits \in Int /\ (blockcnt' - 1) * BlockUnits \in Int
    BY <2>2, <2>3
  <2>6. Owed' = (blockcnt' - 1) * BlockUnits + datacnt'
    BY DEF Owed
  <2>7. Owed' = rest
    BY <2>2, <2>4, <2>5, <2>6
  <2> QED BY <2>1, <2>3, <2>7, <1>1
<1> QED BY <1>2, <1>3

LEMMA Nearer ==
  ASSUME Inv, Expected, Access \/ Transfer
  PROVE  Expected' /\ UnitsOwed' \in 0 .. UnitsOwed - 1 /\ drv' = drv
<1> USE SdAssumption
<1>1. /\ drv \in Driver /\ drv.phase = "data" /\ drv' = drv /\ data_dir # 0 /\ Open
  BY DEF Inv, Access, Transfer, DataPhase
<1>2. drv.count \in Nat \ {0} /\ drv.dma \in BOOLEAN /\ Owed \in Nat \ {0}
  BY <1>1 DEF Driver, Open
<1>3. PICK n \in Nat \ {0} : n <= Owed /\ (drv.dma => n = Owed) /\ MoveUnits(n)
  <2>1. CASE Access
    <3>1. MoveUnits(1) /\ ~drv.dma
      BY <2>1 DEF Access
    <3> QED BY <3>1, <1>2
  <2>2. CASE Transfer
    <3>1. MoveUnits(drv.count * BlockUnits) /\ drv.dma
      BY <2>2 DEF Transfer
    <3>2. drv.count * BlockUnits \in Nat \ {0}
      BY <1>2
    <3>3. Owed = drv.count * BlockUnits
      BY <1>1, <3>1, <3>2 DEF Open
    <3> QED BY <3>1, <3>2, <3>3
  <2> QED BY <2>1, <2>2
<1>4. \/ data_dir' = 0 /\ "DATA_TRNS" \in info1'
      \/ /\ ~drv.dma /\ data_dir' = data_dir /\ info1' = info1 /\ info2' = info2
         /\ Owed' \in 0 .. Owed - 1
  BY <1>1, <1>3, MovesNearer
<1>5. /\ irq' = (info1' \cap enabled1' # {} \/ info2' \cap enabled2' # {})
      /\ enabled1' = enabled1 /\ enabled2' = enabled2
  BY <1>3 DEF MoveUnits, rza1l_sdhi_update_irq
<1>6. drv.dma => chstat' = ChStat
  <2>1. drv.dma => Transfer
    BY DEF Access
  <2> QED BY <2>1 DEF Transfer, ChStatAfter
<1>7. Expected'
  BY <1>1, <1>4, <1>5, <1>6 DEF Expected, Ready
<1>8. UnitsOwed' \in 0 .. UnitsOwed - 1
  <2>1. UnitsOwed = Owed
    BY <1>1 DEF UnitsOwed
  <2>2. CASE data_dir' = 0
    <3>1. UnitsOwed' = 0
      BY <2>2 DEF UnitsOwed
    <3> QED BY <2>1, <3>1, <1>2
  <2>3. CASE data_dir' # 0
    <3>1. UnitsOwed' = Owed' /\ Owed' \in 0 .. Owed - 1
      BY <2>3, <1>4 DEF UnitsOwed
    <3> QED BY <2>1, <3>1
  <2> QED BY <2>2, <2>3
<1> QED BY <1>1, <1>7, <1>8

LEMMA ExpectedStays == Inv /\ Expected /\ [SdNext]_sdVars => Expected'
<1> SUFFICES ASSUME Inv, Expected, [SdNext]_sdVars PROVE Expected'
  OBVIOUS
<1>0. drv \in Driver
  BY DEF Inv
<1>1. ASSUME NEW on \in BOOLEAN, NEW dma \in BOOLEAN, NEW count \in 1 .. MaxBlocks,
             Program(on, count, dma)
      PROVE  Expected'
  <2>1. drv'.phase = "command" /\ chstat' = {} /\ enabled1' = {"RESP"}
    BY <1>1 DEF Program, WriteInfo, ChStatAfter
  <2>2. irq' = (info1' \cap enabled1' # {} \/ info2' \cap enabled2' # {})
    BY <1>1 DEF Program, WriteInfo, rza1l_sdhi_update_irq
  <2> QED BY <2>1, <2>2 DEF Expected
<1>2. CASE Issue
  <2>1. drv.phase = "command" /\ data_dir = 0 /\ card = "tran"
    BY <1>2 DEF Inv, Issue, Closed, Programmed
  <2>2. drv'.phase = "response" /\ drv'.write = drv.write /\ chstat' = chstat
    BY <1>2, <1>0 DEF Issue, Enter, Driver
  <2>3. PICK cmd \in {"CMD17", "CMD18", "CMD24", "CMD25"} :
          rza1l_sdhi_command(cmd) /\ (cmd \in {"CMD24", "CMD25"} <=> drv.write)
    <3> DEFINE c == CASE drv.write /\ drv.count = 1 -> "CMD24"
                      [] drv.write /\ drv.count > 1 -> "CMD25"
                      [] ~drv.write /\ drv.count = 1 -> "CMD17"
                      [] OTHER -> "CMD18"
    <3>1. c \in {"CMD17", "CMD18", "CMD24", "CMD25"} /\ (c \in {"CMD24", "CMD25"} <=> drv.write)
      <4>1. drv.count \in 1 .. MaxBlocks /\ drv.write \in BOOLEAN
        BY <1>0 DEF Driver
      <4>2. drv.count = 1 \/ drv.count > 1
        BY <4>1, SdAssumption
      <4> QED BY <4>1, <4>2
    <3>2. WriteCmd(c)
      BY <1>2 DEF Issue
    <3> HIDE DEF c
    <3>3. rza1l_sdhi_command(c)
      BY <3>2, <2>1, IsCommand
    <3> QED BY <3>1, <3>3
  <2>4. /\ info1' = {"RESP"} /\ enabled1' = enabled1
        /\ data_dir' = IF drv.write THEN 2 ELSE 1
        /\ info2' = {IF drv.write THEN "WE" ELSE "RE"}
        /\ irq' = (info1' \cap enabled1' # {} \/ info2' \cap enabled2' # {})
    BY <2>1, <2>3 DEF rza1l_sdhi_command, sdbus_do_command, Answers, rza1l_sdhi_update_irq
  <2> QED BY <2>1, <2>2, <2>4 DEF Expected, Ready
<1>3. CASE TakeResponse
  <2>1. /\ drv.phase = "response" /\ drv'.phase = "data"
        /\ drv'.write = drv.write /\ drv'.dma = drv.dma
    BY <1>3, <1>0 DEF TakeResponse, Enter, Driver, Expected
  <2>2. /\ enabled1' = {"DATA_TRNS"} /\ (~drv.dma => enabled2' = Info2)
        /\ info2' = info2 \cap Info2 /\ data_dir' = data_dir /\ chstat' = chstat
        /\ irq' = (info1' \cap enabled1' # {} \/ info2' \cap enabled2' # {})
    BY <1>3 DEF TakeResponse, WriteInfo, rza1l_sdhi_update_irq
  <2> QED BY <2>1, <2>2 DEF Expected, Ready, Info2
<1>4. CASE Access \/ Transfer
  BY <1>4, Nearer
<1>5. CASE TakeEnd
  <2>1. drv'.phase = "status" /\ enabled1' = {"RESP"}
        /\ irq' = (info1' \cap enabled1' # {} \/ info2' \cap enabled2' # {})
    BY <1>5, <1>0 DEF TakeEnd, Enter, Driver, WriteInfo, rza1l_sdhi_update_irq
  <2> QED BY <2>1 DEF Expected
<1>6. CASE AskStatus \/ SendStop
  <2>1. /\ data_dir = 0 /\ \E cmd : rza1l_sdhi_command(cmd)
    BY <1>6, IsCommand DEF AskStatus, SendStop, Inv, Closed
  <2>2. /\ info1' = {"RESP"} /\ enabled1' = enabled1
        /\ irq' = (info1' \cap enabled1' # {} \/ info2' \cap enabled2' # {})
    BY <2>1 DEF rza1l_sdhi_command, rza1l_sdhi_update_irq
  <2>3. \/ drv.phase = "status" /\ drv'.phase = "poll"
        \/ drv'.phase = "idle"
    BY <1>6, <1>0 DEF AskStatus, SendStop, Enter, Driver
  <2> QED BY <2>2, <2>3 DEF Expected
<1>7. CASE TakeStatus \/ GiveUp
  <2>1. drv'.phase \in {"idle", "failed"} /\ UNCHANGED host
    BY <1>7, <1>0 DEF TakeStatus, GiveUp, Enter, Driver
  <2> QED BY <2>1 DEF Expected, host
<1>8. CASE Recover
  <2>1. drv'.phase = "stop"
        /\ irq' = (info1' \cap enabled1' # {} \/ info2' \cap enabled2' # {})
    BY <1>8, <1>0 DEF Recover, SoftReset, Enter, Driver, rza1l_sdhi_update_irq
  <2> QED BY <2>1 DEF Expected
<1>9. CASE UNCHANGED sdVars
  BY <1>9 DEF sdVars, host, Expected, Ready
<1> QED BY <1>1, <1>2, <1>3, <1>4, <1>5, <1>6, <1>7, <1>8, <1>9 DEF SdNext, Step

LEMMA AlwaysExpected == SdSpec => [](Inv /\ Expected)
  BY ExpectedAtFirst, ExpectedStays, Initially, Preserved, PTL DEF SdSpec

\* WaitsAnswered: whatever the driver asked for, by whichever way it moves its
\* data, and whatever it gave up before, each wait is one that ends.
THEOREM NoWaitInVain == SdSpec => []WaitsAnswered
<1>1. Inv /\ Expected => WaitsAnswered
  <2> SUFFICES ASSUME Inv, Expected PROVE WaitsAnswered
    OBVIOUS
  <2>1. drv.phase \in {"response", "poll"} => irq /\ "RESP" \in info1
    BY DEF Expected
  <2>2. ASSUME drv.phase = "data", data_dir = 0
        PROVE  irq /\ "DATA_TRNS" \in info1 /\ (drv.dma => chstat = ChStat)
    BY <2>2 DEF Expected
  <2>3. ASSUME drv.phase = "data", data_dir # 0
        PROVE  /\ data_dir = IF drv.write THEN 2 ELSE 1
               /\ IF drv.dma THEN chstat = {}
                  ELSE irq /\ (IF drv.write THEN "WE" ELSE "RE") \in info2
    <3>1. ~drv.dma => irq
      BY <2>3 DEF Expected, Ready, Info2
    <3> QED BY <3>1, <2>3 DEF Expected, Ready
  <2> QED BY <2>1, <2>2, <2>3 DEF WaitsAnswered
<1> QED BY <1>1, AlwaysExpected, PTL

\* StepAdvances: a transfer is never longer than its phases and its units, so a
\* driver that runs on is done after that many steps.
THEOREM TransferAdvances == SdSpec => StepAdvances
<1>1. ASSUME Inv, Expected, Step
      PROVE  \/ Stage[drv'.phase] < Stage[drv.phase]
             \/ drv' = drv /\ UnitsOwed' \in 0 .. UnitsOwed - 1
  <2>0. drv \in Driver
    BY <1>1 DEF Inv
  <2>1. CASE Access \/ Transfer
    BY <1>1, <2>1, Nearer
  <2>2. CASE Issue \/ AskStatus \/ Recover \/ SendStop
    BY <2>0, <2>2 DEF Issue, AskStatus, Recover, SendStop, Enter, Driver, Stage
  <2>3. CASE TakeResponse \/ TakeEnd \/ TakeStatus
    BY <2>0, <2>3 DEF TakeResponse, TakeEnd, TakeStatus, Enter, Driver, Stage
  <2> QED BY <1>1, <2>1, <2>2, <2>3 DEF Step
<1>2. Inv /\ Expected /\ [SdNext]_sdVars =>
        [Step => \/ Stage[drv'.phase] < Stage[drv.phase]
                 \/ drv' = drv /\ UnitsOwed' \in 0 .. UnitsOwed - 1]_sdVars
  BY <1>1
<1> QED BY <1>2, AlwaysExpected, PTL DEF SdSpec, StepAdvances
=============================================================================
