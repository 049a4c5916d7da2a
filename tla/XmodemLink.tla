----------------------------- MODULE XmodemLink -----------------------------
(***************************************************************************)
(* xmodem_load() at the end of a serial line: the receiver of module       *)
(* Xmodem, the sender a terminal program runs at the other end, and the    *)
(* two directions of the line between them.                                *)
(*                                                                         *)
(* The sender and the line are not in the repository.  The sender is the   *)
(* one the comments of xmodem.c presume: it waits for a NAK "that tells    *)
(* the transmitter we are ready", sends a packet without pausing for a     *)
(* second inside it, repeats it on NAK, moves on at ACK, and ends the file *)
(* with EOT.  The line may damage what is sent; every transmission is      *)
(* damaged in at most one character, so that the 8-bit sum, which detects  *)
(* any one changed byte but not every pair, is not asked for more than it  *)
(* can do.                                                                 *)
(***************************************************************************)
EXTENDS Xmodem, SequencesExt

CONSTANTS
  File,          \* blocks the sender has to send
  Pending,       \* characters in the UART when the receiver starts
  LoseAt,        \* characters the line may lose: see Place
  ChangeAt,      \* characters the line may change
  AnswerFaults,  \* damage an answer may suffer: see Delivered
  MaxFaults,     \* bound on the number of damages
  SlowSender,    \* may the sender answer later than the receiver's deadline?
  MaxAnswers     \* bound on answers the sender has not looked at

ASSUME LinkAssumption ==
  /\ File \in Seq(Seq(Char))
  /\ \A k \in DOMAIN File : Len(File[k]) = DataLen
  /\ Pending \in Seq(Char)
  /\ LoseAt \subseteq {"SOH", "EOT", "body"}
  /\ ChangeAt \subseteq {"SOH", "EOT", "body"}
  /\ AnswerFaults \subseteq {"lose", "change"}
  /\ MaxFaults \in Nat
  /\ MaxAnswers \in Nat \ {0}
  /\ SlowSender \in BOOLEAN

VARIABLES
  line,     \* characters on their way to the receiver
  answers,  \* answers on their way to the sender
  sending,  \* index of the block being sent; 0 before the first NAK,
            \* Len(File) + 1 for EOT, Len(File) + 2 when EOT is acknowledged
  faults    \* damages done so far

linkVars == <<line, answers, sending, faults>>
allVars == <<vars, linkVars>>

LinkTypeOK ==
  /\ TypeOK
  /\ line \in Seq(Char)
  /\ answers \in Seq({ACK, NAK})
  /\ Len(answers) <= MaxAnswers
  /\ sending \in 0 .. Len(File) + 2
  /\ faults \in 0 .. MaxFaults

LinkInit ==
  /\ Init
  /\ line = Pending
  /\ answers = <<>>
  /\ sending = 0
  /\ faults = 0

-----------------------------------------------------------------------------
(* What the sender transmits for its index: a packet, then EOT.            *)
SumOf(block) ==
  LET sum[n \in 0 .. Len(block)] ==
        IF n = 0 THEN 0 ELSE (sum[n - 1] + block[n]) % ByteMod
  IN  sum

CheckSum(block) == SumOf(block)[Len(block)]

BlkNum(k) == k % ByteMod

Frame(k) ==
  IF k <= Len(File)
  THEN <<SOH, BlkNum(k), ByteMod - 1 - BlkNum(k)>>
         \o File[k] \o <<CheckSum(File[k])>>
  ELSE <<EOT>>

(* The ways one fault of the enabled kinds changes a transmission.         *)
Place(frame, i) ==
  CASE i > 1          -> "body"
    [] Len(frame) = 1 -> "EOT"
    [] OTHER          -> "SOH"

Damaged(frame) ==
  {RemoveAt(frame, i) :
     i \in {j \in DOMAIN frame : Place(frame, j) \in LoseAt}}
    \cup
  UNION {{[frame EXCEPT ![i] = c] : c \in Char \ {frame[i]}} :
     i \in {j \in DOMAIN frame : Place(frame, j) \in ChangeAt}}

Transmit(k) ==
  \/ /\ line' = line \o Frame(k)
     /\ UNCHANGED faults
  \/ /\ faults < MaxFaults
     /\ \E frame \in Damaged(Frame(k)) : line' = line \o frame
     /\ faults' = faults + 1

(* What arrives at the sender of one answer.                               *)
Delivered(answer) ==
  (IF "lose" \in AnswerFaults THEN {<<>>} ELSE {})
    \cup
  (IF "change" \in AnswerFaults THEN {<<a>> : a \in {ACK, NAK} \ {answer}}
                                ELSE {})

Answer(answer) ==
  IF answer = None
  THEN UNCHANGED <<answers, faults>>
  ELSE /\ Len(answers) < MaxAnswers
       /\ \/ /\ answers' = Append(answers, answer)
             /\ UNCHANGED faults
          \/ /\ faults < MaxFaults
             /\ \E a \in Delivered(answer) : answers' = answers \o a
             /\ faults' = faults + 1

-----------------------------------------------------------------------------
(* The receiver reads.  A character on the line is offered at once.  A     *)
(* silent line lets the read time out: with a prompt sender only when no   *)
(* answer is waiting for it.                                               *)
Offered ==
  IF line = <<>> THEN GETCHAR_TIMED_OUT ELSE Head(line)

Consumes == c_get_char_timout(Deadline, Offered) # GETCHAR_TIMED_OUT

Receive ==
  /\ line = <<>> /\ Deadline > 0 => SlowSender \/ answers = <<>>
  /\ Read(Offered)
  /\ line' = IF Consumes THEN Tail(line) ELSE line
  /\ Answer(put')
  /\ UNCHANGED sending

(* The sender acts on an answer.  Before it has started, and after the     *)
(* end, an ACK means nothing to it.                                        *)
SenderNak ==
  /\ answers # <<>> /\ Head(answers) = NAK
  /\ sending <= Len(File) + 1
  /\ answers' = Tail(answers)
  /\ sending' = IF sending = 0 THEN 1 ELSE sending
  /\ Transmit(sending')
  /\ UNCHANGED vars

SenderAck ==
  /\ answers # <<>> /\ Head(answers) = ACK
  /\ sending \in 1 .. Len(File)
  /\ answers' = Tail(answers)
  /\ sending' = sending + 1
  /\ Transmit(sending')
  /\ UNCHANGED vars

SenderEnd ==
  /\ answers # <<>>
  /\ \/ sending = 0 /\ Head(answers) = ACK
     \/ sending = Len(File) + 1 /\ Head(answers) = ACK
     \/ sending = Len(File) + 2
  /\ answers' = Tail(answers)
  /\ sending' = IF sending = 0 THEN 0 ELSE Len(File) + 2
  /\ UNCHANGED <<vars, line, faults>>

Sender == SenderNak \/ SenderAck \/ SenderEnd

LinkNext == Receive \/ Sender

LinkSpec == LinkInit /\ [][LinkNext]_allVars

(* The receiver polls and the sender, once started, answers.               *)
LinkFairness == WF_allVars(Receive) /\ WF_allVars(Sender)

LinkFairSpec == LinkSpec /\ LinkFairness

-----------------------------------------------------------------------------
(***************************************************************************)
(* Properties of the transfer.                                             *)
(***************************************************************************)

(* The image in memory is at every moment a prefix of the file: nothing    *)
(* the line does to packets and answers, and no repetition by a sender     *)
(* that answers late, makes xmodem_load() copy a block twice, skip one or  *)
(* copy a damaged one.                                                     *)
MemoryIsPrefix == IsPrefix(pmem, File)

(* "wait until transmitter pauses (indicating the end of any packet being  *)
(* sent) before proceeding to NAK the packet" (xmodem.c, Purge): a NAK     *)
(* leaves the receiver only when nothing of a packet is still to be read,  *)
(* or the rest of it would be taken for the repetition.                    *)
NakInPause == [][put' = NAK => line = <<>>]_allVars

(* What the sender counts as delivered is in memory: an ACK reaches it     *)
(* only for a block that was copied, so it may forget that block.          *)
AckedIsStored ==
  \A k \in DOMAIN File : k < sending => k <= Len(pmem)

(* Seen packet by packet, the transfer is the one of XmodemFrames.  What   *)
(* the receiver has read of a packet is still in flight; a line that is    *)
(* being purged is garbled.                                                *)
InFlight ==
  IF state = "ReceivePacket" THEN <<SOH>> \o rx_buf \o line ELSE line

(* What follows SOH passes the checks of xmodem_load().                    *)
Consistent(s) ==
  /\ Len(s) = DataLen + 3
  /\ s[2] = ByteMod - 1 - s[1]
  /\ s[DataLen + 3] = CheckSum(SubSeq(s, 3, DataLen + 2))

FrameRead(st, flight) ==
  LET Kinded(kind) == [kind |-> kind, num |-> 0, data |-> <<>>]
      sent == Tail(flight)
  IN  IF st = "Returned"                         THEN Kinded("none")
      ELSE IF st \in {"ClearPending", "Purge"}     THEN Kinded("garbled")
      ELSE IF flight = <<>>                        THEN Kinded("none")
      ELSE IF flight = <<EOT>>                     THEN Kinded("eot")
      ELSE IF Head(flight) = SOH /\ Consistent(sent)
           THEN [kind |-> "packet",
                 num  |-> sent[1],
                 data |-> SubSeq(sent, 3, DataLen + 2)]
      ELSE Kinded("garbled")

FrameInFlight == FrameRead(state, InFlight)

AnswerRead(waiting) ==
  CASE waiting = <<>>    -> "none"
    [] waiting = <<ACK>> -> "ACK"
    [] OTHER             -> "NAK"

AnswerInFlight == AnswerRead(answers)

Frames == INSTANCE XmodemFrames
            WITH Block    <- Seq(Char),
                 NoData   <- <<>>,
                 returned <- state = "Returned",
                 frame    <- FrameInFlight,
                 answer   <- AnswerInFlight
FramesSpec == Frames!Spec

(* Once the line behaves the download ends: damaged packets, lost answers  *)
(* and a lost EOT are all recovered by purge, NAK and repetition, and the  *)
(* two ends never wait for each other.                                     *)
ReceiverReturns == <>(state = "Returned")

(***************************************************************************)
(* Why memory stays a prefix when the sender answers in time and no answer *)
(* turns into the other one: there is one transmission or one answer at a  *)
(* time; what the receiver reads as a packet is the packet being sent, or  *)
(* it fails the checks; and the sender is at the last stored block or at   *)
(* the next one, which their numbers tell apart.                           *)
(***************************************************************************)
Prompt ==
  /\ ~ SlowSender
  /\ "change" \notin AnswerFaults
  /\ gSysClock # 0

OneAtATime ==
  /\ Len(answers) <= 1
  /\ answers # <<>> =>
       \/ state = "WaitForNewPacket" /\ line = <<>>
       \/ state = "Returned" /\ put = ACK

SenderAbreast ==
  state # "Returned" =>
    /\ sending \in {Len(pmem), Len(pmem) + 1}
    /\ answers = <<ACK>> => sending = Len(pmem) /\ sending > 0

LineIsCurrent ==
  state = "WaitForNewPacket" /\ line # <<>> =>
    /\ sending \in 1 .. Len(File) + 1
    /\ line \in {Frame(sending)} \cup Damaged(Frame(sending))

PacketIsCurrent ==
  state = "ReceivePacket" =>
    /\ Len(rx_buf \o line) <= DataLen + 3
    /\ sending \in 1 .. Len(File) + 1
    /\ Consistent(rx_buf \o line) =>
         /\ sending \in 1 .. Len(File)
         /\ rx_buf \o line = Tail(Frame(sending))

SumIsCurrent ==
  state = "ReceivePacket" => crc = CheckSum(SubSeq(rx_buf, 3, Len(rx_buf)))

LinkInv ==
  /\ LinkTypeOK
  /\ NumberMatchesMemory
  /\ MemoryIsPrefix
  /\ OneAtATime
  /\ SenderAbreast
  /\ LineIsCurrent
  /\ PacketIsCurrent
  /\ SumIsCurrent

(* Damage that turns no packet into an end of transmission: the receiver   *)
(* takes an EOT for the end wherever it looks for a packet, so SOH must    *)
(* not become one, nor the number behind a lost SOH be one.                *)
NoFalseEnd ==
  /\ "SOH" \notin ChangeAt
  /\ "SOH" \in LoseAt => \A k \in 1 .. Len(File) : BlkNum(k) # EOT

ReturnedAtEnd ==
  state = "Returned" =>
    /\ pmem = File
    /\ sending \in {Len(File) + 1, Len(File) + 2}
    /\ sending = Len(File) + 2 => answers = <<>>

EndInv == LinkInv /\ ReturnedAtEnd
=============================================================================
