----------------------------- MODULE FloppyProofs -----------------------------
(***************************************************************************)
(* Proofs about Floppy, for any medium, any number of retries and calls.   *)
(***************************************************************************)
EXTENDS Floppy, TLAPS

(* Types, for the device, the driver and the locals of a call. *)
FdcTypes == [phase : {"idle", "seeking", "executing", "result"},
             cmd : {"none", "read", "write"}, arg : Nat, ok : BOOLEAN]

DeviceTypes ==
  /\ disk \in [Sectors -> Data] /\ head \in Cylinders
  /\ fdc \in FdcTypes
  /\ sense \in [cyl : Cylinders \cup {UNKNOWN}, ok : BOOLEAN]
  /\ irq \in BOOLEAN

DriverTypes ==
  /\ event \in BOOLEAN /\ buffer \in Data /\ dma \in {"closed", "read", "write"}
  /\ cur_cylinder \in Cylinders \cup {UNKNOWN} /\ cur_status \in BOOLEAN

LocalTypes ==
  /\ lba \in Sectors /\ retries \in 0 .. RETRIES /\ recals \in 0 .. RETRIES
  /\ again \in BOOLEAN /\ dst \in Seq(Data)

Seeks == {"seek_wait", "recalibrate_wait"}
Statuses == {"seek_status", "recalibrate_status"}
Transfers == {"transfer_wait", "transfer_result"}

(* Where the arguments of a call are in force. *)
CallArgs ==
  IF at = "idle" THEN call = NoCall
  ELSE /\ call.op \in {"read", "write"} /\ call.count \in 1 .. 2
       /\ call.first \in Nat /\ call.first + call.count <= SectorCount
       /\ call.data \in Data
       /\ lba \in call.first .. call.first + call.count - 1

(* The controller has taken a command since the motor was switched on, so  *)
(* that it is not busy with a transfer of an earlier call.                 *)
Accepted ==
  /\ \/ at \in Seeks \cup Statuses
     \/ at \in {"seek_check", "seek_failed", "recalibrate", "recalibrate_command",
                "recalibrate_check", "open", "transfer", "transfer_command"}
     \/ at = "seek" /\ again
     \/ at = "seek_command" /\ again
     => fdc.phase \in {"idle", "seeking"}
  /\ at = "seek" /\ ~again => cur_cylinder = UNKNOWN
  /\ at \in {"open", "transfer", "transfer_command"} => cur_cylinder = Target

Channel ==
  /\ ChannelClosed
  /\ at \in Transferring => dma = call.op
  /\ dma = "write" => buffer = call.data
  /\ fdc.phase = "executing" /\ dma # "closed" => fdc.cmd = call.op /\ fdc.arg = lba

Panic ==
  "transfer" \notin late =>
    /\ ~halted
    /\ fdc.phase \in {"executing", "result"} => at \in Transfers

(* Without timeouts the interrupt belongs to the command waited for, and   *)
(* the driver knows the cylinder that the head is on.                      *)
Punctual ==
  late = {} =>
    CASE at \in Seeks -> \/ fdc.phase = "seeking" /\ ~irq /\ ~event
                         \/ fdc.phase = "idle" /\ irq # event /\ sense.cyl = head
      [] at \in Statuses -> fdc.phase = "idle" /\ ~irq /\ ~event /\ sense.cyl = head
      [] at = "transfer_wait" -> \/ fdc.phase = "executing" /\ ~irq /\ ~event
                                 \/ fdc.phase = "result" /\ irq # event
      [] at = "transfer_result" -> fdc.phase = "result" /\ ~irq /\ ~event
      [] OTHER -> fdc.phase = "idle" /\ ~irq /\ ~event

Located ==
  late = {} /\ at \notin Seeks \cup Statuses => cur_cylinder \in {UNKNOWN, head}

(* Sectors of the call that are done, and what has been done with them. *)
Done == lba - call.first + (IF at = "close_success" THEN 1 ELSE 0)

Outcome ==
  at \in Transfers /\ fdc.phase = "result" /\ fdc.ok =>
    disk[lba] = IF call.op = "read" THEN buffer ELSE call.data

Contents ==
  /\ call.op = "read" => /\ Len(dst) = Done
                         /\ \A i \in 1 .. Done : dst[i] = disk[call.first + i - 1]
  /\ call.op = "write" => \A s \in call.first .. call.first + Done - 1 : disk[s] = call.data

IInv ==
  /\ DeviceTypes /\ DriverTypes /\ LocalTypes
  /\ CallArgs /\ Accepted /\ Channel /\ Panic /\ Punctual /\ Located
  /\ Outcome /\ Contents

(* What the constants imply about cylinders, sectors and counts of retries. *)
LEMMA Ranges ==
  /\ UNKNOWN \notin Cylinders /\ 0 \in Cylinders /\ 0 \in Sectors
  /\ \A s \in Sectors : Cylinder(s) \in Cylinders /\ Cylinder(s) # UNKNOWN /\ Cylinder(s) \in Nat
  /\ Sectors \subseteq Nat
  /\ RETRIES \in Nat /\ 0 \in 0 .. RETRIES /\ RETRIES \in 0 .. RETRIES
  /\ << >> \in Seq(Data)
<1>1. \A s \in Sectors : Cylinder(s) \in 0 .. SectorCount
  BY FloppyAssumption DEF Sectors, Cylinder
<1>2. 0 \in Sectors /\ Cylinder(0) = 0
  BY FloppyAssumption DEF Sectors, Cylinder
<1>3. UNKNOWN \notin Cylinders /\ 0 \in Cylinders
  BY <1>1, <1>2, FloppyAssumption DEF Cylinders
<1>4. \A s \in Sectors : Cylinder(s) \in Cylinders /\ Cylinder(s) # UNKNOWN /\ Cylinder(s) \in Nat
  BY <1>1, FloppyAssumption DEF Cylinders
<1> QED
  BY <1>2, <1>3, <1>4, FloppyAssumption DEF Sectors

(* Commands and results have the types of the controller's registers.      *)
LEMMA Commands ==
  /\ \A c \in Nat : Seeking(c) \in FdcTypes
  /\ call.op \in {"read", "write"} /\ lba \in Nat => Transfer \in FdcTypes
  /\ Quiet \in FdcTypes
  /\ \A ok \in BOOLEAN : fdc \in FdcTypes => [fdc EXCEPT !.phase = "result", !.ok = ok] \in FdcTypes
BY DEF FdcTypes, Seeking, Transfer, Quiet

(* The disk is written only by the call in progress. *)
LEMMA Written ==
  ASSUME DeviceTypes, CallArgs, Channel, FinishTransfer
  PROVE  /\ UNCHANGED <<call, lba, dst, at>>
         /\ \/ disk' = disk
            \/ /\ disk' = [disk EXCEPT ![lba] = call.data]
               /\ call.op = "write" /\ at \in Transferring
         /\ fdc'.phase = "result"
         /\ fdc'.ok => /\ at \in Transferring
                       /\ call.op = "read" => buffer' = disk[lba] /\ disk' = disk
                       /\ call.op = "write" => disk' = [disk EXCEPT ![lba] = call.data]
<1>1. PICK ok \in BOOLEAN :
        /\ ok => CanTransfer
        /\ disk' = IF ok /\ fdc.cmd = "write" THEN [disk EXCEPT ![fdc.arg] = buffer] ELSE disk
        /\ buffer' = IF ok /\ fdc.cmd = "read" THEN disk[fdc.arg] ELSE buffer
        /\ fdc' = [fdc EXCEPT !.phase = "result", !.ok = ok]
  BY DEF FinishTransfer
<1>2. fdc'.phase = "result" /\ fdc'.ok = ok /\ fdc.cmd \in {"none", "read", "write"}
  BY <1>1 DEF DeviceTypes, FdcTypes
<1>3. UNCHANGED <<call, lba, dst, at>> /\ fdc.phase = "executing"
  BY DEF FinishTransfer, localVars
<1>4. CASE ok
  <2>1. at \in Transferring /\ call.op \in {"read", "write"}
        /\ fdc.cmd = call.op /\ fdc.arg = lba /\ (call.op = "write" => buffer = call.data)
    <3>1. dma = fdc.cmd
      BY <1>1, <1>4 DEF CanTransfer
    <3>2. dma # "closed"
      BY <1>2, <3>1
    <3>3. at \in Transferring
      BY <3>2 DEF Channel, ChannelClosed
    <3>4. fdc.cmd = call.op /\ fdc.arg = lba /\ dma = call.op
      BY <1>3, <3>2, <3>3 DEF Channel
    <3>5. at # "idle"
      BY <3>3 DEF Transferring
    <3> QED
      BY <3>3, <3>4, <3>5 DEF Channel, CallArgs
  <2> QED
    BY <1>1, <1>2, <1>3, <1>4, <2>1
<1>5. CASE ~ok
  BY <1>1, <1>2, <1>3, <1>5
<1> QED
  BY <1>4, <1>5

(* What was done stays done while the sectors and the call stay the same.  *)
(* Contents holds on while a sector is under way, and after the call.      *)
LEMMA ContentsFrame ==
  ASSUME Contents, UNCHANGED <<disk, call, lba, dst>>,
         at # "close_success", at' # "close_success"
  PROVE  Contents'
BY DEF Contents, Done

LEMMA ContentsReturn ==
  ASSUME call' = NoCall
  PROVE  Contents'
BY DEF Contents, NoCall

(* The invariant holds at first, and each of its parts is kept by each      *)
(* action; every part names the others that it needs.                       *)
LEMMA InitInv == Init => IInv
<1> SUFFICES ASSUME Init PROVE IInv
  OBVIOUS
<1>1. DeviceTypes /\ DriverTypes /\ LocalTypes
  BY Ranges, Commands DEF DeviceTypes, DriverTypes, LocalTypes, Init, NoSense
<1>2. CallArgs /\ Accepted /\ Channel /\ Panic
  BY
     DEF Init, Quiet, NoCall, CallArgs, Accepted, Channel, Panic, Seeks,
         Statuses, ChannelClosed, Transferring
<1>3. Punctual /\ Located /\ Outcome /\ Contents
  BY
     DEF Init, Quiet, NoCall, Punctual, Located, Outcome, Contents, Seeks,
         Statuses, Transfers
<1> QED
  BY <1>1, <1>2, <1>3 DEF IInv

LEMMA StepDeviceTypes ==
  ASSUME DeviceTypes, CallArgs, DriverTypes, LocalTypes, [Next]_vars
  PROVE  DeviceTypes'
<1>1. CASE UNCHANGED vars
  BY <1>1 DEF DeviceTypes, vars, deviceVars
<1>2. ASSUME NEW op \in {"read", "write"}, NEW first \in Sectors, NEW count \in 1 .. 2,
             NEW d \in Data, Begin(op, first, count, d)
      PROVE  DeviceTypes'
  BY <1>2 DEF Begin, DeviceTypes, Keep, deviceVars
<1>3. CASE fdc_set_motor_state
  BY <1>3 DEF fdc_set_motor_state, DeviceTypes, deviceVars
<1>4. CASE fdc_seek
  <2>1. CASE SkipSeek
    BY <2>1 DEF SkipSeek, DeviceTypes, Keep, deviceVars
  <2>2. CASE StartSeek
    BY <2>2 DEF StartSeek, ResetEvent, DeviceTypes, deviceVars
  <2>3. CASE Command("seek_command", "seek_wait", Seeking(Target))
    <3>1. Target \in Nat
      BY Ranges DEF LocalTypes, Target
    <3> QED
      BY <2>3, <3>1, Commands DEF Command, DeviceTypes
  <2>4. CASE Wakes("seek_wait", "seek_status")
    BY <2>4 DEF Wakes, DeviceTypes, deviceVars
  <2>5. CASE Timeout("seek_wait", "seek_failed")
    BY <2>5 DEF Timeout, DeviceTypes, Keep, deviceVars
  <2>6. CASE Sis("seek_status", "seek_check")
    BY <2>6 DEF Sis, NoSense, DeviceTypes
  <2>7. CASE SisFails("seek_status") /\ at' = "seek_failed" /\ Locals
    BY <2>7 DEF SisFails, DeviceTypes, deviceVars
  <2> QED
    BY <1>4, <2>1, <2>2, <2>3, <2>4, <2>5, <2>6, <2>7 DEF fdc_seek
<1>5. CASE CheckSeek
  BY <1>5 DEF CheckSeek, DeviceTypes, Keep, deviceVars
<1>6. CASE SeekFailed
  BY <1>6 DEF SeekFailed, DeviceTypes, Keep, deviceVars
<1>7. CASE fdc_recalibrate
  <2>1. CASE recals = 0 /\ Give_up("recalibrate") /\ Keep
    BY <2>1 DEF DeviceTypes, Keep, deviceVars
  <2>2. CASE /\ recals > 0 /\ Goes("recalibrate", "recalibrate_command")
           /\ event' = FALSE /\ recals' = recals - 1
           /\ UNCHANGED <<deviceVars, dma, buffer, cur_cylinder, cur_status, halted>>
           /\ UNCHANGED <<call, lba, retries, again, dst, answer, calls, late>>
    BY <2>2 DEF DeviceTypes, deviceVars
  <2>3. CASE Command("recalibrate_command", "recalibrate_wait", Seeking(0))
    BY <2>3, Commands DEF Command, DeviceTypes
  <2>4. CASE Wakes("recalibrate_wait", "recalibrate_status")
    BY <2>4 DEF Wakes, DeviceTypes, deviceVars
  <2>5. CASE Timeout("recalibrate_wait", "recalibrate")
    BY <2>5 DEF Timeout, DeviceTypes, Keep, deviceVars
  <2>6. CASE Sis("recalibrate_status", "recalibrate_check")
    BY <2>6 DEF Sis, NoSense, DeviceTypes
  <2>7. CASE SisFails("recalibrate_status") /\ Give_up("recalibrate_status")
    BY <2>7 DEF SisFails, DeviceTypes, deviceVars
  <2>8. CASE /\ cur_cylinder = 0 /\ Goes("recalibrate_check", "seek") /\ again' = TRUE /\ Keep
           /\ UNCHANGED <<call, lba, retries, recals, dst, answer, calls, late>>
    BY <2>8 DEF DeviceTypes, Keep, deviceVars
  <2>9. CASE cur_cylinder # 0 /\ Goes("recalibrate_check", "recalibrate") /\ Keep /\ Locals
    BY <2>9 DEF DeviceTypes, Keep, deviceVars
  <2> QED
    BY <1>7, <2>1, <2>2, <2>3, <2>4, <2>5, <2>6, <2>7, <2>8, <2>9
       DEF fdc_recalibrate
<1>8. CASE isadma_open_channel
  BY <1>8 DEF isadma_open_channel, DeviceTypes, deviceVars
<1>9. CASE TransferSector
  <2>1. CASE ResetEvent("transfer", "transfer_command")
    BY <2>1 DEF ResetEvent, DeviceTypes, deviceVars
  <2>2. CASE Command("transfer_command", "transfer_wait", Transfer)
    <3>1. lba \in Nat /\ call.op \in {"read", "write"}
      BY <2>2 DEF CallArgs, Command, Goes
    <3> QED
      BY <2>2, <3>1, Commands DEF Command, DeviceTypes
  <2>3. CASE Wakes("transfer_wait", "transfer_result")
    BY <2>3 DEF Wakes, DeviceTypes, deviceVars
  <2>4. CASE TransferTimesOut
    BY <2>4 DEF TransferTimesOut, DeviceTypes, Keep, deviceVars
  <2>5. CASE Results("close_success", TRUE)
    BY <2>5, Commands DEF Results, ResultRead, DeviceTypes
  <2>6. CASE Results("close_retry", FALSE)
    BY <2>6, Commands DEF Results, ResultRead, DeviceTypes
  <2> QED
    BY <1>9, <2>1, <2>2, <2>3, <2>4, <2>5, <2>6 DEF TransferSector
<1>10. CASE CloseAndGoOn
  BY <1>10 DEF CloseAndGoOn, Closing, DeviceTypes, deviceVars
<1>11. CASE FifoPanic
  BY <1>11 DEF FifoPanic, DeviceTypes, deviceVars
<1>12. CASE FinishSeek
  <2>1. sense' \in [cyl : Cylinders \cup {UNKNOWN}, ok : BOOLEAN]
    BY <1>12 DEF FinishSeek
  <2> QED
    BY <1>12, <2>1, Commands DEF FinishSeek, DeviceTypes
<1>13. CASE FinishTransfer
  <2>1. fdc' \in FdcTypes
    BY <1>13, Commands DEF FinishTransfer, DeviceTypes
  <2>2. disk' \in [Sectors -> Data]
    BY <1>13 DEF FinishTransfer, DeviceTypes, DriverTypes
  <2> QED
    BY <1>13, <2>1, <2>2 DEF FinishTransfer, DeviceTypes
<1>14. CASE fdc_isr
  BY <1>14 DEF fdc_isr, DeviceTypes
<1>15. CASE Refuse
  BY <1>15 DEF Refuse, DeviceTypes, Keep, Goes, deviceVars, localVars
<1> QED
  BY <1>1, <1>2, <1>3, <1>4, <1>5, <1>6, <1>7, <1>8, <1>9, <1>10, <1>11, <1>12,
     <1>13, <1>14, <1>15
     DEF Next, Driver

LEMMA StepDriverTypes ==
  ASSUME DriverTypes, CallArgs, DeviceTypes, LocalTypes, Channel, [Next]_vars
  PROVE  DriverTypes'
<1>1. CASE UNCHANGED vars
  BY <1>1 DEF DriverTypes, vars
<1>2. ASSUME NEW op \in {"read", "write"}, NEW first \in Sectors, NEW count \in 1 .. 2,
             NEW d \in Data, Begin(op, first, count, d)
      PROVE  DriverTypes'
  BY <1>2 DEF Begin, DriverTypes, Keep
<1>3. CASE fdc_set_motor_state
  BY <1>3 DEF fdc_set_motor_state, DriverTypes
<1>4. CASE fdc_seek
  BY <1>4
     DEF fdc_seek, SkipSeek, StartSeek, ResetEvent, Command, Wakes, Timeout,
         Sis, SisFails, DriverTypes, DeviceTypes, Keep
<1>5. CASE CheckSeek
  BY <1>5 DEF CheckSeek, DriverTypes, Keep
<1>6. CASE SeekFailed
  BY <1>6 DEF SeekFailed, DriverTypes, Keep
<1>7. CASE fdc_recalibrate
  BY <1>7
     DEF fdc_recalibrate, Command, Wakes, Timeout, Sis, SisFails, DriverTypes,
         DeviceTypes, Keep
<1>8. CASE isadma_open_channel
  BY <1>8 DEF isadma_open_channel, DriverTypes, CallArgs, Goes
<1>9. CASE TransferSector
  BY <1>9
     DEF TransferSector, ResetEvent, Command, Transfer, Wakes, TransferTimesOut,
         Results, ResultRead, DriverTypes, Keep
<1>10. CASE CloseAndGoOn
  BY <1>10 DEF CloseAndGoOn, Closing, Closed, DriverTypes
<1>11. CASE FifoPanic
  BY <1>11 DEF FifoPanic, DriverTypes
<1>12. CASE FinishSeek
  BY <1>12 DEF FinishSeek, DriverTypes
<1>13. CASE FinishTransfer
  <2>1. fdc.ok \in BOOLEAN
    BY DEF DeviceTypes, FdcTypes
  <2>2. buffer' \in Data
    <3>1. PICK ok \in BOOLEAN :
            /\ ok => CanTransfer
            /\ buffer' = IF ok /\ fdc.cmd = "read" THEN disk[fdc.arg] ELSE buffer
      BY <1>13 DEF FinishTransfer
    <3>2. CASE ok /\ fdc.cmd = "read"
      <4>1. fdc.arg = lba
        BY <1>13, <3>1, <3>2 DEF CanTransfer, FinishTransfer, Channel
      <4> QED
        BY <3>1, <3>2, <4>1 DEF DeviceTypes, LocalTypes
    <3> QED
      BY <3>1, <3>2 DEF DriverTypes
  <2> QED
    BY <1>13, <2>2 DEF FinishTransfer, DriverTypes
<1>14. CASE fdc_isr
  BY <1>14 DEF fdc_isr, DriverTypes
<1>15. CASE Refuse
  BY <1>15 DEF Refuse, DriverTypes, Keep, Goes, deviceVars, localVars
<1> QED
  BY <1>1, <1>2, <1>3, <1>4, <1>5, <1>6, <1>7, <1>8, <1>9, <1>10, <1>11, <1>12,
     <1>13, <1>14, <1>15
     DEF Next, Driver

LEMMA StepLocalTypes ==
  ASSUME LocalTypes, DriverTypes, CallArgs, [Next]_vars
  PROVE  LocalTypes'
<1>1. CASE UNCHANGED vars
  BY <1>1 DEF LocalTypes, vars, localVars
<1>2. ASSUME NEW op \in {"read", "write"}, NEW first \in Sectors, NEW count \in 1 .. 2,
             NEW d \in Data, Begin(op, first, count, d)
      PROVE  LocalTypes'
  BY <1>2, Ranges DEF Begin, LocalTypes
<1>3. CASE fdc_set_motor_state
  BY <1>3 DEF fdc_set_motor_state, LocalTypes
<1>4. CASE fdc_seek
  BY <1>4
     DEF fdc_seek, SkipSeek, StartSeek, ResetEvent, Command, Wakes, Timeout,
         Sis, SisFails, LocalTypes, Locals, localVars
<1>5. CASE CheckSeek
  BY <1>5 DEF CheckSeek, LocalTypes, Locals, localVars
<1>6. CASE SeekFailed
  <2>1. CASE /\ ~again /\ Goes("seek_failed", "recalibrate")
           /\ recals' = RETRIES /\ Keep
           /\ UNCHANGED <<call, lba, retries, again, dst, answer, calls, late>>
    BY <2>1, Ranges DEF LocalTypes
  <2>2. CASE again /\ Give_up("seek_failed") /\ Keep
    BY <2>2, Ranges DEF LocalTypes, Give_up, Return
  <2> QED
    BY <1>6, <2>1, <2>2 DEF SeekFailed
<1>7. CASE fdc_recalibrate
  <2>1. CASE recals = 0 /\ Give_up("recalibrate") /\ Keep
    BY <2>1, Ranges DEF LocalTypes, Give_up, Return
  <2>2. CASE /\ recals > 0 /\ Goes("recalibrate", "recalibrate_command")
           /\ event' = FALSE /\ recals' = recals - 1
           /\ UNCHANGED <<deviceVars, dma, buffer, cur_cylinder, cur_status, halted>>
           /\ UNCHANGED <<call, lba, retries, again, dst, answer, calls, late>>
    BY <2>2, Ranges DEF LocalTypes
  <2>3. CASE Command("recalibrate_command", "recalibrate_wait", Seeking(0))
    BY <2>3 DEF Command, LocalTypes, Locals, localVars
  <2>4. CASE Wakes("recalibrate_wait", "recalibrate_status")
    BY <2>4 DEF Wakes, LocalTypes, Locals, localVars
  <2>5. CASE Timeout("recalibrate_wait", "recalibrate")
    BY <2>5 DEF Timeout, LocalTypes
  <2>6. CASE Sis("recalibrate_status", "recalibrate_check")
    BY <2>6 DEF Sis, LocalTypes, Locals, localVars
  <2>7. CASE SisFails("recalibrate_status") /\ Give_up("recalibrate_status")
    BY <2>7, Ranges DEF LocalTypes, Give_up, Return
  <2>8. CASE /\ cur_cylinder = 0 /\ Goes("recalibrate_check", "seek") /\ again' = TRUE /\ Keep
           /\ UNCHANGED <<call, lba, retries, recals, dst, answer, calls, late>>
    BY <2>8 DEF LocalTypes
  <2>9. CASE cur_cylinder # 0 /\ Goes("recalibrate_check", "recalibrate") /\ Keep /\ Locals
    BY <2>9 DEF LocalTypes, Locals, localVars
  <2> QED
    BY <1>7, <2>1, <2>2, <2>3, <2>4, <2>5, <2>6, <2>7, <2>8, <2>9
       DEF fdc_recalibrate
<1>8. CASE isadma_open_channel
  BY <1>8 DEF isadma_open_channel, LocalTypes, Locals, localVars
<1>9. CASE TransferSector
  <2>1. CASE ResetEvent("transfer", "transfer_command")
    BY <2>1 DEF ResetEvent, LocalTypes, Locals, localVars
  <2>2. CASE Command("transfer_command", "transfer_wait", Transfer)
    BY <2>2 DEF Command, Transfer, LocalTypes, Locals, localVars
  <2>3. CASE Wakes("transfer_wait", "transfer_result")
    BY <2>3 DEF Wakes, LocalTypes, Locals, localVars
  <2>4. CASE TransferTimesOut
    BY <2>4 DEF TransferTimesOut, LocalTypes
  <2>5. CASE Results("close_success", TRUE)
    BY <2>5 DEF Results, LocalTypes, DriverTypes
  <2>6. CASE Results("close_retry", FALSE)
    BY <2>6 DEF Results, ResultRead, LocalTypes
  <2> QED
    BY <1>9, <2>1, <2>2, <2>3, <2>4, <2>5, <2>6 DEF TransferSector
<1>10. CASE CloseAndGoOn
  <2>1. CASE /\ Goes("close_retry", "select") /\ retries > 0 /\ retries' = Less(retries) /\ Closing
           /\ UNCHANGED <<call, lba, recals, again, dst, answer, calls, late>>
    BY <2>1, Ranges DEF Closing, Less, LocalTypes
  <2>2. CASE retries = 0 /\ Give_up("close_retry") /\ Closing
    BY <2>2, Ranges DEF LocalTypes, Give_up, Return
  <2>3. CASE Give_up("close_timeout") /\ Closing
    BY <2>3, Ranges DEF LocalTypes, Give_up, Return
  <2>4. CASE /\ lba + 1 < call.first + call.count /\ Goes("close_success", "select")
           /\ lba' = lba + 1 /\ retries' = RETRIES /\ Closing
           /\ UNCHANGED <<call, recals, again, dst, answer, calls, late>>
    <3>1. lba \in Nat /\ lba + 1 \in Sectors
      BY <2>4, FloppyAssumption DEF CallArgs, Goes, Sectors
    <3> QED
      BY <2>4, <3>1, Ranges DEF LocalTypes
  <2>5. CASE /\ lba + 1 = call.first + call.count /\ Closing
           /\ Return("close_success", [ok |-> TRUE, data |-> dst])
    BY <2>5, Ranges DEF LocalTypes, Return
  <2> QED
    BY <1>10, <2>1, <2>2, <2>3, <2>4, <2>5 DEF CloseAndGoOn
<1>11. CASE FifoPanic
  BY <1>11 DEF FifoPanic, LocalTypes, Locals, localVars
<1>12. CASE FinishSeek
  BY <1>12 DEF FinishSeek, LocalTypes, localVars
<1>13. CASE FinishTransfer
  BY <1>13 DEF FinishTransfer, LocalTypes, localVars
<1>14. CASE fdc_isr
  BY <1>14 DEF fdc_isr, LocalTypes, localVars
<1>15. CASE Refuse
  BY <1>15 DEF Refuse, LocalTypes, localVars, Keep, Goes, deviceVars
<1> QED
  BY <1>1, <1>2, <1>3, <1>4, <1>5, <1>6, <1>7, <1>8, <1>9, <1>10, <1>11, <1>12,
     <1>13, <1>14, <1>15
     DEF Next, Driver

LEMMA StepCallArgs ==
  ASSUME CallArgs, [Next]_vars
  PROVE  CallArgs'
<1>1. CASE UNCHANGED vars
  BY <1>1 DEF CallArgs, vars, localVars
<1>2. ASSUME NEW op \in {"read", "write"}, NEW first \in Sectors, NEW count \in 1 .. 2,
             NEW d \in Data, Begin(op, first, count, d)
      PROVE  CallArgs'
  BY <1>2, Ranges DEF Begin, CallArgs, Goes
<1>3. CASE fdc_set_motor_state
  BY <1>3 DEF fdc_set_motor_state, CallArgs, Goes
<1>4. CASE fdc_seek
  BY <1>4
     DEF fdc_seek, SkipSeek, StartSeek, ResetEvent, Command, Wakes, Timeout,
         Sis, SisFails, CallArgs, Locals, Goes, localVars
<1>5. CASE CheckSeek
  BY <1>5 DEF CheckSeek, CallArgs, Locals, Goes, localVars
<1>6. CASE SeekFailed
  BY <1>6 DEF SeekFailed, Give_up, Return, CallArgs, Goes
<1>7. CASE fdc_recalibrate
  BY <1>7
     DEF fdc_recalibrate, Give_up, Return, Command, Wakes, Timeout, Sis,
         SisFails, CallArgs, Locals, Goes, localVars
<1>8. CASE isadma_open_channel
  BY <1>8 DEF isadma_open_channel, CallArgs, Locals, Goes, localVars
<1>9. CASE TransferSector
  BY <1>9
     DEF TransferSector, ResetEvent, Command, Transfer, Wakes, TransferTimesOut,
         Results, ResultRead, CallArgs, Locals, Goes, localVars
<1>10. CASE CloseAndGoOn
  BY <1>10 DEF CloseAndGoOn, Closing, Give_up, Return, CallArgs, Goes
<1>11. CASE FifoPanic
  BY <1>11 DEF FifoPanic, CallArgs, Locals, localVars
<1>12. CASE FinishSeek
  BY <1>12 DEF FinishSeek, CallArgs, localVars
<1>13. CASE FinishTransfer
  BY <1>13 DEF FinishTransfer, CallArgs, localVars
<1>14. CASE fdc_isr
  BY <1>14 DEF fdc_isr, CallArgs, localVars
<1>15. CASE Refuse
  BY <1>15 DEF Refuse, CallArgs, localVars, Keep, Goes, deviceVars
<1> QED
  BY <1>1, <1>2, <1>3, <1>4, <1>5, <1>6, <1>7, <1>8, <1>9, <1>10, <1>11, <1>12,
     <1>13, <1>14, <1>15
     DEF Next, Driver

LEMMA StepAccepted ==
  ASSUME Accepted, LocalTypes, [Next]_vars
  PROVE  Accepted'
<1>1. CASE UNCHANGED vars
  BY <1>1 DEF Accepted, Target, vars, deviceVars, localVars
<1>2. ASSUME NEW op \in {"read", "write"}, NEW first \in Sectors, NEW count \in 1 .. 2,
             NEW d \in Data, Begin(op, first, count, d)
      PROVE  Accepted'
  BY <1>2 DEF Begin, Accepted, Seeks, Statuses, Goes
<1>3. CASE fdc_set_motor_state
  BY <1>3 DEF fdc_set_motor_state, Accepted, Seeks, Statuses, Goes
<1>4. CASE fdc_seek
  <2>1. CASE SkipSeek
    BY <2>1, Ranges
       DEF SkipSeek, Accepted, LocalTypes, Target, Keep, Locals, Goes,
           deviceVars, localVars
  <2>2. CASE StartSeek
    BY <2>2
       DEF StartSeek, ResetEvent, Accepted, Seeks, Statuses, Locals, Goes,
           deviceVars, localVars
  <2>3. CASE Command("seek_command", "seek_wait", Seeking(Target))
    BY <2>3 DEF Command, Seeking, Accepted, Goes
  <2>4. CASE Wakes("seek_wait", "seek_status")
    BY <2>4 DEF Wakes, Accepted, Seeks, Goes, deviceVars
  <2>5. CASE Timeout("seek_wait", "seek_failed")
    BY <2>5 DEF Timeout, Accepted, Seeks, Keep, Goes, deviceVars
  <2>6. CASE Sis("seek_status", "seek_check")
    BY <2>6 DEF Sis, Accepted, Goes
  <2>7. CASE SisFails("seek_status") /\ at' = "seek_failed" /\ Locals
    BY <2>7 DEF SisFails, Accepted, deviceVars
  <2> QED
    BY <1>4, <2>1, <2>2, <2>3, <2>4, <2>5, <2>6, <2>7 DEF fdc_seek
<1>5. CASE CheckSeek
  BY <1>5
     DEF CheckSeek, Sought, Accepted, Target, Keep, Locals, Goes, deviceVars,
         localVars
<1>6. CASE SeekFailed
  BY <1>6 DEF SeekFailed, Give_up, Return, Accepted, Keep, Goes, deviceVars
<1>7. CASE fdc_recalibrate
  BY <1>7
     DEF fdc_recalibrate, Give_up, Return, Command, Seeking, Quiet, Wakes,
         Timeout, Sis, SisFails, Accepted, Seeks, Keep, Goes, deviceVars
<1>8. CASE isadma_open_channel
  BY <1>8
     DEF isadma_open_channel, Accepted, Target, Locals, Goes, deviceVars,
         localVars
<1>9. CASE TransferSector
  BY <1>9
     DEF TransferSector, ResetEvent, Command, Transfer, Wakes, TransferTimesOut,
         Results, ResultRead, Accepted, Seeks, Statuses, Target, Locals, Goes,
         deviceVars, localVars
<1>10. CASE CloseAndGoOn
  BY <1>10
     DEF CloseAndGoOn, Closing, Give_up, Return, Accepted, Seeks, Statuses, Goes
<1>11. CASE FifoPanic
  BY <1>11 DEF FifoPanic, Accepted, Locals, localVars
<1>12. CASE FinishSeek
  BY <1>12 DEF FinishSeek, Quiet, Accepted, Target, localVars
<1>13. CASE FinishTransfer
  BY <1>13 DEF FinishTransfer, Accepted, localVars
<1>14. CASE fdc_isr
  BY <1>14 DEF fdc_isr, Accepted, Target, localVars
<1>15. CASE Refuse
  BY <1>15 DEF Refuse, Accepted, Target, localVars, Keep, Goes, deviceVars
<1> QED
  BY <1>1, <1>2, <1>3, <1>4, <1>5, <1>6, <1>7, <1>8, <1>9, <1>10, <1>11, <1>12,
     <1>13, <1>14, <1>15
     DEF Next, Driver

LEMMA StepChannel ==
  ASSUME Channel, CallArgs, Accepted, [Next]_vars
  PROVE  Channel'
<1>1. CASE UNCHANGED vars
  BY <1>1 DEF Channel, ChannelClosed, vars, deviceVars, localVars
<1>2. ASSUME NEW op \in {"read", "write"}, NEW first \in Sectors, NEW count \in 1 .. 2,
             NEW d \in Data, Begin(op, first, count, d)
      PROVE  Channel'
  BY <1>2 DEF Begin, Channel, ChannelClosed, Transferring, Keep, Goes
<1>3. CASE fdc_set_motor_state
  BY <1>3 DEF fdc_set_motor_state, Channel, ChannelClosed, Transferring, Goes
<1>4. CASE fdc_seek
  BY <1>4
     DEF fdc_seek, SkipSeek, StartSeek, ResetEvent, Command, Wakes, Timeout,
         Sis, SisFails, Channel, ChannelClosed, Transferring, Keep, Goes
<1>5. CASE CheckSeek
  BY <1>5 DEF CheckSeek, Channel, ChannelClosed, Transferring, Keep, Goes
<1>6. CASE SeekFailed
  BY <1>6
     DEF SeekFailed, Give_up, Return, Channel, ChannelClosed, Transferring,
         Keep, Goes
<1>7. CASE fdc_recalibrate
  BY <1>7
     DEF fdc_recalibrate, Give_up, Return, Command, Wakes, Timeout, Sis,
         SisFails, Channel, ChannelClosed, Transferring, Keep, Goes
<1>8. CASE isadma_open_channel
  BY <1>8
     DEF isadma_open_channel, Channel, ChannelClosed, Transferring, Accepted,
         Locals, Goes, deviceVars, localVars
<1>9. CASE TransferSector
  <2>1. CASE ResetEvent("transfer", "transfer_command")
    BY <2>1
       DEF ResetEvent, Channel, ChannelClosed, Transferring, Locals, Goes,
           deviceVars, localVars
  <2>2. CASE Command("transfer_command", "transfer_wait", Transfer)
    BY <2>2
       DEF Command, Transfer, Channel, ChannelClosed, Transferring, Locals,
           Goes, localVars
  <2>3. CASE Wakes("transfer_wait", "transfer_result")
    BY <2>3
       DEF Wakes, Channel, ChannelClosed, Transferring, Locals, Goes,
           deviceVars, localVars
  <2>4. CASE TransferTimesOut
    BY <2>4
       DEF TransferTimesOut, Channel, ChannelClosed, Transferring, Keep, Goes,
           deviceVars
  <2>5. CASE Results("close_success", TRUE)
    BY <2>5
       DEF Results, ResultRead, Quiet, Channel, ChannelClosed, Transferring,
           Goes
  <2>6. CASE Results("close_retry", FALSE)
    BY <2>6
       DEF Results, ResultRead, Quiet, Channel, ChannelClosed, Transferring,
           Goes
  <2> QED
    BY <1>9, <2>1, <2>2, <2>3, <2>4, <2>5, <2>6 DEF TransferSector
<1>10. CASE CloseAndGoOn
  BY <1>10
     DEF CloseAndGoOn, Closing, Closed, Give_up, Return, Channel, ChannelClosed,
         Transferring, Goes
<1>11. CASE FifoPanic
  BY <1>11 DEF FifoPanic, Channel, ChannelClosed, Locals, deviceVars, localVars
<1>12. CASE FinishSeek
  BY <1>12 DEF FinishSeek, Quiet, Channel, ChannelClosed, localVars
<1>13. CASE FinishTransfer
  BY <1>13 DEF FinishTransfer, Channel, ChannelClosed, localVars
<1>14. CASE fdc_isr
  BY <1>14 DEF fdc_isr, Channel, ChannelClosed, localVars
<1>15. CASE Refuse
  BY <1>15 DEF Refuse, Channel, ChannelClosed, localVars, Keep, Goes, deviceVars
<1> QED
  BY <1>1, <1>2, <1>3, <1>4, <1>5, <1>6, <1>7, <1>8, <1>9, <1>10, <1>11, <1>12,
     <1>13, <1>14, <1>15
     DEF Next, Driver

LEMMA StepPanic ==
  ASSUME Panic, Accepted, [Next]_vars
  PROVE  Panic'
<1>1. CASE UNCHANGED vars
  BY <1>1 DEF Panic, vars, deviceVars, localVars
<1>2. ASSUME NEW op \in {"read", "write"}, NEW first \in Sectors, NEW count \in 1 .. 2,
             NEW d \in Data, Begin(op, first, count, d)
      PROVE  Panic'
  BY <1>2 DEF Begin, Panic, Transfers, Keep, Goes, deviceVars
<1>3. CASE fdc_set_motor_state
  BY <1>3 DEF fdc_set_motor_state, Panic, Transfers, Goes, deviceVars
<1>4. CASE fdc_seek
  BY <1>4
     DEF fdc_seek, SkipSeek, StartSeek, ResetEvent, Command, Seeking, Quiet,
         Wakes, Timeout, Sis, SisFails, Panic, Transfers, Keep, Locals, Goes,
         deviceVars, localVars
<1>5. CASE CheckSeek
  BY <1>5
     DEF CheckSeek, Panic, Transfers, Keep, Locals, Goes, deviceVars, localVars
<1>6. CASE SeekFailed
  BY <1>6
     DEF SeekFailed, Give_up, Return, Panic, Transfers, Keep, Goes, deviceVars
<1>7. CASE fdc_recalibrate
  BY <1>7
     DEF fdc_recalibrate, Give_up, Return, Command, Seeking, Quiet, Wakes,
         Timeout, Sis, SisFails, Panic, Transfers, Keep, Locals, Goes,
         deviceVars, localVars
<1>8. CASE isadma_open_channel
  BY <1>8
     DEF isadma_open_channel, Panic, Transfers, Locals, Goes, deviceVars,
         localVars
<1>9. CASE TransferSector
  BY <1>9
     DEF TransferSector, ResetEvent, Command, Transfer, Quiet, Wakes,
         TransferTimesOut, Results, ResultRead, Panic, Transfers, Locals, Goes,
         deviceVars, localVars
<1>10. CASE CloseAndGoOn
  BY <1>10
     DEF CloseAndGoOn, Closing, Give_up, Return, Panic, Transfers, Goes,
         deviceVars
<1>11. CASE FifoPanic
  BY <1>11 DEF FifoPanic, CommandPlaces, Panic, Transfers, Locals, localVars
<1>12. CASE FinishSeek
  BY <1>12 DEF FinishSeek, Quiet, Panic
<1>13. CASE FinishTransfer
  BY <1>13 DEF FinishTransfer, Panic, localVars
<1>14. CASE fdc_isr
  BY <1>14 DEF fdc_isr, Panic, localVars
<1>15. CASE Refuse
  BY <1>15 DEF Refuse, Panic, localVars, Keep, Goes, deviceVars
<1> QED
  BY <1>1, <1>2, <1>3, <1>4, <1>5, <1>6, <1>7, <1>8, <1>9, <1>10, <1>11, <1>12,
     <1>13, <1>14, <1>15
     DEF Next, Driver

LEMMA StepPunctual ==
  ASSUME Punctual, DeviceTypes, Accepted, [Next]_vars
  PROVE  Punctual'
<1>1. CASE UNCHANGED vars
  BY <1>1 DEF Punctual, vars, deviceVars, localVars
<1>2. ASSUME NEW op \in {"read", "write"}, NEW first \in Sectors, NEW count \in 1 .. 2,
             NEW d \in Data, Begin(op, first, count, d)
      PROVE  Punctual'
  BY <1>2 DEF Begin, Punctual, Seeks, Statuses, Keep, Goes, deviceVars
<1>3. CASE fdc_set_motor_state
  BY <1>3 DEF fdc_set_motor_state, Punctual, Seeks, Statuses, Goes, deviceVars
<1>4. CASE fdc_seek
  <2>1. CASE SkipSeek
    BY <2>1
       DEF SkipSeek, Punctual, Seeks, Statuses, Keep, Locals, Goes, deviceVars,
           localVars
  <2>2. CASE StartSeek
    BY <2>2
       DEF StartSeek, ResetEvent, Punctual, Seeks, Statuses, Locals, Goes,
           deviceVars, localVars
  <2>3. CASE Command("seek_command", "seek_wait", Seeking(Target))
    BY <2>3
       DEF Command, Seeking, Punctual, Seeks, Statuses, Locals, Goes, localVars
  <2>4. CASE Wakes("seek_wait", "seek_status")
    BY <2>4 DEF Wakes, Punctual, Seeks, Locals, Goes, deviceVars, localVars
  <2>5. CASE Timeout("seek_wait", "seek_failed")
    BY <2>5 DEF Timeout, Punctual
  <2>6. CASE Sis("seek_status", "seek_check")
    BY <2>6 DEF Sis, Punctual, Seeks, Statuses, Locals, Goes, localVars
  <2>7. CASE SisFails("seek_status") /\ at' = "seek_failed" /\ Locals
    BY <2>7
       DEF SisFails, Punctual, Seeks, Statuses, Locals, deviceVars, localVars
  <2> QED
    BY <1>4, <2>1, <2>2, <2>3, <2>4, <2>5, <2>6, <2>7 DEF fdc_seek
<1>5. CASE CheckSeek
  BY <1>5
     DEF CheckSeek, Punctual, Seeks, Statuses, Keep, Locals, Goes, deviceVars,
         localVars
<1>6. CASE SeekFailed
  BY <1>6
     DEF SeekFailed, Give_up, Return, Punctual, Seeks, Statuses, Keep, Goes,
         deviceVars
<1>7. CASE fdc_recalibrate
  <2>1. CASE recals = 0 /\ Give_up("recalibrate") /\ Keep
    BY <2>1
       DEF Give_up, Return, Punctual, Seeks, Statuses, Keep, Goes, deviceVars
  <2>2. CASE /\ recals > 0 /\ Goes("recalibrate", "recalibrate_command")
           /\ event' = FALSE /\ recals' = recals - 1
           /\ UNCHANGED <<deviceVars, dma, buffer, cur_cylinder, cur_status, halted>>
           /\ UNCHANGED <<call, lba, retries, again, dst, answer, calls, late>>
    BY <2>2 DEF Punctual, Seeks, Statuses, Goes, deviceVars
  <2>3. CASE Command("recalibrate_command", "recalibrate_wait", Seeking(0))
    BY <2>3
       DEF Command, Seeking, Punctual, Seeks, Statuses, Locals, Goes, localVars
  <2>4. CASE Wakes("recalibrate_wait", "recalibrate_status")
    BY <2>4 DEF Wakes, Punctual, Seeks, Locals, Goes, deviceVars, localVars
  <2>5. CASE Timeout("recalibrate_wait", "recalibrate")
    BY <2>5 DEF Timeout, Punctual
  <2>6. CASE Sis("recalibrate_status", "recalibrate_check")
    BY <2>6 DEF Sis, Punctual, Seeks, Statuses, Locals, Goes, localVars
  <2>7. CASE SisFails("recalibrate_status") /\ Give_up("recalibrate_status")
    BY <2>7
       DEF SisFails, Give_up, Return, Punctual, Seeks, Statuses, Goes,
           deviceVars
  <2>8. CASE /\ cur_cylinder = 0 /\ Goes("recalibrate_check", "seek") /\ again' = TRUE /\ Keep
           /\ UNCHANGED <<call, lba, retries, recals, dst, answer, calls, late>>
    BY <2>8 DEF Punctual, Seeks, Statuses, Keep, Goes, deviceVars
  <2>9. CASE cur_cylinder # 0 /\ Goes("recalibrate_check", "recalibrate") /\ Keep /\ Locals
    BY <2>9
       DEF Punctual, Seeks, Statuses, Keep, Locals, Goes, deviceVars, localVars
  <2> QED
    BY <1>7, <2>1, <2>2, <2>3, <2>4, <2>5, <2>6, <2>7, <2>8, <2>9
       DEF fdc_recalibrate
<1>8. CASE isadma_open_channel
  BY <1>8
     DEF isadma_open_channel, Punctual, Seeks, Statuses, Locals, Goes,
         deviceVars, localVars
<1>9. CASE TransferSector
  <2>1. CASE ResetEvent("transfer", "transfer_command")
    BY <2>1
       DEF ResetEvent, Punctual, Seeks, Statuses, Locals, Goes, deviceVars,
           localVars
  <2>2. CASE Command("transfer_command", "transfer_wait", Transfer)
    BY <2>2 DEF Command, Transfer, Punctual, Seeks, Locals, Goes, localVars
  <2>3. CASE Wakes("transfer_wait", "transfer_result")
    BY <2>3
       DEF Wakes, Punctual, Seeks, Statuses, Locals, Goes, deviceVars, localVars
  <2>4. CASE TransferTimesOut
    BY <2>4 DEF TransferTimesOut, Punctual
  <2>5. CASE Results("close_success", TRUE)
    BY <2>5 DEF Results, ResultRead, Quiet, Punctual, Seeks, Statuses, Goes
  <2>6. CASE Results("close_retry", FALSE)
    BY <2>6 DEF Results, ResultRead, Quiet, Punctual, Seeks, Statuses, Goes
  <2> QED
    BY <1>9, <2>1, <2>2, <2>3, <2>4, <2>5, <2>6 DEF TransferSector
<1>10. CASE CloseAndGoOn
  BY <1>10
     DEF CloseAndGoOn, Closing, Give_up, Return, Punctual, Seeks, Statuses,
         Goes, deviceVars
<1>11. CASE FifoPanic
  BY <1>11 DEF FifoPanic, Punctual, Locals, deviceVars, localVars
<1>12. CASE FinishSeek
  BY <1>12 DEF FinishSeek, Quiet, Punctual, localVars
<1>13. CASE FinishTransfer
  <2>1. fdc'.phase = "result"
    BY <1>13 DEF FinishTransfer, FdcTypes
  <2>2. /\ irq' = TRUE /\ at' = at /\ late' = late /\ event' = event
        /\ fdc.phase = "executing"
    BY <1>13 DEF FinishTransfer, localVars
  <2>3. late = {} => at = "transfer_wait" /\ ~event
    BY <2>2 DEF Punctual
  <2> QED
    BY <2>1, <2>2, <2>3 DEF Punctual
<1>14. CASE fdc_isr
  BY <1>14 DEF fdc_isr, Punctual, localVars
<1>15. CASE Refuse
  BY <1>15 DEF Refuse, Punctual, localVars, Keep, Goes, deviceVars
<1> QED
  BY <1>1, <1>2, <1>3, <1>4, <1>5, <1>6, <1>7, <1>8, <1>9, <1>10, <1>11, <1>12,
     <1>13, <1>14, <1>15
     DEF Next, Driver

LEMMA StepLocated ==
  ASSUME Located, Punctual, DeviceTypes, [Next]_vars
  PROVE  Located'
<1>1. CASE UNCHANGED vars
  BY <1>1 DEF Located, vars, deviceVars, localVars
<1>2. ASSUME NEW op \in {"read", "write"}, NEW first \in Sectors, NEW count \in 1 .. 2,
             NEW d \in Data, Begin(op, first, count, d)
      PROVE  Located'
  BY <1>2 DEF Begin, Located, Seeks, Statuses, Keep, Goes, deviceVars
<1>3. CASE fdc_set_motor_state
  BY <1>3 DEF fdc_set_motor_state, Located
<1>4. CASE fdc_seek
  BY <1>4, Ranges
     DEF fdc_seek, SkipSeek, StartSeek, ResetEvent, Command, Wakes, Timeout,
         Sis, SisFails, NoSense, Located, Seeks, Statuses, Punctual,
         DeviceTypes, Keep, Locals, Goes, deviceVars, localVars
<1>5. CASE CheckSeek
  BY <1>5
     DEF CheckSeek, Located, Seeks, Statuses, Keep, Locals, Goes, deviceVars,
         localVars
<1>6. CASE SeekFailed
  BY <1>6
     DEF SeekFailed, Give_up, Return, Located, Seeks, Statuses, Keep, Goes,
         deviceVars
<1>7. CASE fdc_recalibrate
  BY <1>7, Ranges
     DEF fdc_recalibrate, Give_up, Return, Command, Seeking, Quiet, Wakes,
         Timeout, Sis, SisFails, Located, DeviceTypes
<1>8. CASE isadma_open_channel
  BY <1>8
     DEF isadma_open_channel, Located, Seeks, Statuses, Locals, Goes,
         deviceVars, localVars
<1>9. CASE TransferSector
  BY <1>9
     DEF TransferSector, ResetEvent, Command, Transfer, Wakes, TransferTimesOut,
         Results, ResultRead, Located, Seeks, Statuses, Locals, Goes,
         deviceVars, localVars
<1>10. CASE CloseAndGoOn
  BY <1>10
     DEF CloseAndGoOn, Closing, Give_up, Return, Located, Seeks, Statuses, Goes,
         deviceVars
<1>11. CASE FifoPanic
  BY <1>11 DEF FifoPanic, Located, Locals, deviceVars, localVars
<1>12. CASE FinishSeek
  BY <1>12 DEF FinishSeek, Located, Punctual, localVars
<1>13. CASE FinishTransfer
  BY <1>13 DEF FinishTransfer, Located, localVars
<1>14. CASE fdc_isr
  BY <1>14 DEF fdc_isr, Located, localVars
<1>15. CASE Refuse
  BY <1>15 DEF Refuse, Located, localVars, Keep, Goes, deviceVars
<1> QED
  BY <1>1, <1>2, <1>3, <1>4, <1>5, <1>6, <1>7, <1>8, <1>9, <1>10, <1>11, <1>12,
     <1>13, <1>14, <1>15
     DEF Next, Driver

LEMMA StepContents ==
  ASSUME Contents, Outcome, DeviceTypes, DriverTypes, LocalTypes, CallArgs, Channel, [Next]_vars
  PROVE  Contents'
<1>1. CASE UNCHANGED vars
  BY <1>1 DEF Contents, Done, vars, deviceVars, localVars
<1>2. ASSUME NEW op \in {"read", "write"}, NEW first \in Sectors, NEW count \in 1 .. 2,
             NEW d \in Data, Begin(op, first, count, d)
      PROVE  Contents'
  <2>1. /\ call'.op = op /\ call'.first = first /\ lba' = first /\ dst' = << >>
        /\ at' = "select" /\ first \in Nat
    BY <1>2, Ranges DEF Begin, Goes
  <2>2. Done' = 0
    BY <2>1 DEF Done
  <2>3. Len(dst') = 0 /\ 1 .. 0 = {} /\ call'.first .. call'.first + 0 - 1 = {}
    BY <2>1
  <2> QED
    BY <2>2, <2>3 DEF Contents
<1>3. CASE fdc_set_motor_state
  BY <1>3, ContentsFrame DEF fdc_set_motor_state, Goes, deviceVars
<1>4. CASE fdc_seek
  BY <1>4
     DEF fdc_seek, SkipSeek, StartSeek, ResetEvent, Command, Wakes, Timeout,
         Sis, SisFails, Contents, Done, Keep, Locals, Goes, deviceVars,
         localVars
<1>5. CASE CheckSeek
  BY <1>5, ContentsFrame
     DEF CheckSeek, Keep, Locals, Goes, deviceVars, localVars
<1>6. CASE SeekFailed
  <2>1. CASE /\ ~again /\ Goes("seek_failed", "recalibrate")
           /\ recals' = RETRIES /\ Keep
           /\ UNCHANGED <<call, lba, retries, again, dst, answer, calls, late>>
    BY <2>1, ContentsFrame DEF Keep, Goes, deviceVars
  <2>2. CASE again /\ Give_up("seek_failed") /\ Keep
    BY <2>2, ContentsReturn DEF Give_up, Return
  <2> QED
    BY <1>6, <2>1, <2>2 DEF SeekFailed
<1>7. CASE fdc_recalibrate
  <2>1. CASE recals = 0 /\ Give_up("recalibrate") /\ Keep
    BY <2>1, ContentsReturn DEF Give_up, Return
  <2>2. CASE /\ recals > 0 /\ Goes("recalibrate", "recalibrate_command")
           /\ event' = FALSE /\ recals' = recals - 1
           /\ UNCHANGED <<deviceVars, dma, buffer, cur_cylinder, cur_status, halted>>
           /\ UNCHANGED <<call, lba, retries, again, dst, answer, calls, late>>
    BY <2>2, ContentsFrame DEF Goes, deviceVars
  <2>3. CASE Command("recalibrate_command", "recalibrate_wait", Seeking(0))
    BY <2>3, ContentsFrame DEF Command, Locals, Goes, localVars
  <2>4. CASE Wakes("recalibrate_wait", "recalibrate_status")
    BY <2>4, ContentsFrame DEF Wakes, Locals, Goes, deviceVars, localVars
  <2>5. CASE Timeout("recalibrate_wait", "recalibrate")
    BY <2>5, ContentsFrame DEF Timeout, Keep, Goes, deviceVars
  <2>6. CASE Sis("recalibrate_status", "recalibrate_check")
    BY <2>6, ContentsFrame DEF Sis, Locals, Goes, localVars
  <2>7. CASE SisFails("recalibrate_status") /\ Give_up("recalibrate_status")
    BY <2>7, ContentsReturn DEF Give_up, Return
  <2>8. CASE /\ cur_cylinder = 0 /\ Goes("recalibrate_check", "seek") /\ again' = TRUE /\ Keep
           /\ UNCHANGED <<call, lba, retries, recals, dst, answer, calls, late>>
    BY <2>8, ContentsFrame DEF Keep, Goes, deviceVars
  <2>9. CASE cur_cylinder # 0 /\ Goes("recalibrate_check", "recalibrate") /\ Keep /\ Locals
    BY <2>9, ContentsFrame DEF Keep, Locals, Goes, deviceVars, localVars
  <2> QED
    BY <1>7, <2>1, <2>2, <2>3, <2>4, <2>5, <2>6, <2>7, <2>8, <2>9
       DEF fdc_recalibrate
<1>8. CASE isadma_open_channel
  BY <1>8, ContentsFrame
     DEF isadma_open_channel, Locals, Goes, deviceVars, localVars
<1>9. CASE TransferSector
  <2>1. CASE ResetEvent("transfer", "transfer_command")
    BY <2>1, ContentsFrame DEF ResetEvent, Locals, Goes, deviceVars, localVars
  <2>2. CASE Command("transfer_command", "transfer_wait", Transfer)
    BY <2>2, ContentsFrame DEF Command, Transfer, Locals, Goes, localVars
  <2>3. CASE Wakes("transfer_wait", "transfer_result")
    BY <2>3, ContentsFrame DEF Wakes, Locals, Goes, deviceVars, localVars
  <2>4. CASE TransferTimesOut
    BY <2>4, ContentsFrame DEF TransferTimesOut, Keep, Goes, deviceVars
  <2>5. CASE Results("close_success", TRUE)
    <3>1. /\ at = "transfer_result" /\ at' = "close_success" /\ fdc.ok
          /\ fdc.phase = "result" /\ UNCHANGED <<disk, call, lba>>
          /\ dst' = IF call.op = "read" THEN Append(dst, buffer) ELSE dst
      BY <2>5 DEF Results, Goes, Succeeded
    <3>2. disk[lba] = IF call.op = "read" THEN buffer ELSE call.data
      BY <3>1 DEF Outcome, Transfers
    <3>3. lba \in call.first .. call.first + call.count - 1 /\ call.first \in Nat /\ lba \in Nat
      BY <3>1 DEF CallArgs
    <3>4. Done = lba - call.first /\ Done' = Done + 1 /\ Done \in Nat
      BY <3>1, <3>3 DEF Done
    <3>5. CASE call.op = "read"
      <4>1. Len(dst) = Done /\ dst \in Seq(Data) /\ buffer \in Data /\ dst' = Append(dst, buffer)
        BY <3>1, <3>5 DEF Contents, LocalTypes, DriverTypes
      <4>2. /\ Len(dst') = Done + 1 /\ dst'[Done + 1] = buffer
            /\ \A i \in 1 .. Done : dst'[i] = dst[i]
        BY <4>1, <3>4
      <4>3. call.first + (Done + 1) - 1 = lba
        BY <3>3, <3>4
      <4>4. ASSUME NEW i \in 1 .. Done + 1 PROVE dst'[i] = disk[call.first + i - 1]
        <5>1. CASE i = Done + 1
          BY <5>1, <4>2, <4>3, <3>2, <3>5
        <5>2. CASE i # Done + 1
          <6>1. i \in 1 .. Done
            BY <5>2, <3>4
          <6> QED
            BY <6>1, <4>2, <3>5 DEF Contents
        <5> QED
          BY <5>1, <5>2
      <4>5. call' = call /\ disk' = disk
        BY <3>1
      <4> QED
        BY <3>4, <3>5, <4>2, <4>4, <4>5 DEF Contents
    <3>6. CASE call.op # "read"
      <4>1. call.op = "write"
        BY <3>1, <3>6 DEF CallArgs
      <4>2. ASSUME NEW s \in call.first .. call.first + (Done + 1) - 1
            PROVE  disk[s] = call.data
        <5>1. s = lba \/ s \in call.first .. call.first + Done - 1
          BY <3>3, <3>4
        <5> QED
          BY <5>1, <4>1, <3>2 DEF Contents
      <4>3. call' = call /\ disk' = disk
        BY <3>1
      <4> QED
        BY <3>4, <4>1, <4>2, <4>3 DEF Contents
    <3> QED
      BY <3>5, <3>6
  <2>6. CASE Results("close_retry", FALSE)
    BY <2>6, ContentsFrame DEF Results, ResultRead, Goes
  <2> QED
    BY <1>9, <2>1, <2>2, <2>3, <2>4, <2>5, <2>6 DEF TransferSector
<1>10. CASE CloseAndGoOn
  <2>1. CASE /\ Goes("close_retry", "select") /\ retries > 0 /\ retries' = Less(retries) /\ Closing
           /\ UNCHANGED <<call, lba, recals, again, dst, answer, calls, late>>
    BY <2>1, ContentsFrame DEF Closing, Goes, deviceVars
  <2>2. CASE retries = 0 /\ Give_up("close_retry") /\ Closing
    BY <2>2, ContentsReturn DEF Give_up, Return
  <2>3. CASE Give_up("close_timeout") /\ Closing
    BY <2>3, ContentsReturn DEF Give_up, Return
  <2>4. CASE /\ lba + 1 < call.first + call.count /\ Goes("close_success", "select")
           /\ lba' = lba + 1 /\ retries' = RETRIES /\ Closing
           /\ UNCHANGED <<call, recals, again, dst, answer, calls, late>>
    <3>1. /\ at = "close_success" /\ at' = "select" /\ lba' = lba + 1
          /\ UNCHANGED <<disk, call, dst>>
      BY <2>4 DEF Closing, Goes, deviceVars
    <3>2. lba \in Nat /\ call.first \in Nat
      BY <3>1 DEF CallArgs
    <3>3. Done' = Done
      BY <3>1, <3>2 DEF Done
    <3> QED
      BY <3>1, <3>3 DEF Contents
  <2>5. CASE /\ lba + 1 = call.first + call.count /\ Closing
           /\ Return("close_success", [ok |-> TRUE, data |-> dst])
    BY <2>5, ContentsReturn DEF Return
  <2> QED
    BY <1>10, <2>1, <2>2, <2>3, <2>4, <2>5 DEF CloseAndGoOn
<1>11. CASE FifoPanic
  <2>1. at # "close_success"
    BY <1>11 DEF FifoPanic, CommandPlaces
  <2> QED
    BY <1>11, <2>1, ContentsFrame DEF FifoPanic, Locals, deviceVars, localVars
<1>12. CASE FinishSeek
  <2>1. UNCHANGED <<disk, call, lba, dst, at>>
    BY <1>12 DEF FinishSeek, localVars
  <2> QED
    BY <2>1 DEF Contents, Done
<1>13. CASE FinishTransfer
  <2>1. /\ UNCHANGED <<call, lba, dst, at>>
        /\ \/ disk' = disk
           \/ disk' = [disk EXCEPT ![lba] = call.data] /\ call.op = "write"
    BY <1>13, Written
  <2>2. Done' = Done
    BY <2>1 DEF Done
  <2>3. CASE disk' = disk
    BY <2>1, <2>2, <2>3 DEF Contents
  <2>4. CASE disk' = [disk EXCEPT ![lba] = call.data] /\ call.op = "write"
    <3>1. \A s \in call.first .. call.first + Done - 1 : disk'[s] = call.data
      <4> SUFFICES ASSUME NEW s \in call.first .. call.first + Done - 1
                   PROVE  disk'[s] = call.data
        OBVIOUS
      <4>1. disk[s] = call.data
        BY <2>4 DEF Contents
      <4> QED
        BY <2>4, <4>1
    <3> QED
      BY <2>1, <2>2, <2>4, <3>1 DEF Contents
  <2> QED
    BY <2>1, <2>3, <2>4
<1>14. CASE fdc_isr
  <2>1. UNCHANGED <<disk, call, lba, dst, at>>
    BY <1>14 DEF fdc_isr, localVars
  <2> QED
    BY <2>1 DEF Contents, Done
<1>15. CASE Refuse
  <2>1. UNCHANGED <<disk, call, lba, dst, at>>
    BY <1>15 DEF Refuse, Goes, Keep, deviceVars
  <2> QED
    BY <2>1 DEF Contents, Done
<1> QED
  BY <1>1, <1>2, <1>3, <1>4, <1>5, <1>6, <1>7, <1>8, <1>9, <1>10, <1>11, <1>12,
     <1>13, <1>14, <1>15
     DEF Next, Driver

LEMMA StepOutcome ==
  ASSUME Outcome, DeviceTypes, CallArgs, LocalTypes, Channel, [Next]_vars
  PROVE  Outcome'
<1>1. CASE UNCHANGED vars
  BY <1>1 DEF Outcome, vars, deviceVars, localVars
<1>2. ASSUME NEW op \in {"read", "write"}, NEW first \in Sectors, NEW count \in 1 .. 2,
             NEW d \in Data, Begin(op, first, count, d)
      PROVE  Outcome'
  BY <1>2 DEF Begin, Outcome, Transfers, Goes
<1>3. CASE fdc_set_motor_state
  BY <1>3 DEF fdc_set_motor_state, Outcome, Transfers, Goes
<1>4. CASE fdc_seek
  BY <1>4
     DEF fdc_seek, SkipSeek, StartSeek, ResetEvent, Command, Wakes, Timeout,
         Sis, SisFails, Outcome, Transfers, Goes
<1>5. CASE CheckSeek
  BY <1>5 DEF CheckSeek, Outcome, Transfers, Goes
<1>6. CASE SeekFailed
  BY <1>6 DEF SeekFailed, Give_up, Return, Outcome, Transfers, Goes
<1>7. CASE fdc_recalibrate
  BY <1>7
     DEF fdc_recalibrate, Give_up, Return, Command, Wakes, Timeout, Sis,
         SisFails, Outcome, Transfers, Goes
<1>8. CASE isadma_open_channel
  BY <1>8 DEF isadma_open_channel, Outcome, Transfers, Goes
<1>9. CASE TransferSector
  BY <1>9
     DEF TransferSector, ResetEvent, Command, Transfer, Quiet, Wakes,
         TransferTimesOut, Results, ResultRead, Outcome, Transfers, Locals,
         Goes, deviceVars, localVars
<1>10. CASE CloseAndGoOn
  BY <1>10 DEF CloseAndGoOn, Closing, Give_up, Return, Outcome, Transfers, Goes
<1>11. CASE FifoPanic
  BY <1>11 DEF FifoPanic, Outcome, Locals, deviceVars, localVars
<1>12. CASE FinishSeek
  BY <1>12 DEF FinishSeek, Quiet, Outcome
<1>13. CASE FinishTransfer
  <2>1. /\ fdc'.ok => /\ call.op = "read" => buffer' = disk[lba] /\ disk' = disk
                      /\ call.op = "write" => disk' = [disk EXCEPT ![lba] = call.data]
        /\ UNCHANGED <<call, lba, at>>
    BY <1>13, Written
  <2>2. at \in Transfers => call.op \in {"read", "write"}
    BY DEF CallArgs, Transfers
  <2> QED
    BY <2>1, <2>2 DEF Outcome, DeviceTypes, LocalTypes
<1>14. CASE fdc_isr
  BY <1>14 DEF fdc_isr, Outcome, localVars
<1>15. CASE Refuse
  BY <1>15 DEF Refuse, Outcome, Transfers, Keep, Goes, deviceVars
<1> QED
  BY <1>1, <1>2, <1>3, <1>4, <1>5, <1>6, <1>7, <1>8, <1>9, <1>10, <1>11, <1>12,
     <1>13, <1>14, <1>15
     DEF Next, Driver

(* floppy.c keeps all of it.                                               *)
LEMMA Invariance == Spec => []IInv
<1>1. IInv /\ [Next]_vars => IInv'
  BY StepDeviceTypes, StepDriverTypes, StepLocalTypes, StepCallArgs,
     StepAccepted, StepChannel,
     StepPanic, StepPunctual, StepLocated, StepOutcome, StepContents DEF IInv
<1> QED
  BY InitInv, <1>1, PTL DEF Spec

(* floppy_read, floppy_write, fdc_seek, fdc_recalibrate: after any failures *)
(* the types hold, the DMA channel is open only during a transfer, and the  *)
(* head is in place for one as long as nothing has timed out.               *)
THEOREM TransfersAreSafe == Spec => []TransfersSafe
<1>1. IInv => TypeOK
  BY DEF IInv, DeviceTypes, DriverTypes, LocalTypes, FdcTypes, TypeOK
<1>2. IInv => ChannelClosed
  BY DEF IInv, Channel
<1>3. IInv => HeadInPlace
  BY Ranges
     DEF IInv, LocalTypes, Accepted, Punctual, Located, Seeks, Statuses, Target,
         HeadInPlace
<1> QED
  BY <1>1, <1>2, <1>3, Invariance, PTL DEF TransfersSafe

(* fdc_fifo_write stops the kernel only after a transfer has timed out.     *)
THEOREM PanicCause == Spec => []PanicOnlyAfterTimeout
<1>1. IInv => PanicOnlyAfterTimeout
  BY DEF IInv, Panic, PanicOnlyAfterTimeout
<1> QED
  BY <1>1, Invariance, PTL

(* Every step is one of the abstract disk, or none: one that leaves disk,    *)
(* call and answer alone                                                   *)
LEMMA Quietly ==
  ASSUME UNCHANGED <<disk, call, answer>>
  PROVE  [BD!Next]_(BD!vars)
BY DEF BD!vars

(* A call that gives up                                                    *)
LEMMA Failing ==
  ASSUME CallArgs, at # "idle", call' = NoCall, answer' = NoAnswer, disk' = disk
  PROVE  [BD!Next]_(BD!vars)
<1>1. call # NoCall
  BY DEF CallArgs, NoCall
<1>2. ~answer'.ok
  BY DEF NoAnswer
<1> QED
  BY <1>1, <1>2 DEF BD!Next, BD!Fail

(* Every action of driver, controller and interrupt                        *)
LEMMA Step ==
  ASSUME IInv, [Next]_vars
  PROVE  [BD!Next]_(BD!vars)
<1>a. CallArgs /\ DeviceTypes /\ LocalTypes /\ Channel /\ Contents
  BY DEF IInv
<1>1. CASE UNCHANGED vars
  BY <1>1, Quietly DEF vars, deviceVars, localVars
<1>2. ASSUME NEW op \in {"read", "write"}, NEW first \in Sectors, NEW count \in 1 .. 2,
             NEW d \in Data, Begin(op, first, count, d)
      PROVE  [BD!Next]_(BD!vars)
  <2>1. /\ call = NoCall /\ disk' = disk /\ answer' = [ok |-> FALSE, data |-> <<>>]
        /\ call' = [op |-> op, first |-> first, count |-> count, data |-> d]
    BY <1>a, <1>2 DEF Begin, Goes, Keep, deviceVars, CallArgs, NoAnswer
  <2> QED
    BY <2>1 DEF BD!Next, BD!Begin
<1>3. CASE fdc_set_motor_state
  BY <1>3, Quietly DEF fdc_set_motor_state, deviceVars
<1>4. CASE fdc_seek
  BY <1>4, Quietly
     DEF fdc_seek, SkipSeek, StartSeek, ResetEvent, Command, Wakes, Timeout,
         Sis, SisFails, Keep, Locals, deviceVars, localVars
<1>5. CASE CheckSeek
  BY <1>5, Quietly DEF CheckSeek, Keep, Locals, deviceVars, localVars
<1>6. CASE SeekFailed
  BY <1>6, <1>a, Quietly, Failing
     DEF SeekFailed, Give_up, Return, Goes, Keep, deviceVars
<1>7. CASE fdc_recalibrate
  <2>1. CASE UNCHANGED <<disk, call, answer>>
    BY <2>1, Quietly
  <2>2. CASE Give_up("recalibrate") /\ disk' = disk
    BY <2>2, <1>a, Failing DEF Give_up, Return, Goes
  <2>3. CASE Give_up("recalibrate_status") /\ disk' = disk
    BY <2>3, <1>a, Failing DEF Give_up, Return, Goes
  <2> QED
    BY <1>7, <2>1, <2>2, <2>3
       DEF fdc_recalibrate, Command, Wakes, Timeout, Sis, SisFails, Keep,
           Locals, deviceVars, localVars
<1>8. CASE isadma_open_channel
  BY <1>8, Quietly DEF isadma_open_channel, Locals, deviceVars, localVars
<1>9. CASE TransferSector
  BY <1>9, Quietly
     DEF TransferSector, ResetEvent, Command, Wakes, TransferTimesOut, Results,
         Keep, Locals, deviceVars, localVars
<1>10. CASE CloseAndGoOn
  <2>1. CASE UNCHANGED <<disk, call, answer>>
    BY <2>1, Quietly
  <2>2. CASE (Give_up("close_retry") \/ Give_up("close_timeout")) /\ disk' = disk
    BY <2>2, <1>a, Failing DEF Give_up, Return, Goes
  <2>3. CASE /\ lba + 1 = call.first + call.count /\ Closing
             /\ Return("close_success", [ok |-> TRUE, data |-> dst])
    <3>1. /\ at = "close_success" /\ call' = NoCall /\ disk' = disk
          /\ answer' = [ok |-> TRUE, data |-> dst]
      BY <2>3 DEF Return, Goes, Closing, deviceVars
    <3>2. /\ call.first \in Nat /\ call.count \in 1 .. 2 /\ call.op \in {"read", "write"}
          /\ lba \in Nat
      BY <1>a, <3>1, Ranges DEF CallArgs, LocalTypes
    <3>3. Done = call.count
      BY <2>3, <3>1, <3>2 DEF Done
    <3>4. call # NoCall /\ answer'.ok /\ answer'.data = dst
      BY <3>1, <3>2 DEF NoCall
    <3>5. call.op = "read" => dst = [i \in 1 .. call.count |-> disk[call.first + i - 1]]
      BY <1>a, <3>3 DEF Contents, LocalTypes
    <3>6. call.op = "write" => \A s \in BD!Asked(call) : disk[s] = call.data
      BY <1>a, <3>3 DEF Contents, BD!Asked
    <3> QED
      BY <3>1, <3>2, <3>4, <3>5, <3>6 DEF BD!Next, BD!Succeed
  <2> QED
    BY <1>10, <2>1, <2>2, <2>3 DEF CloseAndGoOn, Closing, deviceVars, localVars
<1>11. CASE FifoPanic
  BY <1>11, Quietly DEF FifoPanic, Locals, deviceVars, localVars
<1>12. CASE FinishSeek
  BY <1>12, Quietly DEF FinishSeek, localVars
<1>13. CASE FinishTransfer
  <2>1. CASE disk' = disk
    BY <1>13, <2>1, Quietly DEF FinishTransfer, localVars
  <2>2. CASE disk' # disk
    <3>1. /\ disk' = [disk EXCEPT ![lba] = call.data] /\ call.op = "write" /\ at \in Transferring
          /\ UNCHANGED <<call, answer>>
      BY <1>a, <1>13, <2>2, Written DEF FinishTransfer, localVars
    <3>2. call # NoCall /\ lba \in BD!Asked(call)
      BY <1>a, <3>1 DEF Transferring, CallArgs, NoCall, BD!Asked
    <3> QED
      BY <3>1, <3>2 DEF BD!Next, BD!Commit
  <2> QED
    BY <2>1, <2>2
<1>14. CASE fdc_isr
  BY <1>14, Quietly DEF fdc_isr, localVars
<1>15. CASE Refuse
  <2>1. /\ call = NoCall /\ UNCHANGED <<disk, call>>
        /\ answer' = [ok |-> FALSE, data |-> <<>>]
    BY <1>15, <1>a DEF Refuse, Goes, Keep, deviceVars, CallArgs, NoAnswer
  <2> QED
    BY <2>1 DEF BD!Next, BD!Refuse
<1> QED
  BY <1>1, <1>2, <1>3, <1>4, <1>5, <1>6, <1>7, <1>8, <1>9, <1>10, <1>11, <1>12,
     <1>13, <1>14, <1>15
     DEF Next, Driver

(* floppy_read and floppy_write implement a disk: what they report as read  *)
(* is what the disk holds, what they report as written is there, and only   *)
(* a write in progress changes a sector, and only one it was asked for.     *)
THEOREM ImplementsBlockDevice == Spec => IsBlockDevice
<1>1. Init => BD!Init
  BY DEF Init, BD!Init, NoAnswer
<1> QED
  BY <1>1, Invariance, Step, PTL DEF Spec, BD!Spec, IsBlockDevice
=============================================================================
