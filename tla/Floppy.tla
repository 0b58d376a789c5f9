-------------------------------- MODULE Floppy --------------------------------
(***************************************************************************)
(* The floppy driver (drivers/floppy.c) with the controller, its interrupt *)
(* and the DMA channel (isa_dma.c).  One thread calls.  Every wait may end *)
(* by its timeout, and what the controller was doing then goes on: it may  *)
(* finish later, or never.  Any of it may fail; a seek may stop anywhere.  *)
(***************************************************************************)
EXTENDS Integers, Sequences

CONSTANTS
  SectorCount, PerCylinder,
  Data,
  RETRIES,      \* FDC_DEFAULT_COMMAND_RETRIES
  UNKNOWN,      \* 255, the invalid cylinder
  MaxCalls      \* bound of the model

ASSUME FloppyAssumption ==
  /\ SectorCount \in Nat \ {0} /\ PerCylinder \in Nat \ {0} /\ RETRIES \in Nat
  /\ UNKNOWN \notin 0 .. SectorCount

Sectors == 0 .. SectorCount - 1

(* lba_to_chs; head and sector follow from the address *)
Cylinder(lba) == lba \div PerCylinder

Cylinders == {Cylinder(s) : s \in Sectors}

VARIABLES
  disk, head,   \* the medium, and where the head is
  fdc,          \* the controller: its phase, command, argument and outcome
  sense,        \* the interrupt status SIS would return
  irq, event,   \* a pending interrupt; isr_event (auto-reset)
  dma, buffer,  \* the channel: "closed" or its direction; dma_buffer
  at, call,     \* where the call is; its arguments
  lba, retries, recals, again, \* locals: sector, attempts left, after recalibration
  cur_cylinder, cur_status,
  dst, answer,  \* what was read so far; what the last call returned
  calls, late,  \* calls made; the kinds of command that have timed out
  halted        \* HalKernelPanic in fdc_fifo_write

deviceVars == <<disk, head, fdc, sense, irq>>
localVars == <<call, lba, retries, recals, again, dst, answer, calls, late>>
vars == <<deviceVars, localVars, event, dma, buffer, at, cur_cylinder, cur_status, halted>>

NoCall == [op |-> "none", first |-> 0, count |-> 0, data |-> 0]
NoAnswer == [ok |-> FALSE, data |-> <<>>]
Quiet == [phase |-> "idle", cmd |-> "none", arg |-> 0, ok |-> FALSE]
NoSense == [cyl |-> UNKNOWN, ok |-> FALSE]

Init ==
  /\ disk \in [Sectors -> Data] /\ head \in Cylinders /\ fdc = Quiet /\ sense = NoSense
  /\ irq = FALSE /\ event = FALSE /\ dma = "closed" /\ buffer \in Data
  /\ at = "idle" /\ call = NoCall /\ lba = 0 /\ retries = 0 /\ recals = 0 /\ again = FALSE
  /\ cur_cylinder = UNKNOWN /\ cur_status = FALSE
  /\ dst = <<>> /\ answer = NoAnswer
  /\ calls = 0 /\ late = {} /\ halted = FALSE

-----------------------------------------------------------------------------
(* The controller and its interrupt *)

FinishSeek ==
  /\ ~halted /\ fdc.phase = "seeking"
  /\ head' \in Cylinders
  /\ sense' = [cyl |-> head', ok |-> head' = fdc.arg]
  /\ fdc' = Quiet /\ irq' = TRUE
  /\ UNCHANGED <<disk, localVars, event, dma, buffer, at, cur_cylinder, cur_status, halted>>

(* The controller compares the cylinder of the command with the one it is  *)
(* on, and the transfer needs the channel.                                 *)
CanTransfer == head = Cylinder(fdc.arg) /\ dma = fdc.cmd

FinishTransfer ==
  /\ ~halted /\ fdc.phase = "executing"
  /\ \E ok \in BOOLEAN :
       /\ ok => CanTransfer
       /\ disk' = IF ok /\ fdc.cmd = "write" THEN [disk EXCEPT ![fdc.arg] = buffer] ELSE disk
       /\ buffer' = IF ok /\ fdc.cmd = "read" THEN disk[fdc.arg] ELSE buffer
       /\ fdc' = [fdc EXCEPT !.phase = "result", !.ok = ok]
  /\ irq' = TRUE
  /\ UNCHANGED <<head, sense, localVars, event, dma, at, cur_cylinder, cur_status, halted>>

fdc_isr ==
  /\ ~halted /\ irq /\ irq' = FALSE /\ event' = TRUE
  /\ UNCHANGED <<disk, head, fdc, sense, localVars, dma, buffer, at, cur_cylinder, cur_status, halted>>

-----------------------------------------------------------------------------
(* One step of the driver, from one place to another *)
Goes(from, to) == ~halted /\ at = from /\ at' = to

Keep == UNCHANGED <<deviceVars, event, dma, buffer, cur_cylinder, cur_status, halted>>

Locals == UNCHANGED localVars

Begin(op, first, count, d) ==
  /\ Goes("idle", "select") /\ calls < MaxCalls /\ calls' = calls + 1
  /\ first + count <= SectorCount
  /\ call' = [op |-> op, first |-> first, count |-> count, data |-> d]
  /\ lba' = first /\ retries' = RETRIES /\ recals' = 0 /\ again' = FALSE
  /\ dst' = <<>> /\ answer' = NoAnswer
  /\ UNCHANGED late /\ Keep

(* fdc_read_blocks and fdc_write_blocks refuse a call for no sectors.       *)
Refuse ==
  /\ Goes("idle", "idle") /\ calls < MaxCalls /\ calls' = calls + 1 /\ answer' = NoAnswer
  /\ UNCHANGED <<call, lba, retries, recals, again, dst, late>> /\ Keep

Return(from, result) ==
  /\ Goes(from, "idle") /\ call' = NoCall /\ answer' = result
  /\ lba' = 0 /\ retries' = 0 /\ recals' = 0 /\ again' = FALSE /\ dst' = <<>>
  /\ UNCHANGED <<calls, late>>

Give_up(from) == Return(from, NoAnswer)

(* The motor is always switched on, which invalidates the cylinder.        *)
fdc_set_motor_state ==
  /\ Goes("select", "seek") /\ cur_cylinder' = UNKNOWN /\ again' = FALSE
  /\ UNCHANGED <<deviceVars, event, dma, buffer, cur_status, halted>>
  /\ UNCHANGED <<call, lba, retries, recals, dst, answer, calls, late>>

Target == Cylinder(lba)

SkipSeek == cur_cylinder = Target /\ Goes("seek", "open") /\ Keep /\ Locals

ResetEvent(from, to) ==
  /\ Goes(from, to) /\ event' = FALSE
  /\ UNCHANGED <<deviceVars, dma, buffer, cur_cylinder, cur_status, halted>> /\ Locals

StartSeek == cur_cylinder # Target /\ ResetEvent("seek", "seek_command")

(* fdc_fifo_write waits until the controller takes the bytes of a command; *)
(* it panics when that takes too long.  A command given during a seek puts *)
(* an end to the seek.                                                     *)
Command(from, to, new) ==
  /\ fdc.phase \in {"idle", "seeking"} /\ Goes(from, to) /\ fdc' = new
  /\ UNCHANGED <<disk, head, sense, irq, event, dma, buffer, cur_cylinder, cur_status, halted>>
  /\ Locals

CommandPlaces == {"seek_command", "seek_status", "recalibrate_command", "recalibrate_status", "transfer_command"}

FifoPanic ==
  /\ ~halted /\ at \in CommandPlaces /\ fdc.phase \in {"executing", "result"} /\ halted' = TRUE
  /\ UNCHANGED <<deviceVars, event, dma, buffer, at, cur_cylinder, cur_status>> /\ Locals

Seeking(c) == [Quiet EXCEPT !.phase = "seeking", !.arg = c]

Wakes(from, to) ==
  /\ Goes(from, to) /\ event /\ event' = FALSE
  /\ UNCHANGED <<deviceVars, dma, buffer, cur_cylinder, cur_status, halted>> /\ Locals

Timeout(from, to) ==
  /\ ~event /\ Goes(from, to) /\ late' = late \cup {"seek"} /\ Keep
  /\ UNCHANGED <<call, lba, retries, recals, again, dst, answer, calls>>

(* fdc_issue_sis: with no interrupt to tell of there is no second byte, and *)
(* the read of it times out.                                                *)
Sis(from, to) ==
  /\ fdc.phase \in {"idle", "seeking"} /\ sense # NoSense
  /\ Goes(from, to)
  /\ cur_cylinder' = sense.cyl /\ cur_status' = sense.ok /\ sense' = NoSense
  /\ UNCHANGED <<disk, head, fdc, irq, event, dma, buffer, halted>>
  /\ Locals

SisFails(from) ==
  /\ fdc.phase \in {"idle", "seeking"} /\ sense = NoSense /\ ~halted /\ at = from
  /\ cur_status' = FALSE
  /\ UNCHANGED <<deviceVars, event, dma, buffer, cur_cylinder, halted>>

fdc_seek ==
  \/ SkipSeek \/ StartSeek
  \/ Command("seek_command", "seek_wait", Seeking(Target))
  \/ Wakes("seek_wait", "seek_status") \/ Timeout("seek_wait", "seek_failed")
  \/ Sis("seek_status", "seek_check")
  \/ SisFails("seek_status") /\ at' = "seek_failed" /\ Locals

Sought(cyl, target, ok) == cyl = target /\ ok

(* The busy flags have dropped, or not in five looks. *)
CheckSeek ==
  \/ /\ fdc.phase # "seeking" /\ Sought(cur_cylinder, Target, cur_status)
     /\ Goes("seek_check", "open") /\ Keep /\ Locals
  \/ /\ fdc.phase = "seeking" \/ ~Sought(cur_cylinder, Target, cur_status)
     /\ Goes("seek_check", "seek_failed") /\ Keep /\ Locals

(* A first seek that failed is tried again after a recalibration. *)
SeekFailed ==
  \/ /\ ~again /\ Goes("seek_failed", "recalibrate")
     /\ recals' = RETRIES /\ Keep
     /\ UNCHANGED <<call, lba, retries, again, dst, answer, calls, late>>
  \/ again /\ Give_up("seek_failed") /\ Keep

fdc_recalibrate ==
  \/ recals = 0 /\ Give_up("recalibrate") /\ Keep
  \/ /\ recals > 0 /\ Goes("recalibrate", "recalibrate_command")
     /\ event' = FALSE /\ recals' = recals - 1
     /\ UNCHANGED <<deviceVars, dma, buffer, cur_cylinder, cur_status, halted>>
     /\ UNCHANGED <<call, lba, retries, again, dst, answer, calls, late>>
  \/ Command("recalibrate_command", "recalibrate_wait", Seeking(0))
  \/ Wakes("recalibrate_wait", "recalibrate_status")
  \/ Timeout("recalibrate_wait", "recalibrate")
  \/ Sis("recalibrate_status", "recalibrate_check")
  \/ SisFails("recalibrate_status") /\ Give_up("recalibrate_status")
  \/ /\ cur_cylinder = 0 /\ Goes("recalibrate_check", "seek") /\ again' = TRUE /\ Keep
     /\ UNCHANGED <<call, lba, retries, recals, dst, answer, calls, late>>
  \/ cur_cylinder # 0 /\ Goes("recalibrate_check", "recalibrate") /\ Keep /\ Locals

-----------------------------------------------------------------------------
isadma_open_channel ==
  /\ Goes("open", "transfer") /\ dma' = call.op
  /\ buffer' = IF call.op = "write" THEN call.data ELSE buffer
  /\ UNCHANGED <<deviceVars, event, cur_cylinder, cur_status, halted>> /\ Locals

Transfer == [Quiet EXCEPT !.phase = "executing", !.cmd = call.op, !.arg = lba]

(* Mutant: the last result byte stays in the controller. *)
ResultRead_six(f) == f

(* The seven result bytes have been read. *)
ResultRead(f) == Quiet

(* Mutant: takes any outcome for a success. *)
Succeeded_always(f) == f.phase = "result"

Succeeded(f) == f.ok

Results(to, ok) ==
  /\ fdc.phase = "result" /\ Succeeded(fdc) = ok
  /\ Goes("transfer_result", to) /\ fdc' = ResultRead(fdc)
  /\ dst' = IF ok /\ call.op = "read" THEN Append(dst, buffer) ELSE dst
  /\ UNCHANGED <<disk, head, sense, irq, event, dma, buffer, cur_cylinder, cur_status, halted>>
  /\ UNCHANGED <<call, lba, retries, recals, again, answer, calls, late>>

TransferTimesOut ==
  /\ \/ ~event /\ Goes("transfer_wait", "close_timeout")
     \/ fdc.phase # "result" /\ Goes("transfer_result", "close_timeout")
  /\ late' = late \cup {"transfer"} /\ Keep
  /\ UNCHANGED <<call, lba, retries, recals, again, dst, answer, calls>>

TransferSector ==
  \/ ResetEvent("transfer", "transfer_command")
  \/ Command("transfer_command", "transfer_wait", Transfer)
  \/ Wakes("transfer_wait", "transfer_result")
  \/ TransferTimesOut
  \/ Results("close_success", TRUE) \/ Results("close_retry", FALSE)

(* Mutant: leaves the channel to a transfer that timed out. *)
Closed_unless_late(d) == IF at = "close_timeout" THEN d ELSE "closed"

(* isadma_close_channel *)
Closed(d) == "closed"

(* Mutant: a retry starts with all its retries. *)
Less_same(n) == n

Less(n) == n - 1

Closing ==
  /\ dma' = Closed(dma)
  /\ UNCHANGED <<deviceVars, event, buffer, cur_cylinder, cur_status, halted>>

CloseAndGoOn ==
  \/ /\ Goes("close_retry", "select") /\ retries > 0 /\ retries' = Less(retries) /\ Closing
     /\ UNCHANGED <<call, lba, recals, again, dst, answer, calls, late>>
  \/ retries = 0 /\ Give_up("close_retry") /\ Closing
  \/ Give_up("close_timeout") /\ Closing
  \/ /\ lba + 1 < call.first + call.count /\ Goes("close_success", "select")
     /\ lba' = lba + 1 /\ retries' = RETRIES /\ Closing
     /\ UNCHANGED <<call, recals, again, dst, answer, calls, late>>
  \/ /\ lba + 1 = call.first + call.count /\ Closing
     /\ Return("close_success", [ok |-> TRUE, data |-> dst])

Driver ==
  \/ fdc_set_motor_state \/ fdc_seek \/ CheckSeek \/ SeekFailed \/ fdc_recalibrate
  \/ isadma_open_channel \/ TransferSector \/ CloseAndGoOn \/ FifoPanic

Next ==
  \/ \E op \in {"read", "write"}, first \in Sectors, count \in 1 .. 2, d \in Data :
       Begin(op, first, count, d)
  \/ Refuse \/ Driver
  \/ FinishSeek \/ FinishTransfer \/ fdc_isr

(* Only the driver's thread is sure to run: the controller may never answer. *)
Spec == Init /\ [][Next]_vars /\ WF_vars(Driver)

-----------------------------------------------------------------------------
TypeOK ==
  /\ disk \in [Sectors -> Data] /\ head \in Cylinders /\ buffer \in Data
  /\ fdc.phase \in {"idle", "seeking", "executing", "result"}
  /\ dma \in {"closed", "read", "write"} /\ lba \in Sectors
  /\ retries \in 0 .. RETRIES /\ recals \in 0 .. RETRIES
  /\ cur_cylinder \in Cylinders \cup {UNKNOWN}

Transferring == {"transfer", "transfer_command", "transfer_wait", "transfer_result",
                 "close_success", "close_retry", "close_timeout"}

(* The DMA channel is open only between the two calls that open and close   *)
(* it, whatever failed or timed out: a controller that finishes late never  *)
(* writes to memory or to the disk behind the back of the next call.        *)
ChannelClosed == dma # "closed" => at \in Transferring

(* As long as nothing has timed out, the head is on its cylinder and at     *)
(* rest when a transfer is commanded, also if seeks failed and the drive    *)
(* was recalibrated.  After a timeout a late interrupt may pass for the     *)
(* end of a newer seek.                                                     *)
HeadInPlace ==
  at = "transfer_command" /\ late = {} => head = Target /\ fdc.phase = "idle"

(* Transfers happen where they should, while they should. *)
TransfersSafe == TypeOK /\ ChannelClosed /\ HeadInPlace

(* The controller refuses a command, and the kernel stops, only if an       *)
(* earlier transfer has timed out and its results were never read.          *)
PanicOnlyAfterTimeout == halted => "transfer" \in late

(* Every call returns, even if the controller never answers. *)
CallEnds == at # "idle" ~> at = "idle" \/ halted

(* Reads return what is on the disk; only a write in progress changes it.   *)
BD == INSTANCE BlockDevice

IsBlockDevice == BD!Spec
=============================================================================
