---------------------------- MODULE DallasEPROM ----------------------------
(***************************************************************************)
(* The DallasEPROM library: pages of an EPROM or EEPROM behind a 1-Wire    *)
(* bus that loses transactions and from which the chip may be unplugged.   *)
(*                                                                         *)
(* One step is a command with what the chip answers at once, the bytes of  *)
(* one row, or one programming pulse.  What the chip misses reads as all   *)
(* ones, and a chip that has missed a part of a transaction misses the     *)
(* rest.  A page has Rows places; place 0 stands for its lock byte.  What  *)
(* is stored in a place is the set of the writes whose bits are there: an  *)
(* EEPROM has those of one write, an EPROM collects them.                  *)
(***************************************************************************)
EXTENDS Integers, Sequences

CONSTANTS
  Pages,      \* pages of the chip, numbered from 0
  Rows,       \* places of a page that are written one by one
  StatusBits, \* bits of an EPROM's status byte, 8 in the code
  Chips,      \* kinds of chip
  MaxOps,     \* bound: calls of the library
  MaxFaults   \* bound: steps the chip misses while it is there

ChipAssumption ==
  /\ Pages \in Nat /\ StatusBits \in Nat /\ Rows \in Nat \ {0} /\ MaxOps \in Nat
  /\ MaxFaults \in Nat
  /\ Chips \subseteq {"EPROM", "EEPROM"}

VARIABLES
  chip, progPin,   \* isEPROMDevice(); TRUE when _progPin >= 0
  connected, faults,
  mem,             \* the chip's memory
  scratch,         \* the EEPROM's scratchpad: where it goes and what it is
  selected,        \* the chip has heard this transaction from its command on
  cut,             \* the chip has left in the middle of one (history)
  pc, row, auth,   \* where the call is, and its locals
  calls,           \* the calls made: kind and page (history)
  ret, data,       \* what the last call returned
  before,          \* the memory when the call was made (history)
  clean            \* the chip has heard all of the call (history)

busVars == <<connected, faults>>
setup   == <<chip, progPin>>
vars == <<setup, busVars, mem, scratch, selected, cut, pc, row, auth, calls,
          ret, data, before, clean>>

Place == (0..Pages - 1) \X (0..Rows)
None == <<-1, 0>>
call == calls[Len(calls)]
Locked(page) == mem[<<page, 0>>] # {}
Codes == {"ok", "CRC_MISMATCH", "INVALID_PAGE", "DEVICE_DISCONNECTED"}

Init ==
  /\ chip \in Chips /\ progPin \in BOOLEAN
  /\ connected = TRUE /\ faults = 0
  /\ mem = [p \in Place |-> {}] /\ before = mem
  /\ scratch = [at |-> None, op |-> 0] /\ selected = FALSE /\ cut = FALSE
  /\ pc = "idle" /\ row = 0 /\ auth = None
  /\ calls = << >> /\ ret = "ok" /\ data = [r \in 1..Rows |-> {}]
  /\ clean = TRUE

-----------------------------------------------------------------------------
(* The bus.                                                                *)

Unplug ==
  /\ connected' = ~connected /\ clean' = FALSE
  /\ scratch' = [at |-> None, op |-> 0]
  /\ selected' = FALSE /\ cut' = (cut \/ selected)
  /\ UNCHANGED <<setup, faults, mem, pc, row, auth, calls, ret, data, before>>

\* The chip hears a transaction, or misses it.
Transaction(heard) ==
  /\ heard => connected
  /\ ~heard /\ connected => faults < MaxFaults
  /\ clean' = (clean /\ heard)
  /\ faults' = IF ~heard /\ connected THEN faults + 1 ELSE faults
  /\ UNCHANGED <<setup, connected, calls, before>>

\* A later part of a transaction is heard by a chip that heard those before.
Part(heard) ==
  /\ Transaction(heard)
  /\ selected' = (selected /\ heard)
  /\ cut' = (cut \/ (selected /\ ~heard))

Return(code) == ret' = code /\ pc' = "idle"

\* The chip stores the write in a place, unless the page is locked.
Store(place, op) ==
  mem' = IF place[2] # 0 /\ Locked(place[1]) THEN mem
         ELSE [mem EXCEPT ![place] = IF chip = "EPROM" THEN @ \cup {op} ELSE {op}]

-----------------------------------------------------------------------------
(* The calls.  Error codes of isPageLocked(), which is a bool, are true.   *)

ErrorOf(kind, code) == IF kind = "isPageLocked" THEN "true" ELSE code

Call(kind, page, first) ==
  /\ pc = "idle" /\ Len(calls) < MaxOps
  /\ calls' = Append(calls, [kind |-> kind, page |-> page])
  /\ before' = mem /\ clean' = connected
  /\ \/ page >= Pages /\ Return(ErrorOf(kind, "INVALID_PAGE"))
     \/ /\ page < Pages /\ ~connected
        /\ Return(ErrorOf(kind, "DEVICE_DISCONNECTED"))
     \/ page < Pages /\ connected /\ pc' = first /\ UNCHANGED ret
  /\ row' = 1 /\ auth' = None /\ selected' = FALSE /\ cut' = FALSE
  /\ UNCHANGED <<setup, busVars, mem, scratch, data>>

readPage(page)     == Call("readPage", page, "read")
writePage(page)    ==
  Call("writePage", page, IF chip = "EPROM" THEN "command" ELSE "scratch")
lockPage(page)     ==
  Call("lockPage", page, IF chip = "EPROM" THEN "lock" ELSE "scratch")
isPageLocked(page) == Call("isPageLocked", page, "status")

\* A command, which an EPROM answers with its checksum.
Command(next, failed) ==
  \E heard \in BOOLEAN :
     /\ Transaction(heard) /\ selected' = heard
     /\ IF chip = "EPROM" /\ ~heard THEN Return(failed)
                                     ELSE pc' = next /\ UNCHANGED ret

\* Mutant: the answer to the command is not checked.
ReadUnchecked ==
  /\ pc = "read" /\ pc' = "bytes"
  /\ \E heard \in BOOLEAN : Transaction(heard) /\ selected' = heard
  /\ UNCHANGED <<mem, scratch, cut, row, auth, ret, data>>

\* readPage(): the command and the check of its answer.
Read ==
  /\ pc = "read" /\ Command("bytes", "CRC_MISMATCH")
  /\ UNCHANGED <<mem, scratch, cut, row, auth, data>>

\* Then the page, whose bytes nobody checks.
ReadRow ==
  /\ pc = "bytes"
  /\ \E heard \in BOOLEAN : Part(heard)
  /\ data' = [data EXCEPT ![row] = IF selected' THEN mem[<<call.page, row>>] ELSE {}]
  /\ row' = row + 1
  /\ IF row < Rows THEN UNCHANGED <<pc, ret>> ELSE Return("ok")
  /\ UNCHANGED <<mem, scratch, auth>>

\* The bit of a page in a byte, (byte)(1 << page), is there.
InStatus(page) == chip = "EPROM" => page < StatusBits

\* isPageLocked(): an error code is true ...
ReadStatus ==
  /\ pc = "status" /\ Command("answer", "true")
  /\ UNCHANGED <<mem, scratch, cut, row, auth, data>>

\* ... and so is a bit of a status byte of ones.
ReadAnswer ==
  /\ pc = "answer"
  /\ \E heard \in BOOLEAN : Part(heard)
  /\ Return(IF /\ InStatus(call.page)
               /\ IF selected' THEN Locked(call.page) ELSE chip = "EPROM"
            THEN "true" ELSE "false")
  /\ UNCHANGED <<mem, scratch, row, auth, data>>

-----------------------------------------------------------------------------
(* Writing and locking an EEPROM: scratchWrite().                          *)

\* The address of the row, or of the lock byte of the page.
Target ==
  <<call.page, IF call.kind = "lockPage" THEN 0 ELSE row>>

Write == [op |-> Len(calls), row |-> IF call.kind = "lockPage" THEN 0 ELSE row]

WriteScratch ==
  /\ pc = "scratch" /\ pc' = "auth"
  /\ \E heard \in BOOLEAN :
       /\ Transaction(heard)
       /\ scratch' = IF heard THEN [at |-> Target, op |-> Write] ELSE scratch
  /\ UNCHANGED <<mem, selected, cut, row, auth, ret, data>>

ReadAuth ==
  /\ pc = "auth" /\ pc' = "copy"
  /\ \E heard \in BOOLEAN :
       /\ Transaction(heard)
       /\ auth' = IF heard THEN scratch.at ELSE None
  /\ UNCHANGED <<mem, scratch, selected, cut, row, ret, data>>

\* The chip copies the scratchpad where the authorisation is its own.
CopyScratch ==
  /\ pc = "copy"
  /\ \E heard \in BOOLEAN :
       /\ Transaction(heard)
       /\ IF heard /\ auth # None /\ auth = scratch.at
          THEN Store(scratch.at, scratch.op) ELSE UNCHANGED mem
  /\ IF call.kind = "writePage" /\ row < Rows
     THEN row' = row + 1 /\ pc' = "scratch" /\ UNCHANGED ret
     ELSE Return("ok") /\ UNCHANGED row
  /\ UNCHANGED <<scratch, selected, cut, auth, data>>

-----------------------------------------------------------------------------
(* Writing and locking an EPROM.                                           *)

\* writePage(): the command, the address and the first byte.
SendCommand ==
  /\ pc = "command"
  /\ \E heard \in BOOLEAN :
       /\ Transaction(heard) /\ selected' = heard
       /\ IF heard /\ Rows > 1 THEN pc' = "byte" /\ UNCHANGED ret
                   ELSE Return(IF heard THEN "ok" ELSE "CRC_MISMATCH")
  /\ row' = 2
  /\ UNCHANGED <<mem, scratch, cut, auth, data>>

\* The other bytes of the page, each with its programming pulse.
SendByte ==
  /\ pc = "byte"
  /\ \E heard \in BOOLEAN : Part(heard)
  /\ IF selected' /\ progPin THEN Store(<<call.page, row>>, Write)
                             ELSE UNCHANGED mem
  /\ row' = row + 1
  /\ IF row < Rows THEN pc' = "byte" /\ UNCHANGED ret ELSE Return("ok")
  /\ UNCHANGED <<scratch, auth, data>>

\* lockPage(): the command and the check of its answer.
LockEPROM ==
  /\ pc = "lock" /\ Command("pulse", "CRC_MISMATCH")
  /\ UNCHANGED <<mem, scratch, cut, row, auth, data>>

\* The pulse for a chip that may have left by now.
LockPulse ==
  /\ pc = "pulse"
  /\ \E heard \in BOOLEAN : Part(heard)
  /\ IF selected' /\ progPin /\ InStatus(call.page)
     THEN Store(<<call.page, 0>>, Write) ELSE UNCHANGED mem
  /\ Return("ok")
  /\ UNCHANGED <<scratch, row, auth, data>>

Next ==
  \/ Unplug
  \/ \E page \in 0..Pages : \/ readPage(page) \/ writePage(page)
                            \/ lockPage(page) \/ isPageLocked(page)
  \/ Read \/ ReadRow \/ ReadStatus \/ ReadAnswer
  \/ WriteScratch \/ ReadAuth \/ CopyScratch
  \/ SendCommand \/ SendByte \/ LockEPROM \/ LockPulse

Spec == Init /\ [][Next]_vars

-----------------------------------------------------------------------------
(* Properties.                                                             *)

Writes == [op : 1..MaxOps, row : 0..Rows]

\* Types, with the programming state of a call that is over (DallasEPROM.h).
TypeOK ==
  /\ chip \in Chips /\ progPin \in BOOLEAN /\ connected \in BOOLEAN
  /\ faults \in 0..MaxFaults
  /\ mem \in [Place -> SUBSET Writes]
  /\ scratch.at = None \/ (scratch.at \in Place /\ scratch.op \in Writes)
  /\ pc \in {"idle", "read", "bytes", "status", "answer", "scratch", "auth",
             "copy", "command", "byte", "lock", "pulse"}
  /\ (chip = "EPROM" => scratch.at = None) /\ auth \in Place \cup {None}
  /\ row \in 0..Rows + 1 /\ ret \in Codes \cup {"true", "false"}
  /\ data \in [1..Rows -> SUBSET Writes] /\ clean \in BOOLEAN
  /\ selected \in BOOLEAN /\ cut \in BOOLEAN

\* A place holds only what a call asked to be stored at that place, and a
\* page is locked only by a call that asked to lock it, although a copy
\* command may find the scratchpad of an earlier call (scratchWrite).
RightPlace ==
  \A p \in Place : \A w \in mem[p] :
     /\ calls[w.op].page = p[1] /\ w.row = p[2]
     /\ calls[w.op].kind = IF p[2] = 0 THEN "lockPage" ELSE "writePage"

Returned(kind) == pc = "idle" /\ calls # << >> /\ call.kind = kind

\* A page that readPage() reports as read is the page up to some row and erased
\* from there on.  Of an EPROM it is the whole page, unless the chip left while
\* it was being read: a chip that was away before is not taken for an erased
\* one (the check of the checksum, which comes before the bytes are read).
CrcProtects ==
  Returned("readPage") /\ ret = "ok" =>
    \E last \in 0..Rows :
      /\ chip = "EPROM" /\ ~cut => last = Rows
      /\ \A r \in 1..Rows : data[r] = IF r <= last THEN mem[<<call.page, r>>] ELSE {}

\* A call that returns an error code has changed nothing (the early returns
\* of writePage and lockPage).
ErrorChangesNothing ==
  pc = "idle" /\ ret \in Codes \ {"ok"} => mem = before

\* What the last call is for.  A page that was not locked holds what was written
\* (but for the first row of an EPROM, which gets no pulse), and a page whose bit
\* fits the status byte is locked.
Pulsed == chip = "EPROM" => progPin

WriteDone ==
  Returned("writePage") /\ call.page < Pages /\ Pulsed /\ before[<<call.page, 0>>] = {}
    => \A r \in (IF chip = "EPROM" THEN 2 ELSE 1)..Rows :
         [op |-> Len(calls), row |-> r] \in mem[<<call.page, r>>]

LockDone ==
  Returned("lockPage") /\ call.page < Pages /\ Pulsed /\ InStatus(call.page)
    => Locked(call.page)

\* A call that the chip heard from its beginning to its end has done what it is
\* for: what was written is there, what was locked is locked, what was read is
\* the page, and isPageLocked() tells the truth.  Nothing is left of an earlier
\* call that broke off (writePage, lockPage, readPage, isPageLocked, scratchWrite).
CleanMeansDone ==
  clean =>
    /\ WriteDone /\ LockDone
    /\ Returned("readPage") /\ call.page < Pages =>
         \A r \in 1..Rows : data[r] = mem[<<call.page, r>>]
    /\ Returned("isPageLocked") /\ call.page < Pages /\ InStatus(call.page) =>
         ret = IF Locked(call.page) THEN "true" ELSE "false"

\* Whatever the chip misses and wherever it is unplugged, it holds only what was
\* asked for, an error code means that nothing was changed, a page that is said
\* to be read is torn at most where the chip left, and a call that was heard
\* to its end has done its work; the state of library and chip has its types.
\* A call that returns 0 although the chip has missed some of it need not have
\* done its work (writePage, lockPage, readPage, isPageLocked).
ChipTellsTruth ==
  TypeOK /\ RightPlace /\ CrcProtects /\ ErrorChangesNothing /\ CleanMeansDone

=============================================================================
