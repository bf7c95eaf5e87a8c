----------------------------- MODULE Interrupts -----------------------------
(***************************************************************************)
(* Boot, and how a key or a byte gets to its handler: init of              *)
(* kernel/main.c in its order, the descriptor tables, the table of         *)
(* handlers and irq_handler of kernel/cpu, the programming of the PIC and  *)
(* of the serial port, and the two handlers as far as the devices notice   *)
(* them.  What the handlers do with a character is the module Echo.        *)
(*                                                                         *)
(* The devices are external.  The PIC is programmed for edges: a line that *)
(* stays high asks once.  The line of the keyboard is high while its byte  *)
(* has not been read from port 0x60; the line of the port while its FIFO   *)
(* holds TRIGGER bytes, or some for a long time.                           *)
(***************************************************************************)
EXTENDS Integers, Sequences, FiniteSets

CONSTANTS
  TRIGGER, FIFO,               \* 14 and 16 bytes
  Other,                       \* the lines of other devices
  MaxKeys, MaxBytes, MaxEdges  \* bounds of the model: what the devices send

KEYBOARD == 1
SERIAL == 4

ASSUME InterruptsAssumption ==
  /\ TRIGGER \in Nat \ {0} /\ FIFO \in Nat /\ FIFO >= TRIGGER
  /\ Other \subseteq (0..15) \ {KEYBOARD, 2, SERIAL}
  /\ {MaxKeys, MaxBytes, MaxEdges} \subseteq Nat

VARIABLES
  pc, caller,      \* the step of init, and who called require_serial
  up,              \* the flags require_satisfied of log.c, input.c, serial.c
  gdt, idt,        \* the descriptor tables; NONE before they are loaded
  handlers,        \* the vectors that have an entry in interrupt_handlers
  interrupts,      \* IF
  running, stage,  \* the vector irq_handler serves, or 0, and how far it is
  pic,             \* vector bases, lines that ask, lines in service
  kbd,             \* codes in the keyboard; one in the controller's buffer
  uart,            \* mode, bytes in the FIFO, some of them waiting for long
  unheard,         \* history: lines whose edge came before there was a handler
  behind,          \* history: the FIFO held more than TRIGGER at an interrupt
  sent             \* history: keys, bytes and edges, for the bounds

tables == <<gdt, idt, handlers>>
devices == <<pic, kbd, uart>>
cpu == <<interrupts, running, stage>>
history == <<unheard, behind>>
vars == <<pc, caller, up, tables, cpu, devices, history, sent>>

NONE == <<>>

Place == {"log", "require_serial", "uart_test", "uart_on", "uart_handler", "gdt", "idt",
          "isr", "pic", "sti", "pmm", "input", "keyboard", "fs", "idle",
          "stopped", "reset"}
Line == 0..15

TypeOK ==
  /\ pc \in Place /\ caller \in {"log", "input"}
  /\ handlers \subseteq {33, 36}
  /\ interrupts \in BOOLEAN
  /\ running \in {0} \cup (32..47) /\ stage \in {"call", "eoi"}
  /\ pic \in [base : {<<8, 112>>, <<32, 40>>}, irr : SUBSET Line, isr : SUBSET Line]
  /\ kbd \in [queued : Nat, full : BOOLEAN]
  /\ uart \in [mode : {"off", "loop", "on"}, count : 0..FIFO, timeout : BOOLEAN]
  /\ unheard \subseteq {KEYBOARD, SERIAL} /\ behind \in BOOLEAN
  /\ sent \in [keys : 0..MaxKeys, bytes : 0..MaxBytes, edges : 0..MaxEdges]

Init ==
  /\ pc = "log" /\ caller = "log" /\ up = {}
  /\ gdt = NONE /\ idt = NONE /\ handlers = {}
  /\ interrupts = FALSE /\ running = 0 /\ stage = "call"
  /\ pic = [base |-> <<8, 112>>, irr |-> {}, isr |-> {}]
  /\ kbd \in [queued : {0}, full : BOOLEAN]
  /\ uart = [mode |-> "off", count |-> 0, timeout |-> FALSE]
  /\ unheard = {} /\ behind = FALSE
  /\ sent = [keys |-> 0, bytes |-> 0, edges |-> 0]

-----------------------------------------------------------------------------
(* The devices.                                                            *)
High(k, u) ==
  {l \in {KEYBOARD, SERIAL} :
     \/ l = KEYBOARD /\ k.full
     \/ l = SERIAL /\ u.mode = "on" /\ (u.count >= TRIGGER \/ u.timeout)}

\* A line that rises asks; one that falls before it is served no longer does.
Devices(k, u) ==
  LET was == High(kbd, uart)
      is == High(k, u)
  IN  /\ kbd' = k /\ uart' = u
      /\ pic' = [pic EXCEPT !.irr = (@ \ (was \ is)) \cup (is \ was)]

PressKey ==
  /\ sent.keys < MaxKeys
  /\ sent' = [sent EXCEPT !.keys = @ + 1]
  /\ Devices([kbd EXCEPT !.queued = @ + 1], uart)
  /\ UNCHANGED <<pc, caller, up, tables, cpu, history>>

FillBuffer ==
  /\ kbd.queued > 0 /\ ~kbd.full
  /\ Devices([queued |-> kbd.queued - 1, full |-> TRUE], uart)
  /\ UNCHANGED <<pc, caller, up, tables, cpu, history, sent>>

\* A byte that finds the FIFO full is lost.
ByteArrives ==
  /\ uart.mode = "on" /\ sent.bytes < MaxBytes
  /\ sent' = [sent EXCEPT !.bytes = @ + 1]
  /\ Devices(kbd, [uart EXCEPT !.count = IF @ < FIFO THEN @ + 1 ELSE @])
  /\ UNCHANGED <<pc, caller, up, tables, cpu, history>>

Timeout ==
  /\ uart.mode = "on" /\ uart.count > 0 /\ ~uart.timeout
  /\ Devices(kbd, [uart EXCEPT !.timeout = TRUE])
  /\ UNCHANGED <<pc, caller, up, tables, cpu, history, sent>>

OtherEdge(l) ==
  /\ sent.edges < MaxEdges
  /\ sent' = [sent EXCEPT !.edges = @ + 1]
  /\ pic' = [pic EXCEPT !.irr = @ \cup {l}]
  /\ UNCHANGED <<pc, caller, up, tables, cpu, kbd, uart, history>>

-----------------------------------------------------------------------------
(* Boot.                                                                   *)
At(place) == pc = place /\ running = 0

GoTo(place) == pc' = place /\ UNCHANGED <<cpu, sent>>

\* require_log(LOG_BOTH): the console first.
RequireLog ==
  /\ At("log")
  /\ up' = up \cup {"log.console"} /\ caller' = "log"
  /\ GoTo("require_serial")
  /\ UNCHANGED <<tables, devices, history>>

\* require_serial returns to require_log, or to require_input, which returns
\* itself when it failed.
Returned(ok) ==
  IF caller = "log"
  THEN /\ up' = IF ok THEN up \cup {"serial", "log.serial"} ELSE up
       /\ GoTo("gdt")
  ELSE /\ up' = IF ok THEN up \cup {"serial", "input.serial"} ELSE up
       /\ GoTo(IF ok THEN "keyboard" ELSE "fs")

RequireSerial ==
  /\ At("require_serial")
  /\ IF "serial" \in up THEN Returned(TRUE)
     ELSE GoTo("uart_test") /\ UNCHANGED up
  /\ IF "serial" \in up THEN UNCHANGED devices
     ELSE Devices(kbd, [mode |-> "loop", count |-> 0, timeout |-> FALSE])
  /\ UNCHANGED <<caller, tables, history>>

\* The byte sent through the loop comes back, or it does not.
SerialTest ==
  /\ At("uart_test")
  /\ \/ GoTo("uart_on") /\ UNCHANGED up
     \/ Returned(FALSE)
  /\ UNCHANGED <<caller, tables, devices, history>>

SerialOn ==
  /\ At("uart_on")
  /\ Devices(kbd, [uart EXCEPT !.mode = "on"])
  /\ GoTo("uart_handler")
  /\ UNCHANGED <<caller, up, tables, history>>

install_handler(vector) == handlers' = handlers \cup {vector}

SerialHandler ==
  /\ At("uart_handler")
  /\ install_handler(36)
  /\ Returned(TRUE)
  /\ UNCHANGED <<caller, gdt, idt, devices, history>>

\* Access byte and flags.
Descriptor(access, flags) == [access |-> access, flags |-> flags]
DefaultGDT ==
  <<Descriptor(0, 0), Descriptor(154, 160), Descriptor(146, 192),
    Descriptor(250, 160), Descriptor(242, 192), Descriptor(137, 64)>>

Bit(x, value) == (x \div value) % 2 = 1
Entry(table, selector) == table[selector \div 8 + 1]
IsCode64(e) == /\ Bit(e.access, 128) /\ Bit(e.access, 16) /\ Bit(e.access, 8)
               /\ Bit(e.flags, 32)
IsData(e) == Bit(e.access, 128) /\ Bit(e.access, 16) /\ ~Bit(e.access, 8)
IsTSS(e) == e.access = 137

\* LoadGDT loads 0x10 and 0x08, TssFlush 0x2b, which marks the segment busy.
\* A wrong selector faults where nobody handles faults yet.
gdtInit ==
  /\ At("gdt")
  /\ IF /\ IsData(Entry(DefaultGDT, 16)) /\ IsCode64(Entry(DefaultGDT, 8))
        /\ IsTSS(Entry(DefaultGDT, 43))
     THEN /\ gdt' = [DefaultGDT EXCEPT ![43 \div 8 + 1].access = 139]
          /\ GoTo("idt")
     ELSE gdt' = gdt /\ GoTo("reset")
  /\ UNCHANGED <<caller, up, idt, handlers, devices, history>>

empty_stub == -1

\* Each gate has the type of an interrupt gate, 0x8e, and leads to its stub.
SELECTOR == 8
Gate(stub, selector, type) == [stub |-> stub, selector |-> selector, type |-> type]
IDTSetGate(table, stub) ==
  [v \in DOMAIN table |->
     IF v \in DOMAIN stub THEN Gate(stub[v], SELECTOR, 142) ELSE table[v]]

\* The model keeps the vectors of the PIC and one beyond.
FillPreIdt == IDTSetGate([v \in 32..48 |-> 0], [v \in 32..48 |-> empty_stub])

IDTInit ==
  /\ At("idt")
  /\ idt' = FillPreIdt
  /\ GoTo("isr")
  /\ UNCHANGED <<caller, up, gdt, handlers, devices, history>>

\* Fault: only the gate of the timer is set.
ISRInitFew ==
  /\ At("isr")
  /\ idt' = IDTSetGate(idt, [v \in {32} |-> v])
  /\ GoTo("pic")
  /\ UNCHANGED <<caller, up, gdt, handlers, devices, history>>

\* The stubs pass their own vector on, those of 32 to 47 to irq_handler, those of
\* 0 to 31 to fault_handler.
ISRInit ==
  /\ At("isr")
  /\ idt' = IDTSetGate(idt, [v \in 32..47 |-> v])
  /\ GoTo("pic")
  /\ UNCHANGED <<caller, up, gdt, handlers, devices, history>>

\* Fault: the second PIC is given the vectors of the first.
PicRemapOver ==
  /\ At("pic")
  /\ pic' = [base |-> <<32, 32>>, irr |-> {}, isr |-> {}]
  /\ unheard' = High(kbd, uart)
  /\ GoTo("sti")
  /\ UNCHANGED <<caller, up, tables, kbd, uart, behind>>

\* The PIC forgets the edges it has seen; every line is let through.
PicRemap ==
  /\ At("pic")
  /\ pic' = [base |-> <<32, 40>>, irr |-> {}, isr |-> {}]
  /\ unheard' = High(kbd, uart)
  /\ GoTo("sti")
  /\ UNCHANGED <<caller, up, tables, kbd, uart, behind>>

enable_interrupts ==
  /\ At("sti")
  /\ interrupts' = TRUE
  /\ pc' = "pmm"
  /\ UNCHANGED <<caller, up, tables, running, stage, devices, history, sent>>

\* KERNEL_ERROR: interrupts stay off for good.
Stops == interrupts' = FALSE /\ pc' = "stopped" /\ UNCHANGED <<running, stage, sent>>

\* A fault nobody has installed a handler for, which the gate took with
\* interrupts off, ends likewise.
fault_handler == handlers \cap (0..31) = {} /\ Stops

pmmInit ==
  /\ At("pmm")
  /\ Stops \/ GoTo("input")
  /\ UNCHANGED <<caller, up, tables, devices, history>>

\* require_input(INPUT_BOTH): the serial port first.
RequireInput ==
  /\ At("input")
  /\ caller' = "input"
  /\ GoTo("require_serial")
  /\ UNCHANGED <<up, tables, devices, history>>

require_keyboard ==
  /\ At("keyboard")
  /\ install_handler(33)
  /\ up' = up \cup {"input.keyboard"}
  /\ GoTo("fs")
  /\ UNCHANGED <<caller, gdt, idt, devices, history>>

\* vfs_init, devfs_init, the archive and the file that is read from it: each of
\* them may fail, or follow a NULL into a fault.  Then main halts until the next
\* interrupt, for ever.
Filesystems ==
  /\ At("fs")
  /\ Stops \/ fault_handler \/ GoTo("idle")
  /\ UNCHANGED <<caller, up, tables, devices, history>>

Boot ==
  \/ RequireLog \/ RequireSerial \/ SerialTest \/ SerialOn \/ SerialHandler
  \/ gdtInit \/ IDTInit \/ ISRInit \/ PicRemap \/ enable_interrupts
  \/ pmmInit \/ RequireInput \/ require_keyboard \/ Filesystems

-----------------------------------------------------------------------------
(* Interrupts.                                                             *)
\* The lines in the order in which the PIC serves them: 8 to 15 hang on 2.
Rank(l) == IF l < 8 THEN 16 * l ELSE 32 + l
Chained(l) == IF l < 8 THEN {l} ELSE {2, l}

\* The PIC's choice: the first of those that ask, unless one of its rank or an
\* earlier one is still in service.
Chosen == {l \in pic.irr : /\ \A k \in pic.irr : Rank(l) <= Rank(k)
                           /\ \A k \in pic.isr : Rank(l) < Rank(k)}

\* The gate leads to the stub, which runs with interrupts off; empty_stub is
\* an iretq.
Deliver ==
  /\ interrupts /\ running = 0
  /\ \E l \in Chosen :
       LET vector == IF l < 8 THEN pic.base[1] + l ELSE pic.base[2] + l - 8
           gate == idt[vector]
       IN  /\ pic' = [pic EXCEPT !.irr = @ \ {l}, !.isr = @ \cup Chained(l)]
           /\ IF ~IsCode64(Entry(gdt, gate.selector))
              THEN pc' = "reset" /\ UNCHANGED cpu
              ELSE /\ UNCHANGED pc
                   /\ IF gate.stub = empty_stub THEN UNCHANGED cpu
                      ELSE /\ running' = gate.stub /\ stage' = "call"
                           /\ interrupts' = (gate.type # 142)
  /\ UNCHANGED <<caller, up, tables, kbd, uart, history, sent>>

Serve(vector) == running = vector /\ stage = "call" /\ stage' = "eoi"

\* Fault: keyboard_handler leaves the byte where it is.
KeyboardHandlerBlind ==
  /\ Serve(33) /\ 33 \in handlers
  /\ UNCHANGED <<pc, caller, up, tables, interrupts, running, devices, history, sent>>

\* keyboard_handler reads port 0x60.
KeyboardHandler ==
  /\ Serve(33) /\ 33 \in handlers
  /\ Devices([kbd EXCEPT !.full = FALSE], uart)
  /\ UNCHANGED <<pc, caller, up, tables, interrupts, running, history, sent>>

serial_received == uart.count > 0

\* handle_serial_in waits for a byte and reads it: one.
SerialIn ==
  /\ Serve(36) /\ 36 \in handlers
  /\ serial_received
  /\ Devices(kbd, [uart EXCEPT !.count = @ - 1, !.timeout = FALSE])
  /\ behind' = (behind \/ uart.count > TRIGGER)
  /\ UNCHANGED <<pc, caller, up, tables, interrupts, running, unheard, sent>>

\* irq_handler when nobody has installed a handler.
NoHandler ==
  /\ stage = "call" /\ running \in (32..47) \ handlers /\ stage' = "eoi"
  /\ unheard' = unheard \cup ({running - 32} \cap High(kbd, uart))
  /\ UNCHANGED <<pc, caller, up, tables, interrupts, running, devices, behind, sent>>

\* The command 0x20: the line of the first rank in service is done.
EOI(inService, chip) ==
  inService \ {l \in inService \cap chip :
                 \A k \in inService \cap chip : l <= k}

\* Fault: only the PIC that asked is told.
irq_handler_end_one ==
  /\ running # 0 /\ stage = "eoi"
  /\ pic' = [pic EXCEPT !.isr = IF running >= 40 THEN EOI(@, 8..15) ELSE EOI(@, 0..7)]
  /\ running' = 0 /\ interrupts' = TRUE
  /\ UNCHANGED <<pc, caller, up, tables, stage, kbd, uart, history, sent>>

\* The end of irq_handler, and the iretq of the stub.
irq_handler_end ==
  /\ running # 0 /\ stage = "eoi"
  /\ pic' = [pic EXCEPT !.isr =
               EOI(IF running >= 40 THEN EOI(@, 8..15) ELSE @, 0..7)]
  /\ running' = 0 /\ interrupts' = TRUE
  /\ UNCHANGED <<pc, caller, up, tables, stage, kbd, uart, history, sent>>

irq_handler == KeyboardHandler \/ SerialIn \/ NoHandler \/ irq_handler_end

Next ==
  \/ Boot \/ Deliver \/ irq_handler
  \/ PressKey \/ FillBuffer \/ ByteArrives \/ Timeout
  \/ \E l \in Other : OtherEdge(l)

\* The processor goes on, an interrupt is taken when it may be, and the devices
\* do their part.  Nobody has to press a key.
Spec ==
  /\ Init /\ [][Next]_vars
  /\ WF_vars(Boot) /\ WF_vars(Deliver) /\ WF_vars(irq_handler)
  /\ WF_vars(FillBuffer) /\ WF_vars(Timeout)

-----------------------------------------------------------------------------
Remapped == pic.base[1] # 8
AboutToServe(vector) == running = vector /\ stage = "call"

\* A device that asks for attention has an interrupt coming, or its handler is
\* about to read from it: with edges, a line that is missed once stays high and
\* is never heard again.  That happens in two ways only: the edge came before
\* there was a handler, or before the PIC was programmed (unheard), or
\* handle_serial_in left a FIFO above its threshold (behind).
LineHeard ==
  Remapped =>
    \A l \in High(kbd, uart) \ unheard :
      \/ l \in pic.irr \/ AboutToServe(32 + l)
      \/ l = SERIAL /\ behind

\* When interrupts are on nothing is in service: every interrupt, of either PIC
\* and with or without a handler, was ended, so no line of a lower rank is held
\* back.
NothingHeldBack == interrupts => pic.isr = {}

\* handle_serial_in waits for its byte with interrupts off; it never has to.
SerialHasByte == AboutToServe(36) /\ 36 \in handlers => serial_received

\* Once boot is over, every key is read: if the serial port works (require_input
\* installs the keyboard's handler after the port's, or not at all) and no key
\* came too early.
KeysRead ==
  (pc = "idle" /\ 36 \in handlers /\ KEYBOARD \notin unheard
    /\ kbd.queued > 0)
  ~> (kbd.queued = 0 /\ ~kbd.full)

\* And every byte that arrives at the port is read, one an interrupt, unless the
\* FIFO ever got ahead of the handler.
BytesRead ==
  (pc = "idle" /\ SERIAL \notin unheard /\ uart.count > 0)
  ~> (uart.count = 0 \/ behind)
=============================================================================
