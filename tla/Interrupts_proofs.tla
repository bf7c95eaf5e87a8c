------------------------- MODULE Interrupts_proofs --------------------------
(***************************************************************************)
(* What the interrupts keep, for every FIFO and threshold, any other       *)
(* devices, and whatever the devices send and when.                        *)
(*                                                                         *)
(* None of the properties is inductive alone.  That every interrupt is     *)
(* ended needs that a running handler has its own line in service and no   *)
(* other, which needs the tables and the PIC to be set up before the first *)
(* interrupt; that the port's handler finds a byte needs that a line of a  *)
(* device that asks is still high.                                         *)
(***************************************************************************)
EXTENDS Interrupts, TLAPS

\* Before interrupts are enabled for the first time.
Early ==
  \/ pc \in {"log", "gdt", "idt", "isr", "pic", "sti"}
  \/ caller = "log" /\ pc \in {"require_serial", "uart_test", "uart_on", "uart_handler"}

LoadedGDT == [DefaultGDT EXCEPT ![6].access = 139]
Stubs == IDTSetGate(FillPreIdt, [v \in 32..47 |-> v])

\* The tables are complete one after the other.
TablesLoaded ==
  /\ pc \in {"idt", "isr", "pic", "sti"} \/ ~Early => gdt = LoadedGDT
  /\ pc = "isr" => idt = FillPreIdt
  /\ pc \in {"pic", "sti"} \/ ~Early => idt = Stubs
  /\ pc = "sti" \/ ~Early => pic.base = <<32, 40>>
  /\ pc # "reset"

\* What is in service is what irq_handler serves.
InService ==
  /\ interrupts => running = 0
  /\ interrupts \/ running # 0 => ~Early
  /\ pic.isr = IF running = 0 THEN {} ELSE Chained(running - 32)

\* A device that has asked is still high, and the port's handler has its byte.
StillHigh ==
  /\ pic.irr \cap {KEYBOARD, SERIAL} \subseteq High(kbd, uart)
  /\ uart.timeout => uart.count > 0
  /\ AboutToServe(36) => uart.count > 0

IInv == TypeOK /\ TablesLoaded /\ InService /\ StillHigh /\ LineHeard

Keyboard == [queued : Nat, full : BOOLEAN]
Uart == [mode : {"off", "loop", "on"}, count : 0..FIFO, timeout : BOOLEAN]
PIC == [base : {<<8, 112>>, <<32, 40>>}, irr : SUBSET Line, isr : SUBSET Line]

\* Only the keyboard and the serial port have a line that stays high.
LEMMA HighLines ==
  ASSUME NEW k, NEW u
  PROVE  /\ High(k, u) \subseteq {KEYBOARD, SERIAL}
         /\ KEYBOARD \in High(k, u) <=> k.full
         /\ SERIAL \in High(k, u) <=>
              u.mode = "on" /\ (u.count >= TRIGGER \/ u.timeout)
BY DEF High, KEYBOARD, SERIAL

\* Whatever a device does, the lines that ask are high, and a high line is
\* heard: unless the processor stops to be about to serve it and it stays high.
LEMMA DevicesHeard ==
  ASSUME TypeOK, StillHigh, LineHeard,
         NEW k, NEW u, Devices(k, u),
         unheard' = unheard, behind => behind',
         \A l \in High(k, u) :
           AboutToServe(32 + l) => AboutToServe(32 + l)' \/ (l = SERIAL /\ behind')
  PROVE  /\ pic' \in PIC /\ pic'.base = pic.base /\ pic'.isr = pic.isr
         /\ pic'.irr \cap {KEYBOARD, SERIAL} \subseteq High(kbd, uart)'
         /\ LineHeard'
<1>. DEFINE was == High(kbd, uart)
            is == High(k, u)
<1>1. was \subseteq {KEYBOARD, SERIAL} /\ is \subseteq {KEYBOARD, SERIAL}
  BY HighLines
<1>2. kbd' = k /\ uart' = u /\ High(kbd, uart)' = is
  BY DEF Devices, High
<1>3. pic \in PIC
  BY DEF TypeOK, PIC
<1>4. pic' = [pic EXCEPT !.irr = (pic.irr \ (was \ is)) \cup (is \ was)]
  BY DEF Devices
<1>5. is \subseteq Line /\ was \subseteq Line
  BY <1>1 DEF Line, KEYBOARD, SERIAL
<1>6. /\ pic' \in PIC /\ pic'.base = pic.base /\ pic'.isr = pic.isr
      /\ pic'.irr = (pic.irr \ (was \ is)) \cup (is \ was)
  BY <1>3, <1>4, <1>5 DEF PIC
<1>7. pic'.irr \cap {KEYBOARD, SERIAL} \subseteq is
  BY <1>6 DEF StillHigh
<1>8. ASSUME Remapped', NEW l \in is \ unheard'
      PROVE  l \in pic'.irr \/ AboutToServe(32 + l)' \/ (l = SERIAL /\ behind')
  <2>1. CASE l \notin was
    BY <1>6, <1>8, <2>1
  <2>2. CASE l \in was
    <3>1. Remapped
      BY <1>6, <1>8 DEF Remapped
    <3>2. l \in pic.irr \/ AboutToServe(32 + l) \/ (l = SERIAL /\ behind)
      BY <1>8, <2>2, <3>1 DEF LineHeard
    <3>. QED
      BY <1>6, <1>8, <2>2, <3>2
  <2>. QED
    BY <2>1, <2>2
<1>9. LineHeard'
  BY <1>2, <1>8 DEF LineHeard
<1>. QED
  BY <1>2, <1>6, <1>7, <1>9

\* The devices touch neither the tables nor the processor.
LEMMA DeviceStep ==
  ASSUME IInv,
         PressKey \/ FillBuffer \/ ByteArrives \/ Timeout
           \/ \E l \in Other : OtherEdge(l)
  PROVE  IInv'
<1>. USE InterruptsAssumption DEF IInv
<1>1. UNCHANGED <<pc, caller, up, tables, cpu, history>>
  BY DEF PressKey, FillBuffer, ByteArrives, Timeout, OtherEdge
<1>2. /\ pc' = pc /\ caller' = caller /\ gdt' = gdt /\ idt' = idt
      /\ handlers' = handlers /\ interrupts' = interrupts /\ running' = running
      /\ stage' = stage /\ unheard' = unheard /\ behind' = behind
  BY <1>1 DEF tables, cpu, history
<1>3. /\ kbd' \in Keyboard /\ uart' \in Uart
      /\ sent' \in [keys : 0..MaxKeys, bytes : 0..MaxBytes, edges : 0..MaxEdges]
      /\ uart'.timeout => uart'.count > 0
      /\ uart'.count >= uart.count
  <2>1. kbd \in Keyboard /\ uart \in Uart
    BY DEF TypeOK, Keyboard, Uart
  <2>2. CASE PressKey
    BY <2>1, <2>2 DEF PressKey, Devices, TypeOK, StillHigh, Keyboard, Uart
  <2>3. CASE FillBuffer
    BY <2>1, <2>3 DEF FillBuffer, Devices, TypeOK, StillHigh, Keyboard, Uart
  <2>4. CASE ByteArrives
    BY <2>1, <2>4 DEF ByteArrives, Devices, TypeOK, StillHigh, Keyboard, Uart
  <2>5. CASE Timeout
    <3>1. kbd' = kbd /\ uart' = [uart EXCEPT !.timeout = TRUE] /\ sent' = sent
      BY <2>5 DEF Timeout, Devices
    <3>2. uart' \in Uart /\ uart'.count = uart.count /\ uart.count > 0
      BY <2>1, <2>5, <3>1 DEF Timeout, Uart
    <3>. QED
      BY <2>1, <3>1, <3>2 DEF TypeOK, Uart
  <2>6. CASE \E l \in Other : OtherEdge(l)
    BY <2>1, <2>6 DEF OtherEdge, TypeOK, StillHigh, Keyboard, Uart
  <2>. QED
    BY <2>2, <2>3, <2>4, <2>5, <2>6
<1>4. /\ pic' \in PIC /\ pic'.base = pic.base /\ pic'.isr = pic.isr
      /\ pic'.irr \cap {KEYBOARD, SERIAL} \subseteq High(kbd, uart)'
      /\ LineHeard'
  <2>1. CASE PressKey \/ FillBuffer \/ ByteArrives \/ Timeout
    <3>1. PICK k, u : Devices(k, u)
      BY <2>1 DEF PressKey, FillBuffer, ByteArrives, Timeout
    <3>. QED
      BY <1>2, <3>1, DevicesHeard DEF AboutToServe
  <2>2. CASE \E l \in Other : OtherEdge(l)
    <3>1. PICK l \in Other : OtherEdge(l)
      BY <2>2
    <3>2. l \in Line /\ l \notin {KEYBOARD, SERIAL}
      BY <3>1 DEF Line
    <3>3. /\ pic' = [pic EXCEPT !.irr = @ \cup {l}]
          /\ kbd' = kbd /\ uart' = uart
      BY <3>1 DEF OtherEdge
    <3>4. pic \in PIC
      BY DEF TypeOK, PIC
    <3>5. /\ pic' \in PIC /\ pic'.base = pic.base /\ pic'.isr = pic.isr
          /\ pic'.irr = pic.irr \cup {l}
      BY <3>2, <3>3, <3>4 DEF PIC
    <3>6. High(kbd, uart)' = High(kbd, uart)
      BY <3>3 DEF High
    <3>7. LineHeard'
      BY <1>2, <3>5, <3>6 DEF LineHeard, Remapped, AboutToServe
    <3>. QED
      BY <3>2, <3>5, <3>6, <3>7 DEF StillHigh
  <2>. QED
    BY <2>1, <2>2
<1>5. TypeOK'
  BY <1>2, <1>3, <1>4 DEF TypeOK, Keyboard, Uart, PIC
<1>6. TablesLoaded' /\ InService'
  BY <1>2, <1>4 DEF TablesLoaded, InService, Early
<1>7. StillHigh'
  <2>1. uart.count \in Int /\ uart'.count \in Int
    BY <1>3 DEF TypeOK, Uart
  <2>. QED
    BY <1>2, <1>3, <1>4, <2>1 DEF StillHigh, AboutToServe
<1>. QED
  BY <1>4, <1>5, <1>6, <1>7

\* The descriptor at 0x08 is one of 64-bit code, and the gates lead to their
\* stubs with interrupts off.
LEMMA TablesRight ==
  /\ IsCode64(Entry(LoadedGDT, 8))
  /\ \A v \in 32..47 :
       Stubs[v].stub = v /\ Stubs[v].selector = 8 /\ Stubs[v].type = 142
<1>1. LoadedGDT[2] = Descriptor(154, 160)
  BY DEF LoadedGDT, DefaultGDT
<1>2. 8 \div 8 + 1 = 2
  OBVIOUS
<1>3. Entry(LoadedGDT, 8) = Descriptor(154, 160)
  BY <1>1, <1>2 DEF Entry
<1>4. IsCode64(Descriptor(154, 160))
  BY DEF IsCode64, Bit, Descriptor
<1>5. ASSUME NEW v \in 32..47
      PROVE  Stubs[v] = Gate(v, 8, 142)
  BY DEF Stubs, IDTSetGate, FillPreIdt, SELECTOR
<1>6. \A v \in 32..47 :
        Stubs[v].stub = v /\ Stubs[v].selector = 8 /\ Stubs[v].type = 142
  BY <1>5 DEF Gate
<1>. QED
  BY <1>3, <1>4, <1>6

LEMMA EndsOne ==
  ASSUME NEW inService, NEW chip,
         NEW l \in inService \cap chip, l \in Int,
         \A k \in inService \cap chip : k = l
  PROVE  EOI(inService, chip) = inService \ {l}
<1>1. \A m \in inService \cap chip : m = l /\ m <= l
  OBVIOUS
<1>2. {m \in inService \cap chip : \A k \in inService \cap chip : m <= k} = {l}
  BY <1>1
<1>. QED
  BY <1>2 DEF EOI

\* The two commands at the end of irq_handler end the one interrupt that is in
\* service, of either PIC.
LEMMA Ended ==
  ASSUME NEW v \in 32..47
  PROVE  EOI(IF v >= 40 THEN EOI(Chained(v - 32), 8..15) ELSE Chained(v - 32),
             0..7) = {}
<1>1. ASSUME NEW l \in 0..7
      PROVE  EOI({l}, 0..7) = {}
  <2>1. l \in Int
    OBVIOUS
  <2>2. l \in {l} \cap (0..7) /\ \A k \in {l} \cap (0..7) : k = l
    BY Zenon
  <2>3. EOI({l}, 0..7) = {l} \ {l}
    BY <2>1, <2>2, EndsOne
  <2>. QED
    BY <2>3
<1>2. ASSUME NEW l \in 8..15
      PROVE  EOI({2, l}, 8..15) = {2}
  <2>1. l \in Int /\ l # 2
    OBVIOUS
  <2>2. l \in {2, l} \cap (8..15)
    BY Zenon
  <2>3. \A k \in {2, l} \cap (8..15) : k = l
    OBVIOUS
  <2>4. EOI({2, l}, 8..15) = {2, l} \ {l}
    BY <2>1, <2>2, <2>3, EndsOne
  <2>. QED
    BY <2>1, <2>4
<1>3. CASE v >= 40
  <2>1. PICK l \in 8..15 : l = v - 32
    BY <1>3
  <2>2. Chained(v - 32) = {2, l}
    BY <2>1 DEF Chained
  <2>3. EOI({2}, 0..7) = {}
    BY <1>1
  <2>. QED
    BY <1>2, <1>3, <2>2, <2>3
<1>4. CASE ~(v >= 40)
  <2>1. PICK l \in 0..7 : l = v - 32
    BY <1>4
  <2>2. Chained(v - 32) = {l}
    BY <2>1 DEF Chained
  <2>. QED
    BY <1>1, <1>4, <2>2
<1>. QED
  BY <1>3, <1>4

\* An interrupt is taken: its line is in service, and its stub runs.
LEMMA DeliverStep ==
  ASSUME IInv, Deliver
  PROVE  IInv'
<1>. USE DEF IInv
<1>1. PICK l \in Chosen :
        LET vector == IF l < 8 THEN pic.base[1] + l ELSE pic.base[2] + l - 8
            gate == idt[vector]
        IN  /\ pic' = [pic EXCEPT !.irr = @ \ {l}, !.isr = @ \cup Chained(l)]
            /\ IF ~IsCode64(Entry(gdt, gate.selector))
               THEN pc' = "reset" /\ UNCHANGED cpu
               ELSE /\ UNCHANGED pc
                    /\ IF gate.stub = empty_stub THEN UNCHANGED cpu
                       ELSE /\ running' = gate.stub /\ stage' = "call"
                            /\ interrupts' = (gate.type # 142)
  BY DEF Deliver
<1>2. /\ interrupts /\ running = 0
      /\ caller' = caller /\ gdt' = gdt /\ idt' = idt /\ handlers' = handlers
      /\ kbd' = kbd /\ uart' = uart
      /\ unheard' = unheard /\ behind' = behind /\ sent' = sent
  BY DEF Deliver, tables, history
<1>3. /\ ~Early /\ gdt = LoadedGDT /\ idt = Stubs /\ pic.base = <<32, 40>>
      /\ pic.isr = {}
  BY <1>2 DEF InService, TablesLoaded
<1>4. pic \in PIC /\ l \in pic.irr /\ l \in 0..15
  BY DEF Chosen, TypeOK, PIC, Line
<1>5. (IF l < 8 THEN pic.base[1] + l ELSE pic.base[2] + l - 8) = 32 + l
  BY <1>3, <1>4
<1>6. 32 + l \in 32..47
  BY <1>4
<1>7. /\ idt[32 + l].stub = 32 + l /\ idt[32 + l].selector = 8
      /\ idt[32 + l].type = 142 /\ IsCode64(Entry(gdt, 8))
  BY <1>3, <1>6, TablesRight
<1>8. 32 + l # empty_stub
  BY <1>4 DEF empty_stub
<1>9. /\ pc' = pc /\ running' = 32 + l /\ stage' = "call" /\ interrupts' = FALSE
  BY ZenonT(60), <1>1, <1>5, <1>7, <1>8
<1>10. Chained(l) \subseteq Line /\ Chained(running' - 32) = Chained(l)
  BY <1>4, <1>9 DEF Chained, Line
<1>11. /\ pic' \in PIC /\ pic'.base = pic.base
       /\ pic'.irr = pic.irr \ {l} /\ pic'.isr = Chained(l)
  BY ZenonT(60), <1>1, <1>3, <1>4, <1>10 DEF PIC
<1>12. High(kbd, uart)' = High(kbd, uart)
  BY <1>2 DEF High
<1>13. TypeOK'
  BY <1>2, <1>6, <1>9, <1>11 DEF TypeOK, PIC
<1>14. TablesLoaded'
  BY <1>2, <1>9, <1>11 DEF TablesLoaded, Early
<1>15. InService'
  BY <1>2, <1>3, <1>4, <1>9, <1>10, <1>11 DEF InService, Early
<1>16. StillHigh'
  <2>1. ASSUME AboutToServe(36)'
        PROVE  uart'.count > 0
    <3>1. l = SERIAL
      BY <1>4, <1>9, <2>1 DEF AboutToServe, SERIAL
    <3>2. SERIAL \in High(kbd, uart)
      BY <1>4, <3>1 DEF StillHigh
    <3>3. uart.count >= TRIGGER \/ uart.timeout
      BY <3>2, HighLines
    <3>4. uart.count \in Nat
      BY InterruptsAssumption DEF TypeOK
    <3>. QED
      BY <1>2, <3>3, <3>4, InterruptsAssumption DEF StillHigh
  <2>. QED
    BY <1>2, <1>11, <1>12, <2>1 DEF StillHigh
<1>17. LineHeard'
  <2>1. ASSUME Remapped, NEW m \in High(kbd, uart) \ unheard
        PROVE  m \in pic'.irr \/ AboutToServe(32 + m)' \/ (m = SERIAL /\ behind)
    <3>1. ~AboutToServe(32 + m)
      BY <1>2, <2>1, HighLines DEF AboutToServe, KEYBOARD, SERIAL
    <3>2. m \in pic.irr \/ (m = SERIAL /\ behind)
      BY <2>1, <3>1 DEF LineHeard
    <3>3. m = l => AboutToServe(32 + m)'
      BY <1>9 DEF AboutToServe
    <3>. QED
      BY <1>11, <3>2, <3>3
  <2>2. Remapped' => Remapped
    BY <1>11 DEF Remapped
  <2>. QED
    BY <1>2, <1>12, <2>1, <2>2 DEF LineHeard
<1>. QED
  BY <1>13, <1>14, <1>15, <1>16, <1>17

\* A handler of irq_handler runs: it reads from its device, or is missing.
LEMMA ServeStep ==
  ASSUME IInv, KeyboardHandler \/ SerialIn \/ NoHandler
  PROVE  IInv'
<1>. USE DEF IInv
<1>1. /\ pc' = pc /\ caller' = caller /\ gdt' = gdt /\ idt' = idt
      /\ handlers' = handlers /\ interrupts' = interrupts /\ running' = running
      /\ running # 0 /\ stage = "call" /\ stage' = "eoi" /\ sent' = sent
  BY DEF KeyboardHandler, SerialIn, NoHandler, Serve, tables
<1>2. kbd \in Keyboard /\ uart \in Uart /\ uart.count \in Int /\ pic \in PIC
  BY InterruptsAssumption DEF TypeOK, Keyboard, Uart, PIC
<1>3. /\ kbd' \in Keyboard /\ uart' \in Uart
      /\ uart'.timeout => uart'.count > 0
      /\ unheard' \subseteq {KEYBOARD, SERIAL} /\ behind' \in BOOLEAN
  <2>1. CASE KeyboardHandler
    <3>1. /\ kbd' = [kbd EXCEPT !.full = FALSE] /\ uart' = uart
          /\ unheard' = unheard /\ behind' = behind
      BY <2>1 DEF KeyboardHandler, Devices, history
    <3>2. kbd' \in Keyboard
      BY <1>2, <3>1 DEF Keyboard
    <3>. QED
      BY <1>2, <3>1, <3>2 DEF TypeOK, StillHigh
  <2>2. CASE SerialIn
    <3>1. /\ kbd' = kbd /\ unheard' = unheard
          /\ uart' = [uart EXCEPT !.count = @ - 1, !.timeout = FALSE]
          /\ uart.count > 0
          /\ behind' = (behind \/ uart.count > TRIGGER)
      BY <2>2 DEF SerialIn, Devices, serial_received
    <3>2. uart.count - 1 \in 0..FIFO
      BY <1>2, <3>1, InterruptsAssumption DEF Uart
    <3>3. uart' \in Uart /\ uart'.timeout = FALSE
      BY <1>2, <3>1, <3>2 DEF Uart
    <3>4. behind' \in BOOLEAN
      BY <3>1
    <3>. QED
      BY <1>2, <3>1, <3>3, <3>4 DEF TypeOK
  <2>3. CASE NoHandler
    <3>1. /\ kbd' = kbd /\ uart' = uart /\ behind' = behind
          /\ unheard' = unheard \cup ({running - 32} \cap High(kbd, uart))
      BY <2>3 DEF NoHandler, devices
    <3>. QED
      BY <1>2, <3>1, HighLines DEF TypeOK, StillHigh
  <2>. QED
    BY <2>1, <2>2, <2>3
<1>4. /\ pic' \in PIC /\ pic'.base = pic.base /\ pic'.isr = pic.isr
      /\ pic'.irr \cap {KEYBOARD, SERIAL} \subseteq High(kbd, uart)'
      /\ LineHeard'
  <2>1. CASE KeyboardHandler
    <3>1. /\ running = 33 /\ Devices([kbd EXCEPT !.full = FALSE], uart)
          /\ unheard' = unheard /\ behind' = behind
      BY <2>1 DEF KeyboardHandler, Serve, history
    <3>2. KEYBOARD \notin High([kbd EXCEPT !.full = FALSE], uart)
      BY <1>2, HighLines DEF Keyboard
    <3>3. ~AboutToServe(32 + SERIAL)
      BY <3>1 DEF AboutToServe, SERIAL
    <3>4. \A l \in High([kbd EXCEPT !.full = FALSE], uart) : l = SERIAL
      BY <3>2, HighLines
    <3>. QED
      BY <3>1, <3>3, <3>4, DevicesHeard
  <2>2. CASE SerialIn
    <3>. DEFINE u == [uart EXCEPT !.count = @ - 1, !.timeout = FALSE]
    <3>1. /\ running = 36 /\ Devices(kbd, u) /\ unheard' = unheard
          /\ behind' = (behind \/ uart.count > TRIGGER)
      BY <2>2 DEF SerialIn, Serve
    <3>2. u.count = uart.count - 1 /\ u.timeout = FALSE
      BY <1>2 DEF Uart
    <3>3. ASSUME NEW l \in High(kbd, u), AboutToServe(32 + l)
          PROVE  l = SERIAL /\ behind'
      <4>1. l \in {KEYBOARD, SERIAL}
        BY <3>3, HighLines
      <4>2. l = SERIAL
        BY <3>1, <3>3, <4>1 DEF AboutToServe, KEYBOARD, SERIAL
      <4>3. u.count >= TRIGGER
        BY <3>2, <3>3, <4>2, HighLines
      <4>4. uart.count > TRIGGER
        BY <1>2, <3>2, <4>3, InterruptsAssumption
      <4>. QED
        BY <3>1, <4>2, <4>4
    <3>. HIDE DEF u
    <3>. QED
      BY <3>1, <3>3, DevicesHeard
  <2>3. CASE NoHandler
    <3>1. /\ pic' = pic /\ kbd' = kbd /\ uart' = uart /\ behind' = behind
          /\ unheard' = unheard \cup ({running - 32} \cap High(kbd, uart))
      BY <2>3 DEF NoHandler, devices
    <3>2. High(kbd, uart)' = High(kbd, uart)
      BY <3>1 DEF High
    <3>3. ASSUME NEW l \in High(kbd, uart) \ unheard'
          PROVE  l \notin unheard /\ ~AboutToServe(32 + l)
      <4>1. l # running - 32 /\ l \notin unheard
        BY <3>1, <3>3
      <4>2. l \in Int /\ running \in Int
        BY <3>3, HighLines DEF TypeOK, KEYBOARD, SERIAL
      <4>. QED
        BY <4>1, <4>2 DEF AboutToServe
    <3>4. LineHeard'
      BY <3>1, <3>2, <3>3 DEF LineHeard, Remapped
    <3>. QED
      BY <1>2, <3>1, <3>2, <3>4 DEF StillHigh
  <2>. QED
    BY <2>1, <2>2, <2>3
<1>5. TypeOK'
  BY <1>1, <1>3, <1>4 DEF TypeOK, Keyboard, Uart, PIC
<1>6. TablesLoaded' /\ InService'
  BY <1>1, <1>4 DEF TablesLoaded, InService, Early
<1>7. StillHigh'
  BY <1>1, <1>3, <1>4 DEF StillHigh, AboutToServe
<1>. QED
  BY <1>4, <1>5, <1>6, <1>7

\* The end of irq_handler leaves nothing in service.
LEMMA EndStep ==
  ASSUME IInv, irq_handler_end
  PROVE  IInv'
<1>. USE DEF IInv
<1>1. /\ running # 0 /\ stage = "eoi" /\ stage' = stage
      /\ running' = 0 /\ interrupts' = TRUE
      /\ pic' = [pic EXCEPT !.isr =
                   EOI(IF running >= 40 THEN EOI(@, 8..15) ELSE @, 0..7)]
      /\ pc' = pc /\ caller' = caller /\ gdt' = gdt /\ idt' = idt
      /\ handlers' = handlers /\ kbd' = kbd /\ uart' = uart /\ sent' = sent
      /\ unheard' = unheard /\ behind' = behind
  BY DEF irq_handler_end, tables, history
<1>2. pic \in PIC /\ running \in 32..47
  BY <1>1 DEF TypeOK, PIC
<1>3. pic.isr = Chained(running - 32)
  BY <1>1 DEF InService
<1>4. /\ pic' \in PIC /\ pic'.base = pic.base /\ pic'.irr = pic.irr
      /\ pic'.isr = {}
  BY <1>1, <1>2, <1>3, Ended DEF PIC
<1>5. High(kbd, uart)' = High(kbd, uart)
  BY <1>1 DEF High
<1>6. TypeOK'
  BY <1>1, <1>4 DEF TypeOK, PIC
<1>7. TablesLoaded' /\ InService'
  BY <1>1, <1>4 DEF TablesLoaded, InService, Early
<1>8. StillHigh'
  BY <1>1, <1>4, <1>5 DEF StillHigh, AboutToServe
<1>9. LineHeard'
  BY <1>1, <1>4, <1>5 DEF LineHeard, Remapped, AboutToServe
<1>. QED
  BY <1>6, <1>7, <1>8, <1>9


\* Boot goes on between interrupts only.
LEMMA BootFrame ==
  ASSUME Boot
  PROVE  /\ running = 0 /\ running' = 0 /\ stage' = stage /\ sent' = sent
         /\ behind' = behind
         /\ pc # "pic" => unheard' = unheard
         /\ interrupts' \in {interrupts, TRUE, FALSE}
<1>. DEFINE Frame ==
       /\ running = 0 /\ running' = 0 /\ stage' = stage /\ sent' = sent
       /\ behind' = behind
       /\ pc # "pic" => unheard' = unheard
       /\ interrupts' \in {interrupts, TRUE, FALSE}
<1>. USE DEF At, GoTo, cpu, history
<1>1. RequireLog \/ SerialTest \/ SerialOn \/ RequireInput => Frame
  BY DEF RequireLog, SerialTest, SerialOn, RequireInput, Returned
<1>2. RequireSerial => Frame
  BY DEF RequireSerial, Returned
<1>3. SerialHandler => Frame
  BY DEF SerialHandler, Returned
<1>4. gdtInit \/ IDTInit \/ ISRInit \/ PicRemap => Frame
  BY DEF gdtInit, IDTInit, ISRInit, PicRemap
<1>5. enable_interrupts \/ require_keyboard => Frame
  BY DEF enable_interrupts, require_keyboard
<1>6. pmmInit \/ Filesystems => Frame
  BY DEF pmmInit, Filesystems, fault_handler, Stops
<1>. QED
  BY <1>1, <1>2, <1>3, <1>4, <1>5, <1>6 DEF Boot

\* Each selector that init loads fits its descriptor.
LEMMA SelectorsRight ==
  /\ IsData(Entry(DefaultGDT, 16)) /\ IsCode64(Entry(DefaultGDT, 8))
  /\ IsTSS(Entry(DefaultGDT, 43))
<1>1. /\ Entry(DefaultGDT, 16) = Descriptor(146, 192)
      /\ Entry(DefaultGDT, 8) = Descriptor(154, 160)
      /\ Entry(DefaultGDT, 43) = Descriptor(137, 64)
  BY DEF Entry, DefaultGDT
<1>. QED
  BY <1>1 DEF IsData, IsCode64, IsTSS, Bit, Descriptor

\* The tables, the handlers and the PIC's vectors change where init sets them
\* up, each in its place.
LEMMA BootTables ==
  ASSUME TypeOK, TablesLoaded, Boot
  PROVE  /\ pc = "gdt" => gdt' = LoadedGDT
         /\ pc # "gdt" => gdt' = gdt
         /\ pc = "idt" => idt' = FillPreIdt
         /\ pc = "isr" => idt' = Stubs
         /\ pc \notin {"idt", "isr"} => idt' = idt
         /\ pc = "pic" => pic' = [base |-> <<32, 40>>, irr |-> {}, isr |-> {}]
         /\ pc # "pic" => pic'.base = pic.base /\ pic'.isr = pic.isr
         /\ handlers' \subseteq {33, 36}
<1>. DEFINE Goal ==
       /\ pc = "gdt" => gdt' = LoadedGDT
       /\ pc # "gdt" => gdt' = gdt
       /\ pc = "idt" => idt' = FillPreIdt
       /\ pc = "isr" => idt' = Stubs
       /\ pc \notin {"idt", "isr"} => idt' = idt
       /\ pc = "pic" => pic' = [base |-> <<32, 40>>, irr |-> {}, isr |-> {}]
       /\ pc # "pic" => pic'.base = pic.base /\ pic'.isr = pic.isr
       /\ handlers' \subseteq {33, 36}
<1>. USE DEF At, tables, devices
<1>1. handlers \subseteq {33, 36} /\ pic \in PIC
  BY DEF TypeOK, PIC
<1>2. \A k, u : Devices(k, u) => pic'.base = pic.base /\ pic'.isr = pic.isr
  BY <1>1 DEF Devices, PIC
<1>3. RequireLog \/ SerialTest \/ RequireInput \/ enable_interrupts => Goal
  BY <1>1 DEF RequireLog, SerialTest, RequireInput, enable_interrupts
<1>4. RequireSerial => Goal
  BY <1>1, <1>2 DEF RequireSerial
<1>5. SerialOn => Goal
  BY <1>1, <1>2 DEF SerialOn
<1>6. SerialHandler \/ require_keyboard => Goal
  BY <1>1 DEF SerialHandler, require_keyboard, install_handler
<1>7. gdtInit => Goal
  <2>1. gdtInit => gdt' = [DefaultGDT EXCEPT ![43 \div 8 + 1].access = 139]
    BY SelectorsRight DEF gdtInit
  <2>2. 43 \div 8 + 1 = 6
    OBVIOUS
  <2>. QED
    BY <1>1, <2>1, <2>2 DEF gdtInit, LoadedGDT
<1>8. IDTInit => Goal
  BY <1>1 DEF IDTInit
<1>9. ISRInit => Goal
  BY <1>1 DEF ISRInit, TablesLoaded, Stubs
<1>10. PicRemap => Goal
  BY <1>1 DEF PicRemap
<1>11. pmmInit \/ Filesystems => Goal
  BY <1>1 DEF pmmInit, Filesystems
<1>. QED
  BY <1>3, <1>4, <1>5, <1>6, <1>7, <1>8, <1>9, <1>10, <1>11 DEF Boot

\* The order of init: the tables one after the other, interrupts when the last
\* of them is there.
LEMMA BootOrder ==
  ASSUME TypeOK, TablesLoaded, InService, Boot
  PROVE  /\ pc' \in Place \ {"reset"} /\ caller' \in {"log", "input"}
         /\ pc' = "idt" => pc = "gdt"
         /\ pc' = "isr" => pc = "idt"
         /\ pc' = "pic" => pc = "isr"
         /\ pc' = "sti" => pc = "pic"
         /\ ~Early' => ~Early \/ pc = "sti"
         /\ interrupts' => ~Early'
<1>. DEFINE Goal ==
       /\ pc' \in Place \ {"reset"} /\ caller' \in {"log", "input"}
       /\ pc' = "idt" => pc = "gdt"
       /\ pc' = "isr" => pc = "idt"
       /\ pc' = "pic" => pc = "isr"
       /\ pc' = "sti" => pc = "pic"
       /\ ~Early' => ~Early \/ pc = "sti"
       /\ interrupts' => ~Early'
<1>. USE DEF At, GoTo, Early, cpu, Place
<1>1. caller \in {"log", "input"} /\ (interrupts => ~Early)
  BY DEF TypeOK, InService
<1>2. RequireLog => Goal
  BY <1>1 DEF RequireLog
<1>3. RequireSerial => Goal
  BY <1>1 DEF RequireSerial, Returned
<1>4. SerialTest => Goal
  BY <1>1 DEF SerialTest, Returned
<1>5. SerialOn => Goal
  BY <1>1 DEF SerialOn
<1>6. SerialHandler => Goal
  BY <1>1 DEF SerialHandler, Returned
<1>7. gdtInit => Goal
  BY <1>1, SelectorsRight DEF gdtInit
<1>8. IDTInit \/ ISRInit \/ PicRemap => Goal
  BY <1>1 DEF IDTInit, ISRInit, PicRemap
<1>9. enable_interrupts => Goal
  BY <1>1 DEF enable_interrupts
<1>10. pmmInit => Goal
  BY <1>1 DEF pmmInit, Stops
<1>11. RequireInput => Goal
  BY <1>1 DEF RequireInput
<1>12. require_keyboard => Goal
  BY <1>1 DEF require_keyboard
<1>13. Filesystems => Goal
  BY <1>1 DEF Filesystems, fault_handler, Stops
<1>. QED
  BY <1>2, <1>3, <1>4, <1>5, <1>6, <1>7, <1>8, <1>9, <1>10, <1>11, <1>12,
     <1>13 DEF Boot

\* The devices as boot leaves them: the PIC is programmed, or the port.
LEMMA BootDevices ==
  ASSUME IInv, Boot
  PROVE  /\ kbd' \in Keyboard /\ uart' \in Uart /\ pic' \in PIC
         /\ unheard' \subseteq {KEYBOARD, SERIAL}
         /\ uart'.timeout => uart'.count > 0
         /\ pic'.irr \cap {KEYBOARD, SERIAL} \subseteq High(kbd, uart)'
         /\ LineHeard'
<1>. USE DEF IInv
<1>1. /\ kbd \in Keyboard /\ uart \in Uart /\ pic \in PIC
      /\ unheard \subseteq {KEYBOARD, SERIAL}
  BY DEF TypeOK, Keyboard, Uart, PIC
<1>2. /\ running = 0 /\ running' = 0 /\ stage' = stage /\ behind' = behind
      /\ pc # "pic" => unheard' = unheard
  BY BootFrame
<1>3. \A l \in {KEYBOARD, SERIAL} : ~AboutToServe(32 + l) /\ ~AboutToServe(32 + l)'
  BY <1>2 DEF AboutToServe, KEYBOARD, SERIAL
<1>4. CASE PicRemap
  <2>1. /\ kbd' = kbd /\ uart' = uart /\ unheard' = High(kbd, uart)
        /\ pic' = [base |-> <<32, 40>>, irr |-> {}, isr |-> {}]
    BY <1>4 DEF PicRemap
  <2>2. High(kbd, uart)' = High(kbd, uart)
    BY <2>1 DEF High
  <2>3. pic' \in PIC /\ pic'.irr = {}
    BY <2>1 DEF PIC
  <2>4. LineHeard'
    BY <2>1, <2>2 DEF LineHeard
  <2>. QED
    BY <1>1, <2>1, <2>2, <2>3, <2>4, HighLines DEF StillHigh
<1>5. ASSUME NEW k, NEW u \in Uart, k = kbd, u.timeout => u.count > 0,
             Devices(k, u), pc # "pic"
      PROVE  /\ kbd' \in Keyboard /\ uart' \in Uart /\ pic' \in PIC
             /\ unheard' \subseteq {KEYBOARD, SERIAL}
             /\ uart'.timeout => uart'.count > 0
             /\ pic'.irr \cap {KEYBOARD, SERIAL} \subseteq High(kbd, uart)'
             /\ LineHeard'
  <2>1. kbd' = k /\ uart' = u
    BY <1>5 DEF Devices
  <2>2. \A l \in High(k, u) : ~AboutToServe(32 + l)
    BY <1>3, HighLines
  <2>3. unheard' = unheard /\ (behind => behind')
    BY <1>2, <1>5
  <2>. QED
    BY <1>1, <1>5, <2>1, <2>2, <2>3, DevicesHeard
<1>6. ASSUME UNCHANGED devices, pc # "pic"
      PROVE  /\ kbd' \in Keyboard /\ uart' \in Uart /\ pic' \in PIC
             /\ unheard' \subseteq {KEYBOARD, SERIAL}
             /\ uart'.timeout => uart'.count > 0
             /\ pic'.irr \cap {KEYBOARD, SERIAL} \subseteq High(kbd, uart)'
             /\ LineHeard'
  <2>1. kbd' = kbd /\ uart' = uart /\ pic' = pic
    BY <1>6 DEF devices
  <2>2. High(kbd, uart)' = High(kbd, uart)
    BY <2>1 DEF High
  <2>3. LineHeard'
    BY <1>2, <1>6, <2>1, <2>2 DEF LineHeard, Remapped, AboutToServe
  <2>. QED
    BY <1>1, <1>2, <1>6, <2>1, <2>2, <2>3 DEF StillHigh
<1>7. CASE RequireSerial
  <2>1. CASE "serial" \in up
    BY <1>6, <1>7, <2>1 DEF RequireSerial, At
  <2>2. CASE "serial" \notin up
    <3>. DEFINE u == [mode |-> "loop", count |-> 0, timeout |-> FALSE]
    <3>1. u \in Uart /\ u.timeout = FALSE
      BY InterruptsAssumption DEF Uart
    <3>2. Devices(kbd, u) /\ pc # "pic"
      BY <1>7, <2>2 DEF RequireSerial, At
    <3>. HIDE DEF u
    <3>. QED
      BY <1>5, <3>1, <3>2
  <2>. QED
    BY <2>1, <2>2
<1>8. CASE SerialOn
  <2>. DEFINE u == [uart EXCEPT !.mode = "on"]
  <2>1. u \in Uart /\ u.timeout = uart.timeout /\ u.count = uart.count
    BY <1>1 DEF Uart
  <2>2. Devices(kbd, u) /\ pc # "pic"
    BY <1>8 DEF SerialOn, At
  <2>3. u.timeout => u.count > 0
    BY <2>1 DEF StillHigh
  <2>. HIDE DEF u
  <2>. QED
    BY <1>5, <2>1, <2>2, <2>3
<1>9. CASE \/ RequireLog \/ SerialTest \/ SerialHandler
           \/ gdtInit \/ IDTInit \/ ISRInit \/ enable_interrupts
           \/ pmmInit \/ RequireInput \/ require_keyboard \/ Filesystems
  <2>1. UNCHANGED devices /\ pc # "pic"
    BY <1>9 DEF RequireLog, SerialTest, SerialHandler, gdtInit, IDTInit, ISRInit,
       enable_interrupts, pmmInit, RequireInput, require_keyboard, Filesystems, At
  <2>. QED
    BY <1>6, <2>1
<1>. QED
  BY <1>4, <1>7, <1>8, <1>9 DEF Boot

LEMMA BootStep ==
  ASSUME IInv, Boot
  PROVE  IInv'
<1>. USE DEF IInv
<1>1. /\ running = 0 /\ running' = 0 /\ stage' = stage /\ sent' = sent
      /\ behind' = behind /\ interrupts' \in {interrupts, TRUE, FALSE}
  BY BootFrame
<1>2. TypeOK'
  <2>1. pc' \in Place /\ caller' \in {"log", "input"}
    BY BootOrder
  <2>2. handlers' \subseteq {33, 36}
    BY BootTables
  <2>3. interrupts' \in BOOLEAN
    BY <1>1 DEF TypeOK
  <2>4. /\ running' \in {0} \cup (32..47) /\ stage' \in {"call", "eoi"}
        /\ behind' \in BOOLEAN
        /\ sent' \in [keys : 0..MaxKeys, bytes : 0..MaxBytes, edges : 0..MaxEdges]
    BY <1>1 DEF TypeOK
  <2>. QED
    BY <2>1, <2>2, <2>3, <2>4, BootDevices DEF TypeOK, Keyboard, Uart, PIC
<1>3. TablesLoaded'
  <2>1. pc' \in {"idt", "isr", "pic", "sti"} \/ ~Early' => gdt' = LoadedGDT
    BY BootOrder, BootTables DEF TablesLoaded, Early
  <2>2. pc' = "isr" => idt' = FillPreIdt
    BY BootOrder, BootTables DEF TablesLoaded, Early
  <2>3. pc' \in {"pic", "sti"} \/ ~Early' => idt' = Stubs
    BY BootOrder, BootTables DEF TablesLoaded, Early
  <2>4. pc' = "sti" \/ ~Early' => pic'.base = <<32, 40>>
    BY BootOrder, BootTables DEF TablesLoaded, Early
  <2>5. pc' # "reset"
    BY BootOrder
  <2>. QED
    BY <2>1, <2>2, <2>3, <2>4, <2>5 DEF TablesLoaded
<1>4. InService'
  <2>1. interrupts' => ~Early'
    BY BootOrder
  <2>2. pic'.isr = {}
    BY <1>1, BootTables DEF InService
  <2>. QED
    BY <1>1, <2>1, <2>2 DEF InService
<1>5. StillHigh'
  BY <1>1, BootDevices DEF StillHigh, AboutToServe
<1>. QED
  BY <1>2, <1>3, <1>4, <1>5, BootDevices

-----------------------------------------------------------------------------
LEMMA Invariant == Spec => []IInv
<1>1. Init => IInv
  <2>. SUFFICES ASSUME Init
                PROVE  IInv
    OBVIOUS
  <2>1. TypeOK
    <3>1. /\ pc \in Place /\ caller \in {"log", "input"}
          /\ handlers \subseteq {33, 36} /\ stage \in {"call", "eoi"}
          /\ running \in {0} \cup (32..47)
          /\ unheard \subseteq {KEYBOARD, SERIAL}
      BY DEF Init, Place
    <3>2. interrupts \in BOOLEAN /\ behind \in BOOLEAN
      BY DEF Init
    <3>3. pic \in PIC /\ kbd \in Keyboard /\ uart \in Uart
      BY InterruptsAssumption DEF Init, PIC, Keyboard, Uart
    <3>4. sent \in [keys : 0..MaxKeys, bytes : 0..MaxBytes, edges : 0..MaxEdges]
      BY InterruptsAssumption DEF Init
    <3>. QED
      BY <3>1, <3>2, <3>3, <3>4 DEF TypeOK, PIC, Keyboard, Uart
  <2>2. TablesLoaded /\ InService
    BY DEF Init, TablesLoaded, InService, Early
  <2>3. StillHigh
    BY DEF Init, StillHigh, AboutToServe
  <2>4. LineHeard
    BY DEF Init, LineHeard, Remapped
  <2>. QED
    BY <2>1, <2>2, <2>3, <2>4 DEF IInv
<1>2. IInv /\ [Next]_vars => IInv'
  <2>. SUFFICES ASSUME IInv, [Next]_vars
                PROVE  IInv'
    OBVIOUS
  <2>1. CASE UNCHANGED vars
    BY <2>1 DEF vars, tables, devices, cpu, history, IInv, TypeOK, TablesLoaded,
       InService, StillHigh, LineHeard, Early, High, Remapped, AboutToServe
  <2>2. CASE Next
    BY <2>2, BootStep, DeliverStep, ServeStep, EndStep, DeviceStep
       DEF Next, irq_handler
  <2>. QED
    BY <2>1, <2>2
<1>. QED
  BY <1>1, <1>2, PTL DEF Spec

\* TypeOK is an invariant.
THEOREM TypeCorrect == Spec => []TypeOK
<1>1. IInv => TypeOK
  BY DEF IInv
<1>. QED
  BY <1>1, Invariant, PTL

\* Whatever the devices do, a line that asks for attention after its handler is
\* there is never lost, but for a FIFO that handle_serial_in leaves too full.
THEOREM LinesHeard == Spec => []LineHeard
<1>1. IInv => LineHeard
  BY DEF IInv
<1>. QED
  BY <1>1, Invariant, PTL

\* Every interrupt, of either PIC and with or without a handler, is ended before
\* interrupts are on again.
THEOREM AllEnded == Spec => []NothingHeldBack
<1>1. IInv => NothingHeldBack
  BY DEF IInv, InService, NothingHeldBack
<1>. QED
  BY <1>1, Invariant, PTL

\* handle_serial_in never waits for a byte that is not there.
THEOREM ByteThere == Spec => []SerialHasByte
<1>1. IInv => SerialHasByte
  BY DEF IInv, StillHigh, SerialHasByte, serial_received
<1>. QED
  BY <1>1, Invariant, PTL
=============================================================================
