-------------------------------- MODULE Board --------------------------------
(***************************************************************************)
(* The board support of the STM32H7: what the HAL calls back for each      *)
(* peripheral it initialises.  Such a call is a sequence of statements on  *)
(* clocks, pins, DMA streams and interrupts that the peripherals share;    *)
(* interrupts and the hooks of FreeRTOS may come between any two of them.  *)
(***************************************************************************)
EXTENDS Integers, Sequences, FiniteSets, SequencesExt

Peripheral == {"USART1", "SPI1", "I2C1", "CRC", "TIM2"}

VARIABLES tree,       \* the clock tree, once SystemClock_Config has run
          clocks,     \* what has its clock enabled
          function,   \* of each configured pin
          stream,     \* of each DMA handle: its Instance, none before its first init
          ready,      \* DMA handles that are initialised
          irqs,       \* interrupts that are enabled
          up,         \* peripherals whose MspInit was called last
          todo,       \* statements the running call has left
          halted      \* a hook loops with interrupts disabled

hardware == <<clocks, function, stream, ready, irqs>>
vars     == <<tree, hardware, up, todo, halted>>

Handle == {"hdma_usart1_rx", "hdma_usart1_tx", "hdma_spi1_rx", "hdma_spi1_tx"}

Init ==
    /\ tree = <<>> /\ clocks = {} /\ function = [p \in {} |-> ""]
    /\ stream = [h \in Handle |-> "none"] /\ ready = {} /\ irqs = {}
    /\ up = {} /\ todo = <<>> /\ halted = FALSE

-----------------------------------------------------------------------------
(* SystemClock_Config, in MHz *)

HSE == 25

Ahb(sysclk) == sysclk \div 2

Tree ==
    LET input  == HSE \div 5
        vco    == input * 192
        sysclk == vco \div 2
        hclk   == Ahb(sysclk)
    IN  [input |-> input, vco |-> vco, sysclk |-> sysclk, hclk |-> hclk,
         pclk1 |-> hclk \div 2, pclk2 |-> hclk \div 2]

SystemClock_Config ==
    /\ ~halted /\ todo = <<>> /\ tree = <<>>
    /\ tree' = <<Tree>>
    /\ UNCHANGED <<hardware, up, todo, halted>>

-----------------------------------------------------------------------------
(* The calls, as their statements *)

Enable(dev)   == [op |-> "enable", args |-> <<dev>>]
Disable(dev)  == [op |-> "disable", args |-> <<dev>>]
Gpio(pins, f) == [op |-> "gpio", args |-> <<pins, f>>]
GpioDeInit(pins) == [op |-> "gpio_deinit", args |-> <<pins>>]
Dma(h, s)     == [op |-> "dma", args |-> <<h, s>>]      \* HAL_DMA_Init and __HAL_LINKDMA
DmaDeInit(h)  == [op |-> "dma_deinit", args |-> <<h>>]
Irq(irq)      == [op |-> "irq", args |-> <<irq>>]
IrqOff(irq)   == [op |-> "irq_off", args |-> <<irq>>]

\* Mutant: the interrupts are enabled before the handles are set up.
UartInitIrqFirst ==
    <<Enable("USART1"), Enable("GPIOA"), Enable("DMA1"), Gpio({"PA9", "PA10"}, "USART1"),
      Irq("DMA1_Stream0"), Irq("DMA1_Stream1"), Irq("USART1"),
      Dma("hdma_usart1_rx", "DMA1_Stream0"), Dma("hdma_usart1_tx", "DMA1_Stream1")>>

UartInit ==
    <<Enable("USART1"), Enable("GPIOA"), Enable("DMA1"), Gpio({"PA9", "PA10"}, "USART1"),
      Dma("hdma_usart1_rx", "DMA1_Stream0"), Dma("hdma_usart1_tx", "DMA1_Stream1"),
      Irq("DMA1_Stream0"), Irq("DMA1_Stream1"), Irq("USART1")>>

\* Mutants: the clock of the shared port goes too; an interrupt stays enabled.
UartDeInitPortToo ==
    <<Disable("USART1"), GpioDeInit({"PA9", "PA10"}), Disable("GPIOA"),
      DmaDeInit("hdma_usart1_rx"), DmaDeInit("hdma_usart1_tx"),
      IrqOff("DMA1_Stream0"), IrqOff("DMA1_Stream1"), IrqOff("USART1")>>
UartDeInitKeepsIrq ==
    <<Disable("USART1"), GpioDeInit({"PA9", "PA10"}),
      DmaDeInit("hdma_usart1_rx"), DmaDeInit("hdma_usart1_tx"),
      IrqOff("DMA1_Stream0"), IrqOff("USART1")>>

UartDeInit ==
    <<Disable("USART1"), GpioDeInit({"PA9", "PA10"}),
      DmaDeInit("hdma_usart1_rx"), DmaDeInit("hdma_usart1_tx"),
      IrqOff("DMA1_Stream0"), IrqOff("DMA1_Stream1"), IrqOff("USART1")>>

SpiInit ==
    <<Enable("SPI1"), Enable("GPIOA"), Enable("GPIOB"), Enable("DMA2"),
      Gpio({"PA5", "PA6"}, "SPI1"), Gpio({"PB5"}, "SPI1"),
      Dma("hdma_spi1_rx", "DMA2_Stream0"), Dma("hdma_spi1_tx", "DMA2_Stream1"),
      Irq("DMA2_Stream0"), Irq("DMA2_Stream1")>>

I2cInit ==
    <<Enable("I2C1"), Enable("GPIOB"), Gpio({"PB6", "PB7"}, "I2C1"),
      Irq("I2C1_EV"), Irq("I2C1_ER")>>

MspInit ==
    [USART1 |-> UartInit, SPI1 |-> SpiInit, I2C1 |-> I2cInit,
     CRC |-> <<Enable("CRC")>>, TIM2 |-> <<Enable("TIM2")>>]

\* There is none for the other peripherals, and that of the HAL does nothing.
MspDeInit(p) ==
    CASE p = "USART1" -> UartDeInit
      [] p = "CRC"    -> <<Disable("CRC")>>
      [] OTHER        -> <<>>

\* The HAL calls MspInit of a peripheral that is reset, one call at a time.
CallInit(p) ==
    /\ ~halted /\ todo = <<>> /\ p \notin up
    /\ todo' = MspInit[p] /\ up' = up \cup {p}
    /\ UNCHANGED <<tree, hardware, halted>>

CallDeInit(p) ==
    /\ ~halted /\ todo = <<>> /\ p \in up
    /\ todo' = MspDeInit(p) /\ up' = up \ {p}
    /\ UNCHANGED <<tree, hardware, halted>>

\* The effect of one statement.
Statement ==
    /\ ~halted /\ todo # <<>> /\ todo' = Tail(todo)
    /\ LET op == Head(todo).op
           args == Head(todo).args
       IN  /\ clocks' = CASE op = "enable"  -> clocks \cup {args[1]}
                          [] op = "disable" -> clocks \ {args[1]}
                          [] OTHER -> clocks
           /\ function' = CASE op = "gpio" ->
                                  [p \in DOMAIN function \cup args[1] |->
                                      IF p \in args[1] THEN args[2] ELSE function[p]]
                            [] op = "gpio_deinit" ->
                                  [p \in DOMAIN function \ args[1] |-> function[p]]
                            [] OTHER -> function
           /\ stream' = IF op = "dma" THEN [stream EXCEPT ![args[1]] = args[2]] ELSE stream
           /\ ready' = CASE op = "dma" -> ready \cup {args[1]}
                         [] op = "dma_deinit" -> ready \ {args[1]}
                         [] OTHER -> ready
           /\ irqs' = CASE op = "irq" -> irqs \cup {args[1]}
                        [] op = "irq_off" -> irqs \ {args[1]}
                        [] OTHER -> irqs
    /\ UNCHANGED <<tree, up, halted>>

\* vApplicationStackOverflowHook and vApplicationMallocFailedHook.
Halt ==
    /\ ~halted /\ halted' = TRUE
    /\ UNCHANGED <<tree, hardware, up, todo>>

\* The handle each DMA interrupt's handler passes on.
Handler ==
    [DMA1_Stream0 |-> "hdma_usart1_rx", DMA1_Stream1 |-> "hdma_usart1_tx",
     DMA2_Stream0 |-> "hdma_spi1_rx", DMA2_Stream1 |-> "hdma_spi1_tx"]

Next ==
    \/ SystemClock_Config \/ Statement \/ Halt
    \/ \E p \in Peripheral : CallInit(p) \/ CallDeInit(p)

-----------------------------------------------------------------------------
(* Properties *)

Port(pin) == IF pin \in {"PA5", "PA6", "PA9", "PA10"} THEN "GPIOA" ELSE "GPIOB"
Controller(s) == IF s \in {"DMA1_Stream0", "DMA1_Stream1"} THEN "DMA1" ELSE "DMA2"

\* SystemClock_Config: the core runs at the 480 MHz and the buses at the 120 MHz its
\* comment names, and the PLL within the ranges it is set to.
TreeAsDocumented ==
    tree # <<>> =>
        /\ tree[1].sysclk = 480 /\ tree[1].pclk1 = 120 /\ tree[1].pclk2 = 120
        /\ tree[1].input \in 4..8 /\ tree[1].vco \in 192..960

\* The MspInit and MspDeInit calls share ports and DMA controllers: whatever is
\* configured has its clock, whichever peripherals come and go in between.
ConfiguredIsClocked ==
    /\ \A pin \in DOMAIN function : Port(pin) \in clocks
    /\ \A h \in ready : Controller(stream[h]) \in clocks

\* The MspInit calls: a peripheral that is initialised keeps all its pins.
PinsKept ==
    todo = <<>> =>
        /\ "USART1" \in up => \A p \in {"PA9", "PA10"} : p \in DOMAIN function /\ function[p] = "USART1"
        /\ "SPI1" \in up => Cardinality({p \in DOMAIN function : function[p] = "SPI1"}) = 3
        /\ "I2C1" \in up => Cardinality({p \in DOMAIN function : function[p] = "I2C1"}) = 2

\* The DMA interrupt handlers: an interrupt that may come finds the handle of its
\* own stream, also in the middle of an MspInit or MspDeInit.
IrqFindsHandle == \A s \in irqs \cap DOMAIN Handler : stream[Handler[s]] = s

\* HAL_UART_MspDeInit leaves nothing of the UART that can still act.
UartIsGone ==
    "USART1" \notin up /\ todo = <<>> =>
        /\ "USART1" \notin clocks /\ {"DMA1_Stream0", "DMA1_Stream1", "USART1"} \cap irqs = {}
        /\ {"hdma_usart1_rx", "hdma_usart1_tx"} \cap ready = {}
        /\ {"PA9", "PA10"} \cap DOMAIN function = {}
=============================================================================
