------------------------------- MODULE Es1938 -------------------------------
(***************************************************************************)
(* The ESS Solo-1 sound driver (es1938.cpp): probing with every call that  *)
(* can fail, the PCM operations of its three streams, and the interrupt    *)
(* handler between any two port accesses that are not under a spin lock.   *)
(* A driver function is the sequence of the accesses it makes; task "t1"   *)
(* works for the first playback stream, "t2" for the second one and for    *)
(* capture, which share the Audio 1 channel.                               *)
(* External: spin_lock_irqsave keeps the handler and the other task out;   *)
(* the PCM core serialises open and close, and calls open, prepare, start, *)
(* stop and close of a stream in that order.                               *)
(***************************************************************************)
EXTENDS Naturals, Sequences, FiniteSets

EsStreams == {"p1", "p2", "cap"}
EsTaskOf(s) == IF s = "p1" THEN "t1" ELSE "t2"
EsFlagOf == [p1 |-> "DAC2", p2 |-> "DAC1", cap |-> "ADC1"]
EsChannelOf == [p1 |-> "A2", p2 |-> "A1", cap |-> "A1"]
EsMixRegs == {"AUDIO1", "AUDIO2", "CONTROL1", "CONTROL2", "TCOUNT"}

VARIABLES
    es_step,     \* probe: the next call, "up", "gone" or "failed"
    es_card, es_chip,   \* none, live, freed
    es_irq,      \* the handler is connected
    es_badfree,  \* history: something was freed twice
    es_state,    \* PCM core's state of each stream
    es_open,     \* the substream pointers that are not NULL
    es_active,   \* chip->active
    es_prog,     \* for each task, the accesses still to make and its stream
    es_addr,     \* the register that the MIXERADDR latch selects
    es_astray,   \* history: a value went to a register other than its own
    es_cmd,      \* the register the command port expects a value for
    es_dma,      \* the channels whose DMA runs
    es_pend,     \* pending interrupts
    es_timeout,  \* history: write_cmd gave up on a byte
    es_null      \* history: period_elapsed was called with NULL

esvars == <<es_step, es_card, es_chip, es_irq, es_badfree, es_state, es_open,
            es_active, es_prog, es_addr, es_astray, es_cmd, es_dma,
            es_pend, es_timeout, es_null>>
esProbe == <<es_step, es_card, es_chip, es_irq, es_badfree>>
esPorts == <<es_addr, es_astray, es_cmd, es_dma, es_timeout>>

EsInitAt(step) ==
    /\ es_step = step /\ es_card = "none" /\ es_chip = "none"
    /\ es_irq = FALSE /\ es_badfree = FALSE
    /\ es_state = [s \in EsStreams |-> "closed"]
    /\ es_open = {} /\ es_active = {}
    /\ es_prog = [t \in {"t1", "t2"} |-> <<>>]
    /\ es_addr = "AUDIO1"
    /\ es_astray = FALSE
    /\ es_cmd = "none" /\ es_dma = {} /\ es_pend = {}
    /\ es_timeout = FALSE /\ es_null = FALSE

---------------------------------------------------------------------------
(* The accesses of the driver functions.  One register stands for several  *)
(* that are written in the same way: TCOUNT for the rate and count         *)
(* registers of Audio 2, RELOAD for the rate, count and format registers   *)
(* of Audio 1.                                                             *)

snd_es1938_mixer_write(reg)    == <<<<"addr", reg>>, <<"data", reg>>>>
snd_es1938_write(reg, val)     == <<<<"reg", reg>>, <<"val", reg, val>>>>

snd_es1938_playback1_prepare ==
    snd_es1938_mixer_write("TCOUNT") \o snd_es1938_mixer_write("CONTROL2")
    \o <<<<"a2mode", FALSE>>>>

snd_es1938_playback2_prepare ==
    snd_es1938_write("RELOAD", 1)

snd_es1938_capture_prepare ==
    snd_es1938_write("RELOAD", 2)

playback1_trigger_stays_active(start) ==
    IF start
    THEN snd_es1938_mixer_write("CONTROL1") \o snd_es1938_mixer_write("CONTROL1")
         \o <<<<"a2mode", TRUE>>, <<"active", "DAC2", TRUE>>>>
    ELSE <<<<"a2mode", FALSE>>>> \o snd_es1938_mixer_write("CONTROL1")
         \o <<<<"active", "DAC2", TRUE>>>>

snd_es1938_playback1_trigger(start) ==
    IF start
    THEN snd_es1938_mixer_write("CONTROL1") \o snd_es1938_mixer_write("CONTROL1")
         \o <<<<"a2mode", TRUE>>, <<"active", "DAC2", TRUE>>>>
    ELSE <<<<"a2mode", FALSE>>>> \o snd_es1938_mixer_write("CONTROL1")
         \o <<<<"active", "DAC2", FALSE>>>>

snd_es1938_playback2_trigger(start) ==
    <<<<"active", "DAC1", start>>>>
    \o snd_es1938_write("DMACONTROL", IF start THEN 5 ELSE 0)

snd_es1938_capture_trigger(start) ==
    <<<<"active", "ADC1", start>>>>
    \o snd_es1938_write("DMACONTROL", IF start THEN 15 ELSE 0)

snd_es1938_set_volume(s) ==
    snd_es1938_mixer_write(IF s = "p1" THEN "AUDIO2" ELSE "AUDIO1")

EsPrepare(s) ==
    CASE s = "p1" -> snd_es1938_playback1_prepare
      [] s = "p2" -> snd_es1938_playback2_prepare
      [] OTHER    -> snd_es1938_capture_prepare

EsTrigger(s, start) ==
    CASE s = "p1" -> snd_es1938_playback1_trigger(start)
      [] s = "p2" -> snd_es1938_playback2_trigger(start)
      [] OTHER    -> snd_es1938_capture_trigger(start)

(* The core calls an operation of a stream when its task has none going.   *)
EsCall(s, from, to, prog) ==
    /\ es_step = "up" /\ es_state[s] = from /\ es_prog[EsTaskOf(s)] = <<>>
    /\ es_prog' = [es_prog EXCEPT ![EsTaskOf(s)] = prog]
    /\ es_state' = [es_state EXCEPT ![s] = to]
    /\ UNCHANGED <<esProbe, es_open, es_active, esPorts, es_pend, es_null>>

EsOps ==
    \E s \in EsStreams :
        \/ EsCall(s, "open", "prepared", EsPrepare(s))
        \/ EsCall(s, "prepared", "running", EsTrigger(s, TRUE))
        \/ EsCall(s, "running", "open", EsTrigger(s, FALSE))
        \/ s # "cap" /\ EsCall(s, "open", "open", snd_es1938_set_volume(s))

(* playback_open and capture_open: the streams of Audio 1 exclude each     *)
(* other; an open that is refused (-EAGAIN) changes nothing.               *)
snd_es1938_open(s) ==
    /\ es_step = "up" /\ es_state[s] = "closed"
    /\ s = "p2" => "cap" \notin es_open
    /\ s = "cap" => "p2" \notin es_open
    /\ es_open' = es_open \cup {s}
    /\ es_state' = [es_state EXCEPT ![s] = "open"]
    /\ UNCHANGED <<esProbe, es_active, es_prog, esPorts, es_pend, es_null>>

snd_es1938_close(s) ==
    /\ es_state[s] = "open" /\ es_prog[EsTaskOf(s)] = <<>>
    /\ es_open' = es_open \ {s}
    /\ es_state' = [es_state EXCEPT ![s] = "closed"]
    /\ UNCHANGED <<esProbe, es_active, es_prog, esPorts, es_pend, es_null>>

---------------------------------------------------------------------------
EsLockedCommandOnly == \E t \in DOMAIN es_prog :
                es_prog[t] # <<>> /\ Head(es_prog[t])[1] \in {"val"}

(* Between the two accesses of a mixer or register write, the writer holds *)
(* the spin lock.                                                          *)
EsLocked == \E t \in DOMAIN es_prog :
                es_prog[t] # <<>> /\ Head(es_prog[t])[1] \in {"data", "val"}
EsMayRun(t) == EsLocked => es_prog[t] # <<>> /\ Head(es_prog[t])[1] \in {"data", "val"}

EsAccess(t, a) ==
    /\ es_prog[t] # <<>> /\ EsMayRun(t) /\ a = Head(es_prog[t])
    /\ es_prog' = [es_prog EXCEPT ![t] = Tail(@)]
    /\ UNCHANGED <<esProbe, es_state, es_open, es_pend, es_null>>

EsMixer(t) ==
    /\ \E r \in EsMixRegs :
        \/ /\ EsAccess(t, <<"addr", r>>)
           /\ es_addr' = r
           /\ UNCHANGED es_astray
        \/ /\ EsAccess(t, <<"data", r>>)
           /\ es_astray' = (es_astray \/ es_addr # r)
           /\ UNCHANGED es_addr
    /\ UNCHANGED <<es_active, es_cmd, es_dma, es_timeout>>

(* write_cmd: the byte is dropped when the port stays busy too long.  A    *)
(* value that arrives where a register number is expected starts a command *)
(* of its own ("junk").                                                    *)
EsCommand(t) ==
    /\ es_prog[t] # <<>> /\ Head(es_prog[t])[1] \in {"reg", "val"}
    /\ EsAccess(t, Head(es_prog[t]))
    /\ LET b == Head(es_prog[t])
       IN  \/ /\ es_timeout' = TRUE
              /\ UNCHANGED <<es_cmd, es_dma>>
           \/ /\ es_cmd' = IF es_cmd # "none" THEN "none"
                           ELSE IF b[1] = "reg" THEN b[2] ELSE "junk"
              /\ es_dma' = IF es_cmd # "DMACONTROL" \/ b[1] = "reg" THEN es_dma
                           ELSE IF b[3] = 0 THEN es_dma \ {"A1"}
                           ELSE es_dma \cup {"A1"}
              /\ UNCHANGED es_timeout
    /\ UNCHANGED <<es_active, es_addr, es_astray>>

EsPort(t) ==
    /\ \/ \E on \in BOOLEAN :
            /\ EsAccess(t, <<"a2mode", on>>)
            /\ es_dma' = IF on THEN es_dma \cup {"A2"} ELSE es_dma \ {"A2"}
            /\ UNCHANGED es_active
       \/ \E f \in {"DAC1", "DAC2", "ADC1"}, on \in BOOLEAN :
            /\ EsAccess(t, <<"active", f, on>>)
            /\ es_active' = IF on THEN es_active \cup {f} ELSE es_active \ {f}
            /\ UNCHANGED es_dma
    /\ UNCHANGED <<es_addr, es_astray, es_cmd, es_timeout>>

(* A channel's period ends (external).                                     *)
EsPeriod(ch) ==
    /\ ch \in es_dma \ es_pend
    /\ es_pend' = es_pend \cup {ch}
    /\ UNCHANGED <<esProbe, es_state, es_open, es_active, es_prog, esPorts, es_null>>

interrupt_acks_audio1 ==
    /\ es_irq /\ es_pend # {} /\ ~EsLocked
    /\ LET one == IF "ADC1" \in es_active THEN {"cap"}
                  ELSE IF "DAC1" \in es_active THEN {"p2"} ELSE {}
           two == IF "DAC2" \in es_active THEN {"p1"} ELSE {}
           told == (IF "A1" \in es_pend THEN one ELSE {})
                   \cup (IF "A2" \in es_pend THEN two ELSE {})
       IN  es_null' = (es_null \/ ~(told \subseteq es_open))
    /\ es_addr' = IF "A2" \in es_pend THEN "CONTROL2" ELSE es_addr
    /\ es_pend' = es_pend \ {"A1"}
    /\ UNCHANGED <<esProbe, es_state, es_open, es_active, es_prog, es_astray,
                   es_cmd, es_dma, es_timeout>>

(* snd_es1938_interrupt: acknowledge Audio 1 by reading its status, Audio  *)
(* 2 through the mixer, and tell the core about the period of the stream   *)
(* that is marked active.                                                  *)
snd_es1938_interrupt ==
    /\ es_irq /\ es_pend # {} /\ ~EsLocked
    /\ LET one == IF "ADC1" \in es_active THEN {"cap"}
                  ELSE IF "DAC1" \in es_active THEN {"p2"} ELSE {}
           two == IF "DAC2" \in es_active THEN {"p1"} ELSE {}
           told == (IF "A1" \in es_pend THEN one ELSE {})
                   \cup (IF "A2" \in es_pend THEN two ELSE {})
       IN  es_null' = (es_null \/ ~(told \subseteq es_open))
    /\ es_addr' = IF "A2" \in es_pend THEN "CONTROL2" ELSE es_addr
    /\ es_pend' = {}
    /\ UNCHANGED <<esProbe, es_state, es_open, es_active, es_prog, es_astray,
                   es_cmd, es_dma, es_timeout>>

---------------------------------------------------------------------------
(* Probing.  snd_es1938_free disconnects the handler and frees the chip;   *)
(* snd_card_free (external) calls it through dev_free when the chip was    *)
(* registered with the card, and frees the card.                           *)

snd_es1938_free ==
    /\ es_chip' = "freed"
    /\ es_irq' = FALSE
    /\ es_badfree' = (es_badfree \/ es_chip = "freed")

EsFreeCard(chip) ==
    /\ es_card' = "freed"
    /\ IF chip THEN snd_es1938_free ELSE UNCHANGED <<es_chip, es_irq, es_badfree>>

EsProbeStep(step, next) ==
    /\ es_step = step
    /\ es_step' = next
    /\ UNCHANGED <<es_state, es_open, es_active, es_prog, esPorts, es_pend, es_null>>

(* snd_card_new, then the check of the five I/O regions.                   *)
EsProbeCard ==
    \/ /\ EsProbeStep("card", "create")
       /\ es_card' = "live" /\ UNCHANGED <<es_chip, es_irq, es_badfree>>
    \/ EsProbeStep("card", "failed") /\ UNCHANGED <<es_card, es_chip, es_irq, es_badfree>>
    \/ EsProbeStep("create", "failed") /\ EsFreeCard(FALSE)

(* snd_es1938_create: chip allocated; regions, IRQ and device registration *)
(* can fail, each with its own clean-up, and probe then frees the card.    *)
snd_es1938_create ==
    \/ /\ EsProbeStep("create", "irq")
       /\ es_chip' = "live" /\ UNCHANGED <<es_card, es_irq, es_badfree>>
    \/ EsProbeStep("irq", "failed") /\ EsFreeCard(TRUE)
    \/ /\ EsProbeStep("irq", "device")
       /\ es_irq' = TRUE /\ UNCHANGED <<es_card, es_chip, es_badfree>>
    \/ EsProbeStep("device", "failed") /\ EsFreeCard(TRUE)
    \/ EsProbeStep("device", "pcm") /\ UNCHANGED <<es_card, es_chip, es_irq, es_badfree>>

(* new_pcm, mixer and card_register: the chip belongs to the card by now.  *)
EsProbePcm ==
    \/ EsProbeStep("pcm", "failed") /\ EsFreeCard(TRUE)
    \/ EsProbeStep("pcm", "up") /\ UNCHANGED <<es_card, es_chip, es_irq, es_badfree>>

(* snd_es1938_remove, with every stream closed.                            *)
snd_es1938_remove ==
    /\ es_open = {}
    /\ EsProbeStep("up", "gone")
    /\ EsFreeCard(TRUE)

EsNext ==
    \/ EsProbeCard \/ snd_es1938_create \/ EsProbePcm \/ snd_es1938_remove
    \/ EsOps
    \/ \E s \in EsStreams : snd_es1938_open(s) \/ snd_es1938_close(s)
    \/ \E t \in {"t1", "t2"} : EsMixer(t) \/ EsCommand(t) \/ EsPort(t)
    \/ \E ch \in {"A1", "A2"} : EsPeriod(ch)
    \/ snd_es1938_interrupt

(* A pending interrupt is taken when a spin lock is released (hence strong *)
(* fairness), and a task inside a driver call goes on with it.             *)
EsFairness ==
    /\ SF_esvars(snd_es1938_interrupt)
    /\ \A t \in {"t1", "t2"} : WF_esvars(EsMixer(t) \/ EsCommand(t) \/ EsPort(t))

---------------------------------------------------------------------------
(* A value written through the mixer's address and data ports lands in the *)
(* register it was meant for, though the other task and the handler use    *)
(* the same two ports: what mixer_lock is for.                             *)
EsMixerLands == ~es_astray

(* The handler never reports a period to a NULL substream: chip->active is *)
(* cleared by the stop of a stream, before close clears the pointer.       *)
EsElapsedOpen == ~es_null

(* Capture and the second playback stream never use Audio 1 together, and  *)
(* a stream marked active is open: the handler, which looks at ADC1 first, *)
(* credits the period to the right one.                                    *)
EsExclusive ==
    /\ ~({"p2", "cap"} \subseteq es_open)
    /\ \A s \in EsStreams : EsFlagOf[s] \in es_active => s \in es_open

(* A closed stream has left its channel's DMA off and its flag clear, as   *)
(* long as the command port never timed out.  (After a time-out the two    *)
(* can differ: write_cmd drops the byte and the trigger returns 0.)        *)
EsStopped ==
    ~es_timeout => \A ch \in es_dma : \E s \in EsStreams :
        EsChannelOf[s] = ch /\ s \in es_open

(* Whatever call of the probe fails, the chip is freed at most once, and   *)
(* the handler is connected only while the chip it is given is live.       *)
EsHandlerLive ==
    /\ ~es_badfree
    /\ es_irq => es_chip = "live" /\ es_card = "live"
    /\ es_step \in {"failed", "gone"} => es_card # "live" /\ es_chip # "live"

(* An interrupt that the card raises is acknowledged, whatever the tasks   *)
(* are writing.                                                            *)
EsAcked == (es_pend # {} /\ es_irq) ~> (es_pend = {} \/ ~es_irq)

(* Handler, streams and chip stay consistent through every open, start,    *)
(* stop and close, and through every failure of the probe.                 *)
EsStreamsSound == EsElapsedOpen /\ EsExclusive /\ EsStopped /\ EsHandlerLive

=============================================================================
