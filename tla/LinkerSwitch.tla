---------------------------- MODULE LinkerSwitch ----------------------------
(***************************************************************************)
(* The simple_linker target (src/targets/simple_linker): a LinkerSwitch   *)
(* that owns one Linker, composed with                                     *)
(*  - start-up, LinkerSwitch::init_objects_: the command-line program is  *)
(*    added to the linker as "p4.1" and the switch context is initialised *)
(*    with that program's own P4Objects;                                   *)
(*  - the control plane, LinkerSwitchHandler::p4_program_config_add ->    *)
(*    LinkerSwitch::add_config, on the thrift thread of one controller    *)
(*    connection (its calls are served one after the other);              *)
(*  - the data plane of SimpleLinker: receive_ pushes into input_buffer,  *)
(*    pipeline_thread parses, decides the egress port and pushes into     *)
(*    output_buffer, transmit_thread sends.  Both buffers are bm::Queue,  *)
(*    blocking on full and on empty.                                       *)
(* The linker itself is Linker.tla; its add_p4objects steps, on the       *)
(* thread Conn, interleave with the packet threads.  A packet is a model value of the program    *)
(* whose traffic it is; the parser that handles it is represented by the *)
(* set of programs whose parse graphs it holds.                            *)
(***************************************************************************)
EXTENDS Linker, SequencesExt

CONSTANTS
  BootProgram,  \* the program of the command line, added as "p4.1"
  Configs,      \* programs the controller may submit by add_config
  BadNames,     \* names submitted with a config init_objects rejects
  Packets,      \* packets that may arrive
  PacketOf,     \* Packets -> name of the program the packet belongs to
  InCap,        \* capacity of input_buffer (1024 in the code)
  OutCap,       \* capacity of output_buffer (128 in the code)
  DropPort      \* egress_spec value meaning drop (511)

ASSUME BootProgram \in Programs /\ Configs \subseteq Programs

\* The thread that calls add_p4objects: main at start-up, then the thrift
\* thread of the one controller connection (the server starts after boot).
Conn == CHOOSE t \in Threads : TRUE

VARIABLES
  sw,         \* "boot", "booting" (add of "p4.1" running), "running"
  cxt,        \* programs whose parser the switch context runs
  thr,        \* program of the add_config in progress, or NULL
  acked,      \* names add_config has answered SUCCESS for
  inQ,        \* input_buffer: push_front at 1, pop_back at Len
  pipe,       \* packet held by pipeline_thread, or NULL
  outQ,       \* output_buffer
  rcvd,       \* packets in the order receive_ took them (history)
  sent,       \* packets in the order transmit_fn sent them (history)
  dropped,    \* packets dropped on egress_spec = DropPort
  parsedWith, \* packet -> the programs of the parser that parsed it
  ackedAtRx   \* packet -> whether its program was acked when it arrived

swVars == <<sw, cxt, thr, acked, inQ, pipe, outQ, rcvd, sent, dropped,
            parsedWith, ackedAtRx>>
allVars == <<vars, swVars>>

\* The packet threads' part of the state.
dpVars == <<inQ, pipe, outQ, rcvd, sent, dropped, parsedWith, ackedAtRx>>

-----------------------------------------------------------------------------
(* Start-up.                                                               *)

\* main builds the SimpleLinker; init_from_command_line_options follows.
SwitchInit ==
  /\ Init
  /\ sw = "boot"
  /\ cxt = {}
  /\ thr = NULL
  /\ acked = {}
  /\ inQ = <<>>
  /\ pipe = NULL
  /\ outQ = <<>>
  /\ rcvd = <<>>
  /\ sent = <<>>
  /\ dropped = {}
  /\ parsedWith = <<>>
  /\ ackedAtRx = <<>>

\* init_objects_: the command-line config is parsed and
\* linker.add_p4objects("p4.1", p4objects) is called.
BootLink ==
  /\ sw = "boot"
  /\ AddP4Objects(Conn, BootProgram)
  /\ sw' = "booting"
  /\ UNCHANGED <<cxt, thr, acked, dpVars>>

(***************************************************************************)
(* add_p4objects has returned (its merged result is not kept):            *)
(* cxt->init_objects(p4objects) gives the context the command-line        *)
(* program's own objects; then the thrift server and the packet threads  *)
(* start (main, start_and_return_).                                       *)
(***************************************************************************)
BootDone ==
  /\ sw = "booting"
  /\ pc[Conn] = "idle"
  /\ sw' = "running"
  /\ cxt' = {BootProgram.name}
  /\ UNCHANGED <<vars, thr, acked, dpVars>>

-----------------------------------------------------------------------------
(* Control plane.                                                          *)

\* add_config(P.name, config of P): init_objects succeeds, the linker
\* add starts.
ConfigAdd(P) ==
  /\ sw = "running" /\ thr = NULL
  /\ crash = NULL /\ AddP4Objects(Conn, P)
  /\ thr' = P
  /\ UNCHANGED <<sw, cxt, acked, dpVars>>

\* add_config(n, config): init_objects fails and SUCCESS is returned.
ConfigAddBad(n) ==
  /\ sw = "running" /\ thr = NULL
  /\ acked' = acked \cup {n}
  /\ UNCHANGED <<vars, sw, cxt, thr, dpVars>>

\* add_p4objects has returned; its result is dropped and add_config,
\* then p4_program_config_add, report success.
ConfigReply ==
  /\ thr # NULL
  /\ pc[Conn] = "idle"
  /\ acked' = acked \cup {thr.name}
  /\ thr' = NULL
  /\ UNCHANGED <<vars, sw, cxt, dpVars>>

-----------------------------------------------------------------------------
(* Data plane.                                                             *)

\* Fault variant: the packet is queued at the end it is popped from.
ReceiveWrongEnd(pk) ==
  /\ sw = "running"
  /\ pk \notin Range(rcvd)
  /\ Len(inQ) < InCap
  /\ inQ' = Append(inQ, pk)
  /\ rcvd' = Append(rcvd, pk)
  /\ ackedAtRx' = (pk :> (PacketOf[pk] \in acked)) @@ ackedAtRx
  /\ UNCHANGED <<pipe, outQ, sent, dropped, parsedWith>>

\* receive_: input_buffer.push_front, waiting while the buffer is full.
Receive(pk) ==
  /\ sw = "running"
  /\ pk \notin Range(rcvd)
  /\ Len(inQ) < InCap
  /\ inQ' = <<pk>> \o inQ
  /\ rcvd' = Append(rcvd, pk)
  /\ ackedAtRx' = (pk :> (PacketOf[pk] \in acked)) @@ ackedAtRx
  /\ UNCHANGED <<pipe, outQ, sent, dropped, parsedWith>>

\* Fault variant: a forwarded packet is not kept after ingress.
PipelinePopLost ==
  /\ pipe = NULL /\ inQ # <<>>
  /\ LET pk == Last(inQ) IN
     /\ inQ' = Front(inQ)
     /\ parsedWith' = (pk :> cxt) @@ parsedWith
     /\ \E egress \in {DropPort, 1} :
          /\ dropped' = IF egress = DropPort THEN dropped \cup {pk} ELSE dropped
          /\ pipe' = NULL
  /\ UNCHANGED <<outQ, rcvd, sent, ackedAtRx>>

(***************************************************************************)
(* pipeline_thread, up to the egress decision: pop_back, parse with the  *)
(* context's parser, ingress; egress_spec is whatever the ingress tables *)
(* set: DropPort drops the packet, any other port keeps it for egress.    *)
(***************************************************************************)
PipelinePop ==
  /\ pipe = NULL /\ inQ # <<>>
  /\ LET pk == Last(inQ) IN
     /\ inQ' = Front(inQ)
     /\ parsedWith' = (pk :> cxt) @@ parsedWith
     /\ \E egress \in {DropPort, 1} :
          IF egress = DropPort
          THEN dropped' = dropped \cup {pk} /\ pipe' = NULL
          ELSE pipe' = pk /\ UNCHANGED dropped
  /\ UNCHANGED <<outQ, rcvd, sent, ackedAtRx>>

\* Fault variant: the full-buffer wait is missing.
PipelinePushUnbounded ==
  /\ pipe # NULL
  /\ outQ' = <<pipe>> \o outQ
  /\ pipe' = NULL
  /\ UNCHANGED <<inQ, rcvd, sent, dropped, parsedWith, ackedAtRx>>

\* pipeline_thread after egress and deparse: output_buffer.push_front,
\* waiting while it is full.
PipelinePush ==
  /\ pipe # NULL
  /\ Len(outQ) < OutCap
  /\ outQ' = <<pipe>> \o outQ
  /\ pipe' = NULL
  /\ UNCHANGED <<inQ, rcvd, sent, dropped, parsedWith, ackedAtRx>>

\* transmit_thread: output_buffer.pop_back, transmit_fn.
Transmit ==
  /\ outQ # <<>>
  /\ sent' = Append(sent, Last(outQ))
  /\ outQ' = Front(outQ)
  /\ UNCHANGED <<inQ, pipe, rcvd, dropped, parsedWith, ackedAtRx>>

\* The packet threads run while the process lives.
DataPlane ==
  /\ crash = NULL
  /\ \/ \E pk \in Packets : Receive(pk)
     \/ PipelinePop \/ PipelinePush \/ Transmit

SwitchNext ==
  \/ BootLink
  \/ BootDone
  \/ \E P \in Configs : ConfigAdd(P)
  \/ \E n \in BadNames : ConfigAddBad(n)
  \/ ConfigReply
  \/ LinkStep(Conn) /\ UNCHANGED swVars
  \/ DataPlane /\ UNCHANGED <<vars, sw, cxt, thr, acked>>

(***************************************************************************)
(* Every thread runs its loop to the next blocking point: the linker     *)
(* steps, start-up, the reply of add_config, and the pipeline and the    *)
(* transmit thread are weakly fair.  Packet arrivals and controller      *)
(* requests are not.                                                       *)
(***************************************************************************)
SwitchSpec ==
  /\ SwitchInit /\ [][SwitchNext]_allVars
  /\ WF_allVars(LinkStep(Conn) /\ UNCHANGED swVars)
  /\ WF_allVars(BootDone) /\ WF_allVars(ConfigReply)
  /\ WF_allVars(PipelinePop /\ UNCHANGED <<vars, sw, cxt, thr, acked>>)
  /\ WF_allVars(PipelinePush /\ UNCHANGED <<vars, sw, cxt, thr, acked>>)
  /\ WF_allVars(Transmit /\ UNCHANGED <<vars, sw, cxt, thr, acked>>)

-----------------------------------------------------------------------------
SwitchTypeOK ==
  /\ sw \in {"boot", "booting", "running"}
  /\ cxt \subseteq {P.name : P \in Programs}
  /\ thr \in Configs \cup {NULL}
  /\ Len(inQ) <= InCap /\ Len(outQ) <= OutCap
  /\ pipe \in Packets \cup {NULL}
  /\ dropped \subseteq Packets
  /\ DOMAIN parsedWith \subseteq Packets

(***************************************************************************)
(* The packets in flight, oldest first: output_buffer read from its pop  *)
(* end, the packet pipeline_thread holds, then input_buffer read from    *)
(* its pop end (both buffers push_front and pop_back).                    *)
(***************************************************************************)
InFlight ==
  Reverse(outQ) \o (IF pipe = NULL THEN <<>> ELSE <<pipe>>) \o Reverse(inQ)

Channel == INSTANCE PacketChannel
             WITH arrived <- rcvd, q <- InFlight, out <- sent, gone <- dropped

(***************************************************************************)
(* The data path implements the abstract channel: receive_ adds a packet *)
(* behind those in flight, the pipeline's drop removes the oldest packet *)
(* not yet past ingress, transmit_thread sends the oldest in flight, and *)
(* the pipeline's other steps change nothing a caller sees; whatever the *)
(* interleaving with the linker, nothing is reordered, duplicated or     *)
(* lost, and packets in flight keep leaving.                              *)
(***************************************************************************)
ImplementsChannel == Channel!ChSpec

(***************************************************************************)
(* Every packet received is eventually transmitted or dropped: the       *)
(* buffers' blocking waits never strand a packet while the pipeline and  *)
(* transmit threads run.                                                   *)
(***************************************************************************)
EveryPacketLeaves ==
  \A pk \in Packets :
    pk \in Range(rcvd) ~> (pk \in Range(sent) \/ pk \in dropped)

(***************************************************************************)
(* A success answer to p4_program_config_add means the program is        *)
(* served: a packet of a program whose add was acknowledged before the   *)
(* packet arrived is parsed by a parser that holds the program (spec 1:  *)
(* one pipeline processes the traffic of every linked program; spec 6:   *)
(* the transport maps add's result to its own codes).                    *)
(***************************************************************************)
AckedProgramServed ==
  \A pk \in DOMAIN parsedWith :
    ackedAtRx[pk] => PacketOf[pk] \in parsedWith[pk]

=============================================================================
