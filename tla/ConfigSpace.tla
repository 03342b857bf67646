------------------------------- MODULE ConfigSpace -------------------------------
(***************************************************************************)
(* What a driver reads of a device that goes on by itself: the fields of   *)
(* the configuration space (read_consistent, and the queries of            *)
(* VirtIOInput through the select window) and the causes of interrupts     *)
(* (ack_interrupt), over each transport.                                   *)
(***************************************************************************)
EXTENDS Integers, Sequences, FiniteSets

CONSTANTS
  Buses,         \* "legacy", "modern", "pci", "hyp"
  Generations,   \* the generation counter wraps here
  Values,        \* so many values of the configuration
  Spaces         \* lengths of the configuration space

VARIABLE driver

vars == <<driver>>

Causes == {"QUEUE_INTERRUPT", "DEVICE_CONFIGURATION_INTERRUPT"}
Questions == {"EvBits", "AbsInfo"} \X {0, 1}
CONFIG_DATA_MAX_LENGTH == 2
Idle == [call |-> "none"]
Missing == -1   \* there is no configuration space

\* config: the two fields, of four bytes each, that belong together; held: the
\* values of config since the generation was read; asked: the select and the
\* subsel registers; owed: causes raised and not yet returned to the driver.
Init ==
  \E bus \in Buses, space \in Spaces \cup {Missing} :
    driver = [bus |-> bus, space |-> space, config |-> <<0, 0>>, generation |-> 0, held |-> {},
              asked |-> <<"Unset", 0>>, isr |-> {}, owed |-> {}, pc |-> Idle, result |-> Idle]

d == driver
In(call) == d.pc.call = call
Goes(pc) == driver' = [driver EXCEPT !.pc = pc]
Returns(result) == driver' = [driver EXCEPT !.pc = Idle, !.result = result, !.held = {}]
Errs(error) == Returns([call |-> "error", error |-> error])

-----------------------------------------------------------------------------
\* The bounds of read_config_space and write_config_space: PCI rounds the
\* region down to words.
mmio_fits(offset, size) == d.space >= offset + size
pci_fits(offset, size) == (d.space \div 4) * 4 >= offset + size
hyp_fits(offset, size) == d.space >= offset + size

config_error(offset, size) ==
  CASE d.bus \in {"pci", "hyp"} /\ d.space = Missing -> "ConfigSpaceMissing"
    [] d.bus = "pci" /\ d.space # Missing /\ ~pci_fits(offset, size) -> "ConfigSpaceTooSmall"
    [] d.bus = "hyp" /\ d.space # Missing /\ ~hyp_fits(offset, size) -> "ConfigSpaceTooSmall"
    [] d.bus \in {"legacy", "modern"} /\ ~mmio_fits(offset, size) -> "ConfigSpaceTooSmall"
    [] OTHER -> "none"

\* A legacy device has no generation: the register reads as zero.
read_config_generation == IF d.bus = "legacy" THEN 0 ELSE d.generation

\* read_consistent of the two fields; an error is returned if the generations
\* agree, as a value is.
ReadBefore ==
  /\ In("none") \/ In("again")
  /\ driver' = [driver EXCEPT !.held = {d.config}, !.result = Idle,
                  !.pc = [call |-> "fields", before |-> read_config_generation, read |-> <<>>]]

ReadField ==
  /\ In("fields")
  /\ LET i == Len(d.pc.read)
         error == config_error(4 * i, 4)
         read == IF error = "none" THEN Append(d.pc.read, d.config[i + 1]) ELSE <<>>
     IN  Goes(IF error = "none" /\ i = 0
              THEN [d.pc EXCEPT !.read = read]
              ELSE [call |-> "after", before |-> d.pc.before, read |-> read, error |-> error])

ReadAfterUnchecked ==
  /\ In("after")
  /\ IF d.pc.error = "none"
     THEN Returns([call |-> "read", read |-> d.pc.read, held |-> d.held])
     ELSE Errs(d.pc.error)

ReadAfter ==
  /\ In("after")
  /\ IF d.pc.before # read_config_generation
     THEN Goes([call |-> "again"])
     ELSE IF d.pc.error = "none"
     THEN Returns([call |-> "read", read |-> d.pc.read, held |-> d.held])
     ELSE Errs(d.pc.error)

read_consistent == ReadBefore \/ ReadField \/ ReadAfter

-----------------------------------------------------------------------------
\* VirtIOInput's queries.  The device shows, for each question, so many bytes,
\* here one, two or three; a byte is known by its question and its place.
Length(question) ==
  CASE question = <<"EvBits", 1>> -> 1 [] question = <<"AbsInfo", 0>> -> 2
    [] question = <<"AbsInfo", 1>> -> 3 [] OTHER -> 0

\* query_config_select, called by the program ("select") or by ids and abs_info
\* ("struct") with an out of room bytes, and query_config_select_alloc
\* ("alloc"), which refuses more than CONFIG_DATA_MAX_LENGTH bytes: write
\* select and subsel, read the size, then the bytes, no more than out holds.
WriteSelect ==
  /\ In("none")
  /\ \E question \in Questions, kind \in {"select", "struct", "alloc"}, room \in {1, 2} :
       IF config_error(0, 1) # "none"
       THEN Errs(config_error(0, 1))
       ELSE driver' = [driver EXCEPT !.asked = <<question[1], @[2]>>, !.result = Idle,
              !.pc = [call |-> "subsel", question |-> question, kind |-> kind, room |-> room]]

WriteSubsel ==
  /\ In("subsel")
  /\ IF config_error(1, 1) # "none"
     THEN Errs(config_error(1, 1))
     ELSE driver' = [driver EXCEPT !.asked = <<@[1], d.pc.question[2]>>, !.pc.call = "size"]

Copied(query, size) ==
  IF query.kind = "alloc" \/ size < query.room THEN size ELSE query.room

ReadSize ==
  /\ In("size")
  /\ LET size == Length(d.asked)
         count == Copied(d.pc, size)
     IN  IF config_error(2, 1) # "none"
         THEN Errs(config_error(2, 1))
         ELSE IF d.pc.kind = "alloc" /\ size > CONFIG_DATA_MAX_LENGTH
         THEN Errs("IoError")
         ELSE Goes([call |-> "bytes", query |-> d.pc, size |-> size, count |-> count, read |-> <<>>])

\* ids and abs_info refuse an answer that is not as long as their struct.
Refused(query, size) == query.kind = "struct" /\ size # query.room

\* The bytes start at offset 8.
ReadByte ==
  /\ In("bytes")
  /\ LET i == Len(d.pc.read)
     IN  IF i < d.pc.count
         THEN IF config_error(8 + i, 1) # "none"
              THEN Errs(config_error(8 + i, 1))
              ELSE Goes([d.pc EXCEPT !.read = Append(@, <<d.asked, i>>)])
         ELSE IF Refused(d.pc.query, d.pc.size)
         THEN Errs("IoError")
         ELSE Returns([call |-> "query", query |-> d.pc.query, size |-> d.pc.size, read |-> d.pc.read])

query_config_select == WriteSelect \/ WriteSubsel \/ ReadSize \/ ReadByte

-----------------------------------------------------------------------------
\* ack_interrupt, on MMIO: read the causes, and acknowledge those.  On PCI the
\* read clears them.

AckRead ==
  /\ In("none")
  /\ IF d.bus \in {"pci", "hyp"} \/ d.isr = {}
     THEN driver' = [driver EXCEPT !.isr = {}, !.owed = @ \ d.isr]
     ELSE Goes([call |-> "ack", read |-> d.isr])

AckWriteAll ==
  /\ In("ack")
  /\ driver' = [driver EXCEPT !.isr = {}, !.owed = @ \ d.pc.read, !.pc = Idle]

AckWrite ==
  /\ In("ack")
  /\ driver' = [driver EXCEPT !.isr = @ \ d.pc.read, !.owed = @ \ d.pc.read, !.pc = Idle]

ack_interrupt == AckRead \/ AckWrite

-----------------------------------------------------------------------------
\* The device changes its configuration, less often during one read than the
\* generation takes to come round, and raises interrupts; each matters only to
\* the calls that look at it.
DeviceChanges ==
  /\ Cardinality(d.held) \in 1 .. Generations - 1
  /\ LET v == (d.config[1] + 1) % Values
     IN  driver' = [driver EXCEPT !.config = <<v, v>>, !.generation = (@ + 1) % Generations,
                      !.held = @ \cup {<<v, v>>}]

DeviceRaises ==
  /\ In("none") \/ In("ack")
  /\ \E c \in Causes : driver' = [driver EXCEPT !.isr = @ \cup {c}, !.owed = @ \cup {c}]

Next == read_consistent \/ query_config_select \/ ack_interrupt \/ DeviceChanges \/ DeviceRaises

-----------------------------------------------------------------------------
\* What a read of several fields returns is one configuration of the device,
\* however it changes meanwhile ("Safely reads multiple fields from config
\* space", read_consistent), except over legacy MMIO, which has no generation;
\* and a query returns the size of the answer to its own question, and all its
\* bytes, save that query_config_select cuts the answer to the out it is given
\* (query_config_select, query_config_select_alloc, ids, abs_info).
AnswersConsistent ==
  /\ d.result.call = "read" /\ d.bus # "legacy" => d.result.read \in d.result.held
  /\ d.result.call = "query" =>
       LET query == d.result.query
           size == Length(query.question)
           cut == query.kind = "select" /\ query.room < size
       IN  /\ d.result.size = size
           /\ d.result.read = [i \in 1 .. (IF cut THEN query.room ELSE size) |-> <<query.question, i - 1>>]

\* A cause that the device raised and that ack_interrupt has not returned is
\* pending, or is about to be returned: the acknowledgement clears no cause
\* that was not read (ack_interrupt).
NoCauseLost ==
  d.owed \subseteq d.isr \cup (IF In("ack") THEN d.pc.read ELSE {})
=============================================================================
