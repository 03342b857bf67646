----------------------------------- MODULE Gpu -----------------------------------
(***************************************************************************)
(* VirtIOGpu (gpu.rs): the commands of each call, the DMA areas behind the *)
(* resources, and what the device makes of the commands.  control_queue    *)
(* and cursor_queue carry one blocking request at a time, as in Requests;  *)
(* here a request and its answer are one step.                             *)
(*                                                                         *)
(* The device, which is external, refuses what it cannot do, and MaxRefusals *)
(* times what it could.  The host may change the size of the display.      *)
(***************************************************************************)
EXTENDS Integers, Sequences

CONSTANTS
  Areas,         \* addresses of DMA areas
  Sizes,         \* of the display, and of the cursor
  MaxRefusals,
  None

RESOURCE_ID_FB == "fb"
RESOURCE_ID_CURSOR == "cursor"
Resources == {RESOURCE_ID_FB, RESOURCE_ID_CURSOR}
CURSOR_RECT == CHOOSE size \in Sizes : TRUE

VARIABLE driver    \* the fields below

(***************************************************************************)
(*   call, step         the call that runs, and its next step; None        *)
(*   rect               None before setup_framebuffer                      *)
(*   frame_buffer_dma, cursor_buffer_dma, dma: the last is local           *)
(*   info               display_info of the call                           *)
(* and of the device:                                                      *)
(*   display            size of the display                                *)
(*   resource           [id -> None, or its size and what backs it]        *)
(*   refused            commands it could have carried out                 *)
(*   orphaned           resources whose set-up it stopped after the attach *)
(***************************************************************************)
Init ==
  \E size \in Sizes :
    driver = [call |-> None, step |-> 1, rect |-> None, frame_buffer_dma |-> None,
              cursor_buffer_dma |-> None, dma |-> None, info |-> None, display |-> size,
              resource |-> [id \in Resources |-> None], refused |-> 0, orphaned |-> {}]

Steps ==
  [resolution |-> <<"get_display_info">>,
   setup_framebuffer |-> <<"get_display_info", "resource_create_2d", "alloc",
                           "resource_attach_backing", "set_scanout">>,
   flush |-> <<"transfer_to_host_2d", "resource_flush">>,
   setup_cursor |-> <<"alloc", "resource_create_2d", "resource_attach_backing",
                      "transfer_to_host_2d", "update_cursor">>,
   move_cursor |-> <<"update_cursor">>]

Now == Steps[driver.call][driver.step]
Id == IF driver.call \in {"setup_framebuffer", "flush"} THEN RESOURCE_ID_FB ELSE RESOURCE_ID_CURSOR
Size == IF Id = RESOURCE_ID_FB THEN driver.info ELSE CURSOR_RECT
Owned == {driver.frame_buffer_dma, driver.cursor_buffer_dma, driver.dma}

\* flush is NotReady before the framebuffer has been set up.
Call(call) ==
  /\ driver.call = None
  /\ call = "flush" => driver.rect # None
  /\ driver' = [driver EXCEPT !.call = call, !.step = 1]

\* An early return drops what is local.
Fail(d) == [d EXCEPT !.call = None, !.step = 1, !.dma = None, !.info = None,
                     !.orphaned = IF driver.resource[Id] # None /\ driver.dma # None
                                     /\ driver.resource[Id].backing = driver.dma
                                  THEN @ \cup {Id} ELSE @]

StoreFirst(d) ==
  LET e == IF d.dma = None THEN d
           ELSE IF Id = RESOURCE_ID_FB THEN [d EXCEPT !.frame_buffer_dma = d.dma]
           ELSE [d EXCEPT !.cursor_buffer_dma = d.dma]
  IN  IF d.step < Len(Steps[d.call]) THEN [e EXCEPT !.step = @ + 1]
      ELSE [e EXCEPT !.call = None, !.step = 1, !.dma = None, !.info = None]

\* On to the next step; after the last one the driver keeps the area.
Advance(d) ==
  IF d.step < Len(Steps[d.call]) THEN [d EXCEPT !.step = @ + 1]
  ELSE [d EXCEPT !.call = None, !.step = 1, !.dma = None, !.info = None,
                 !.frame_buffer_dma = IF d.call = "setup_framebuffer" THEN d.dma ELSE @,
                 !.cursor_buffer_dma = IF d.call = "setup_cursor" THEN d.dma ELSE @]

\* Dma::new
Alloc ==
  /\ driver.call # None /\ Now = "alloc"
  /\ \/ \E a \in Areas \ Owned : driver' = Advance([driver EXCEPT !.dma = a])
     \/ driver' = Fail(driver)

\* What the device can carry out, and what comes of it.
Possible ==
  LET r == driver.resource[Id]
  IN  CASE Now = "resource_create_2d" -> r = None
        [] Now \in {"resource_attach_backing", "set_scanout", "resource_flush"} -> r # None
        [] Now = "transfer_to_host_2d" -> r # None /\ r.backing # None
        [] OTHER -> TRUE

Executed ==
  CASE Now = "get_display_info" ->
         [driver EXCEPT !.info = driver.display,
                        !.rect = IF driver.call = "setup_framebuffer" THEN driver.display ELSE @]
    [] Now = "resource_create_2d" ->
         [driver EXCEPT !.resource[Id] = [size |-> Size, backing |-> None, length |-> 0]]
    [] Now = "resource_attach_backing" ->
         [driver EXCEPT !.resource[Id].backing = driver.dma, !.resource[Id].length = Size]
    [] OTHER -> driver

\* request and check_type; cursor_request, which has no answer, cannot fail.
Request ==
  /\ driver.call # None /\ Now # "alloc"
  /\ \/ Possible /\ driver' = Advance(Executed)
     \/ ~Possible /\ driver' = Fail(driver)
     \/ /\ Possible /\ Now # "update_cursor" /\ driver.refused < MaxRefusals
        /\ driver' = Fail([driver EXCEPT !.refused = @ + 1])

Resize ==
  \E size \in Sizes \ {driver.display} : driver' = [driver EXCEPT !.display = size]

Next == (\E call \in DOMAIN Steps : Call(call)) \/ Alloc \/ Request \/ Resize

-----------------------------------------------------------------------------
\* "We store the `Dma` object in `self.frame_buffer_dma`, which prevents the
\* allocation from being freed": what backs a resource of the device is an
\* area that the driver still owns, of the size of the resource, and not the
\* area of the other resource, however often the calls are repeated and
\* refused.  Only a refusal after the attach leaves the device with memory
\* that has been freed (gpu.rs:118): then the call cannot be repeated either.
BackingOwned ==
  /\ \A id \in Resources \ driver.orphaned :
       LET r == driver.resource[id]
       IN  r # None /\ r.backing # None =>
             /\ r.length = r.size
             /\ r.backing = driver.dma \/
                r.backing = IF id = RESOURCE_ID_FB THEN driver.frame_buffer_dma
                                                   ELSE driver.cursor_buffer_dma
  /\ \A id \in driver.orphaned : driver.refused > 0
=============================================================================
