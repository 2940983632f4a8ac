SPECIFICATION Spec
CONSTANTS
  nil <- Nil
  new_view <- NewView
  update_visible <- UpdateVisible
  update_logical <- UpdateLogical
  goto_node <- GotoNode
  goto_visible_node <- GotoVisibleNode
  next_visible <- NextVisible
  prev_visible <- PrevVisible
  node_at_visline <- NodeByVisline
  visible_to_physical <- VisibleToPhysical
  physical_to_visible <- PhysicalToVisible
  visible_lines <- TotalVisibleLines
  set_fold_state <- SetFoldState
  line_target <- LineTarget
  time_target <- TimeTarget
  current_pcs <- CurrentPCs
  pc_target <- PCTarget
  exception_target <- ExceptionTarget
  no_range <- NoRange
  function_around <- ContainingFunction
  folded_after <- FoldedFunctionAfter
  fold_state <- NodeFoldState
  uint_max <- UintMax
  no_record <- NoRecord
  node_at_line <- NodeAtLine
  buffer_limit <- BufferLimit
  previous_node <- GetPreviousNode
  last_line <- LastLine
  line_after <- After
  reg_space <- Registers
  mem_space <- Memory
  last_touched <- LastTouched
  accesses <- Accesses
  address_of <- Address
  constant <- Constant
  stack_pointer <- StackPointer
  evaluations <- Evaluations
  UintMax = 50
  AddrSpan = 8
  ExceptionPC = 99
  Sessions <- SomeSessions
  Words <- SomeWords
  MaxChar = 9
  Ids = {1, 2, 3}
  Rows = 2
  NRegs = 3
  RegRows = 2
  BytesPerLine = 2
  MaxTraces = 2
INVARIANT TypeOK
INVARIANT WindowsRegistered
PROPERTY ViewsFollow
PROPERTY PositionsCoherent
INVARIANT SelectionsHoldAnchor
CHECK_DEADLOCK FALSE
