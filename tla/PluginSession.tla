----------------------------- MODULE PluginSession -----------------------------
(***************************************************************************)
(* One session of nuci with the inside of its plugins: LuaBridge, where    *)
(* set_config of uci-raw takes the steps of EditConfig and UciRaw, get of  *)
(* the views supervisor builds its document node by node (xmltree.lua),    *)
(* and the garbage collector runs between any two steps.  The other        *)
(* methods, and user RPCs, answer as LuaBridge lets them.                  *)
(***************************************************************************)
EXTENDS LuaBridge, EditRequest

CONSTANTS Commands,    \* the <edit-config>s: [nodes, defop]
          InitialFacts,\* the package before the first RPC
          ViewTree     \* the tree a <get> has to dump: path -> [name, text], no text is 0

(* A handle that leads from the root of d down by positions from 1 on.     *)
LeadsDown(d, m) == m = Root(d) \o Tail(m) /\ Tail(m) \in Seq(Nat \ {0})

(* A command is a document that libxml2 has parsed, within the <edit> that *)
(* edit_config_ops puts around it: a tree with this root.                  *)
ASSUME CommandsAssumption ==
  \A c \in Commands :
    /\ Root("edit") \in DOMAIN c.nodes /\ c.nodes[Root("edit")].name = "edit"
    /\ \A m \in DOMAIN c.nodes : LeadsDown("edit", m) /\ (Len(m) > 1 => Parent(m) \in DOMAIN c.nodes)

(* The tables of the supervisor are a tree, and a finite one.              *)
ASSUME ViewAssumption ==
  /\ IsFiniteSet(DOMAIN ViewTree)
  /\ \A p \in DOMAIN ViewTree : p \in Seq(Nat \ {0}) /\ p # <<>> /\ Parent(p) \in DOMAIN ViewTree \union {<<>>}

VARIABLES built,       \* the nodes xmltree_dump made: path -> handle
          handed,      \* edit_config_ops has returned
          request,     \* history: the edit in work
          before       \* history: the facts that edit found

allVars == <<luaVars, xmlVars, editVars, uciVars, built, handed, request, before>>
insideVars == <<xmlVars, editVars, uciVars, built, handed, request, before>>
pluginVars == <<editVars, uciVars, built, handed, request, before>>

NoRequest == [nodes |-> <<>>, defop |-> "none"]
Calling(m) == pc = "lua" /\ Head(todo) = m

-----------------------------------------------------------------------------
(* get: xmltree_dump.                                                      *)
Paths == DOMAIN ViewTree
NextPath ==     \* depth first, in order
  CHOOSE p \in Paths \ DOMAIN built :
    \A q \in Paths \ DOMAIN built : Below(p, q) \/ \E i \in 1..Len(p) :
      i <= Len(q) /\ p[i] < q[i] /\ \A j \in 1..(i - 1) : p[j] = q[j]

BeginGet ==
  /\ CallLua("get")
  /\ heap' = NewDoc(heap, "reply", "view", "own")
  /\ scope' = {"reply"}
  /\ built' = [p \in {<<>>} |-> Root("reply")]
  /\ UNCHANGED <<editVars, uciVars, handed, request, before>>

(* handle_node: add_child, and set_text if there is one.                   *)
BuildNode ==
  /\ Calling("get") /\ DOMAIN built # Paths \union {<<>>}
  /\ LET p == NextPath
         h == AddChild(heap, built[Parent(p)], ViewTree[p].name, "none")
         n == NewChild(h, built[Parent(p)])
     IN  /\ heap' = IF ViewTree[p].text = 0 THEN h ELSE SetText(h, n, ViewTree[p].text)
         /\ built' = [q \in DOMAIN built \union {p} |-> IF q = p THEN n ELSE built[q]]
  /\ UNCHANGED <<scope, luaVars, editVars, uciVars, handed, request, before>>

(* strdump, and the document goes out of scope; or another plugin's error. *)
GetReturns ==
  /\ Calling("get") /\ DOMAIN built = Paths \union {<<>>}
  /\ \E o \in Outcomes : LuaReturns(o)
  /\ scope' = {} /\ built' = <<>>
  /\ UNCHANGED <<heap, editVars, uciVars, handed, request, before>>

-----------------------------------------------------------------------------
(* set_config.  edit_config_ops reads the configuration, which resets the  *)
(* cursor, and parses it and the command.                                  *)

(* Faulty: edit_config_ops gives back the operations only.                 *)
Mutant_HandedOver == {}

(* The documents that edit_config_ops returns with the operations: they    *)
(* stay in scope.                                                          *)
HandedOver == {"config", "edit"}

BeginSetConfig ==
  \E c \in Commands :
    /\ CallLua("set_config")
    /\ request' = c
    /\ heap' = WithDoc(WithDoc(heap, "config", ConfigDoc(staged)), "edit", c.nodes)
    /\ scope' = {"config", "edit"} /\ handed' = FALSE
    /\ BeginEdit(Root("config"), Root("edit"), c.defop)
    /\ staged' = stored
    /\ delayed' = <<>> /\ applied' = 0 /\ depth' = 0
    /\ before' = staged
    /\ UNCHANGED <<stored, dirty, built>>

(* editconfig() at work; when it is done only its results are left.        *)
ScanStep ==
  /\ Calling("set_config") /\ ~handed
  /\ EditStep
  /\ UNCHANGED <<luaVars, uciVars, built, handed, request, before>>

EditConfigOpsReturns ==
  /\ Calling("set_config") /\ frames = <<>> /\ ~handed
  /\ scope' = HandedOver
  /\ handed' = TRUE
  /\ UNCHANGED <<heap, luaVars, editVars, uciVars, built, request, before>>

ApplyStep ==
  /\ Calling("set_config") /\ handed
  /\ ApplyOp
  /\ UNCHANGED <<luaVars, built, handed, request, before>>

(* Faulty: a set_config that is content says false.                        *)
Mutant_EditAnswer(tag) ==
  [raised |-> FALSE, result |-> "nil", error |-> IF tag = "" THEN "boolean" ELSE "table"]

(* What set_config returns: nothing, or the table of the error; or Lua's   *)
(* error() is raised.                                                      *)
EditAnswer(tag) ==
  CASE tag = "" -> [raised |-> FALSE, result |-> "nil", error |-> "nil"]
    [] tag = "runtime" -> [raised |-> TRUE, result |-> "nil", error |-> "string"]
    [] OTHER -> [raised |-> FALSE, result |-> "nil", error |-> "table"]

SetConfigReturns ==
  /\ Calling("set_config") /\ handed
  /\ LuaReturns(EditAnswer(editError))
  /\ FlushLists \/ (editError # "" /\ UNCHANGED staged /\ delayed' = <<>>)
  /\ scope' = {} /\ handed' = FALSE
  /\ ops' = <<>> /\ editError' = "" /\ applied' = 0 /\ depth' = 0
  /\ UNCHANGED <<heap, frames, stored, dirty, built, request, before>>

-----------------------------------------------------------------------------
(* get_config (of any datastore) resets the cursor; user RPCs of the other *)
(* plugins do not touch this package.                                      *)
CallOther ==
  \E m \in {"get_config", "user_rpc"} : CallLua(m) /\ UNCHANGED insideVars
OtherReturns ==
  /\ Calling("get_config") \/ Calling("user_rpc")
  /\ \E o \in Outcomes : LuaReturns(o)
  /\ staged' = IF Head(todo) = "get_config" THEN stored ELSE staged
  /\ UNCHANGED <<stored, delayed, dirty, applied, depth, xmlVars, editVars, built, handed, request, before>>

(* The chains, as CommitHooks has them, for this one package: store it and *)
(* reload its daemon, which may fail; or forget what is staged.            *)
Chain ==
  /\ \E o \in Outcomes :
       /\ ChainReturns(o)
       /\ IF IsError(reply)
          THEN staged' = stored /\ dirty' = FALSE /\ UNCHANGED stored
          ELSE /\ Failed(o) => o.raised /\ dirty
               /\ stored' = IF dirty THEN staged ELSE stored
               /\ dirty' = (dirty /\ Failed(o))
               /\ UNCHANGED staged
  /\ UNCHANGED <<delayed, applied, depth, xmlVars, editVars, built, handed, request, before>>

(* The RPC is over, and documents not collected by now are of no more      *)
(* interest.                                                               *)
Finish ==
  /\ Send
  /\ heap' = <<>>
  /\ request' = NoRequest /\ before' = {}
  /\ UNCHANGED <<scope, editVars, uciVars, built, handed>>

Loop ==
  /\ \/ ReceiveOwn \/ ReceiveUser \/ Hangup \/ RefuseInC \/ Dispatched
     \/ \E methods \in ServerRpcs : ReceiveServer(methods)
  /\ UNCHANGED insideVars

Gc == Collect /\ UNCHANGED <<luaVars, pluginVars>>

Init ==
  /\ LuaInit
  /\ heap = <<>> /\ scope = {}
  /\ frames = <<>> /\ ops = <<>> /\ editError = ""
  /\ stored \in InitialFacts /\ staged = stored
  /\ delayed = <<>> /\ dirty = FALSE /\ applied = 0 /\ depth = 0
  /\ built = <<>> /\ handed = FALSE /\ request = NoRequest /\ before = {}

InsidePlugin == BuildNode \/ GetReturns \/ ScanStep \/ EditConfigOpsReturns \/ ApplyStep \/ SetConfigReturns \/ OtherReturns

Next ==
  \/ Loop \/ Chain \/ Finish \/ Gc
  \/ BeginGet \/ BeginSetConfig \/ CallOther
  \/ InsidePlugin

(* Lua code runs on while it has something to do; the collector does not   *)
(* keep it from that.                                                      *)
Spec == Init /\ [][Next]_allVars /\ WF_allVars(InsidePlugin)

-----------------------------------------------------------------------------
(* The properties.                                                         *)

(* Types, and the heap has no node that hangs in the air: what delete and  *)
(* the collector free goes with all that is below it.                      *)
TypeOK ==
  /\ pc \in {"receive", "dispatch", "lua", "chain", "send", "ended"}
  /\ \A m \in DOMAIN heap : m[1] \in {"config", "edit", "reply"}
  /\ scope \subseteq {"config", "edit", "reply"}
  /\ applied \in 0..Len(ops) /\ depth \in Nat /\ calls \in Nat
  /\ Rooted

(* No Lua function holds a pointer to a node that is freed: neither the    *)
(* iterators while create_scan deletes nodes, nor the operations while the *)
(* collector may run.                                                      *)
HandlesLive ==
  pc = "lua" => /\ Held \subseteq DOMAIN heap
                /\ \A p \in DOMAIN built : built[p] \in DOMAIN heap

(* At the end of a set_config the cursor has what the command asks for,    *)
(* and the call fails exactly if the command can not be done.  Left out:   *)
(* commands that turn a list into an option of the same name, where the    *)
(* code loses the option (its list is deleted at the end, uci-raw.lua:420).*)
EditYieldsRequest ==
  (pc = "dispatch" /\ calls = 1 /\ class = "server" /\ request # NoRequest) =>
    LET impossible == Impossible(request.nodes, before, request.defop) IN
    /\ (failures # {}) = impossible
    /\ ~impossible => staged = Requested(request.nodes, before, request.defop)

(* Every enter has its leave, no operation is outside of them at the end,  *)
(* and a leave never comes first: applyops does not raise an error.        *)
OpsBalanced ==
  pc = "lua" => /\ editError # "runtime"
                /\ (frames = <<>> /\ editError = "" /\ applied = Len(ops)) => depth = 0

(* What a successful chain is going to leave in the cursor is on disk: a   *)
(* package that an edit changed is scheduled.                              *)
NothingForgotten ==
  (pc = "chain" /\ ~IsError(reply) /\ staged # stored) => dirty

(* What strdump prints is the tree of the view: each node under its        *)
(* parent, in the view's namespace, with its text.                         *)
GetReturnsTree ==
  (Calling("get") /\ DOMAIN built = Paths \union {<<>>}) =>
    \A p \in Paths :
      /\ Parent(built[p]) = built[Parent(p)]
      /\ heap[built[p]].name = ViewTree[p].name /\ heap[built[p]].ns = "own"
      /\ Text(heap, built[p]) = {ViewTree[q].text : q \in {x \in Paths : Below(p, x)}} \ {0}

(* The file changes only as a whole and only to what the edit in work asks *)
(* for: never to a part of it, never for one that was refused.             *)
FileChangesByRequest ==
  [][stored' # stored =>
       /\ ~Impossible(request.nodes, stored, request.defop)
       /\ stored' = Requested(request.nodes, stored, request.defop)]_stored

(* The session is a session of the bridge alone: whatever a plugin does    *)
(* inside, it comes back with an answer that LuaBridge knows, and leaves   *)
(* the stack and the flag as they are.                                     *)
RefinesLuaBridge == LuaInit /\ [][LuaNext]_luaVars

(* A call into a plugin comes back: the scan that starts again after every *)
(* deletion ends, as do the walk of the two documents and applyops.        *)
CallsReturn == pc = "lua" ~> pc # "lua"
=============================================================================
