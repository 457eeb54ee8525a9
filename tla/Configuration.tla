--------------------------- MODULE Configuration ---------------------------
(***************************************************************************)
(* Reading the configuration file: lib/core/configurator.c and config.c,   *)
(* the configurators of lib/handler/configurator/, the map of MIME types   *)
(* (lib/handler/mimemap.c) and the shared lists of header commands         *)
(* (lib/handler/headers_util.c).                                           *)
(*                                                                         *)
(* The file is written as it is read: in every mapping any commands of a   *)
(* menu come in any order.  A context of the stack is a mapping being      *)
(* read; `vars` stands for the top of the stack every configurator keeps   *)
(* (all of them are pushed by `enter` and popped by `exit`).  Header       *)
(* lists, environments and MIME maps are shared objects of a heap.  A      *)
(* command is [name, type, ok, val]: not `ok` is what the parser of its    *)
(* value refuses.                                                          *)
(***************************************************************************)
EXTENDS Integers, Sequences, FiniteSets, SequencesExt

CONSTANTS Exts,        \* file extensions ("default" is the default type)
          Names,       \* environment variables
          MaxCommands, \* bound: commands of a mapping, apart from `hosts` and `paths`
          Scenes       \* [menu, hosts, paths, most]: menu[level] is a set of commands, a host has at most `most` paths

VARIABLE cf

Asserted(c, ok, name) == IF ok THEN c ELSE [c EXCEPT !.failed = @ \cup {name}]
Refuse(c) == [c EXCEPT !.status = "refused"]
Nil == 0
NoType == "none"
Default == "default"

-----------------------------------------------------------------------------
(* The commands: where each may be used, the types of its value, and       *)
(* whether it is run when it is read.                                      *)

AnyType == {"scalar", "sequence", "mapping"}
Cmd(levels, types, when) == [levels |-> levels, types |-> types, when |-> when]
Global == {"global"}
AllButExt == {"global", "host", "path"}
AllLevels == AllButExt \cup {"ext"}

CoreCommands ==
    [hosts           |-> Cmd(Global, {"mapping"}, "deferred"),
     paths           |-> Cmd({"host"}, {"mapping"}, "deferred"),
     strict_match    |-> Cmd({"host"}, {"scalar"}, "now"),
     limit_body      |-> Cmd(Global, {"scalar"}, "now"),
     http2_window    |-> Cmd(Global, {"scalar"}, "now"),
     http3_window    |-> Cmd(Global, {"scalar"}, "now"),
     push_preload    |-> Cmd({"global", "host"}, {"scalar"}, "now"),
     cross_push      |-> Cmd({"global", "path"}, {"scalar"}, "now"),
     casper          |-> Cmd({"global", "host"}, AnyType, "now"),
     settypes        |-> Cmd(AllButExt, {"mapping"}, "now"),
     addtypes        |-> Cmd(AllButExt, {"mapping"}, "now"),
     removetypes     |-> Cmd(AllButExt, {"sequence"}, "now"),
     setdefaulttype  |-> Cmd(AllButExt, {"scalar"}, "now"),
     custom_handler  |-> Cmd(AllButExt, AnyType, "semi"),
     setenv          |-> Cmd(AllLevels, {"mapping"}, "now"),
     unsetenv        |-> Cmd(AllLevels, AnyType, "now"),
     server_name     |-> Cmd(Global, {"scalar"}, "now"),
     send_server     |-> Cmd(Global, {"scalar"}, "deferred"),
     emit_errors     |-> Cmd(AllLevels, {"scalar"}, "now"),
     informational   |-> Cmd(Global, {"scalar"}, "now"),
     stash           |-> Cmd(AllLevels, AnyType, "now")]
LogCommands == [access_log |-> Cmd(AllButExt, AnyType, "now")]
CompressCommands ==
    [compress        |-> Cmd(AllButExt, AnyType, "now"),
     compress_min    |-> Cmd(AllButExt, {"scalar"}, "now"),
     gzip            |-> Cmd(AllButExt, {"scalar"}, "now")]
ExpiresCommands == [expires |-> Cmd(AllButExt, {"scalar"}, "now")]
ErrordocCommands == [error_doc |-> Cmd(AllButExt, AnyType, "now")]
HeadersCommands == [header |-> Cmd(AllButExt, AnyType, "now"), proxy_header |-> Cmd(AllButExt, AnyType, "now")]
ReproxyCommands == [reproxy |-> Cmd(AllButExt, {"scalar"}, "now")]
ThrottleCommands == [throttle |-> Cmd(AllButExt, {"scalar"}, "now")]
TimingCommands == [server_timing |-> Cmd(AllButExt, AnyType, "now")]
FilterCommands ==
    LogCommands @@ CompressCommands @@ ExpiresCommands @@ ErrordocCommands @@ HeadersCommands
    @@ ReproxyCommands @@ ThrottleCommands @@ TimingCommands
FileCommands ==
    [file_dir        |-> Cmd({"path"}, {"scalar"}, "deferred"),
     file_file       |-> Cmd({"path"}, {"scalar"}, "deferred"),
     file_index      |-> Cmd(AllButExt, {"sequence"}, "now"),
     file_etag       |-> Cmd(AllButExt, {"scalar"}, "now"),
     send_compressed |-> Cmd(AllButExt, {"scalar"}, "now"),
     dirlisting      |-> Cmd(AllButExt, {"scalar"}, "now")]
ProxyCommands ==
    [proxy_url       |-> Cmd({"path"}, AnyType, "deferred"),
     proxy_connect   |-> Cmd({"path"}, {"sequence"}, "deferred"),
     proxy_io        |-> Cmd(AllLevels, {"scalar"}, "now"),
     proxy_conn      |-> Cmd(AllLevels, {"scalar"}, "now"),
     proxy_keepalive |-> Cmd(AllLevels, {"scalar"}, "now"),
     proxy_protocol  |-> Cmd(AllLevels, {"scalar"}, "now"),
     preserve_host   |-> Cmd(AllLevels, {"scalar"}, "now"),
     verify_peer     |-> Cmd(AllLevels, {"scalar"}, "now"),
     http2_ratio     |-> Cmd(AllLevels, {"scalar"}, "now"),
     http3_ratio     |-> Cmd(AllLevels, {"scalar"}, "now"),
     force_cleartext |-> Cmd(AllLevels, {"scalar"}, "now"),
     via_header      |-> Cmd(Global, {"scalar"}, "now")]
FastcgiCommands ==
    [fastcgi_connect |-> Cmd({"path", "ext"}, AnyType, "deferred"),
     fastcgi_spawn   |-> Cmd({"path", "ext"}, AnyType, "deferred"),
     fastcgi_io      |-> Cmd(AllLevels, {"scalar"}, "now"),
     document_root   |-> Cmd(AllLevels, {"scalar"}, "now")]
RedirectCommands == [redirect |-> Cmd({"path"}, AnyType, "deferred")]
StatusCommands == [status |-> Cmd({"path"}, {"scalar"}, "deferred"), duration_stats |-> Cmd(Global, {"scalar"}, "now")]
MrubyCommands == [mruby |-> Cmd({"path"}, {"scalar"}, "deferred")]
OtherCommands == RedirectCommands @@ StatusCommands @@ MrubyCommands
\* h2o_configurator_get_command: the command of that name of any configurator
GetCommand(name) ==
    (CoreCommands @@ FilterCommands @@ FileCommands @@ ProxyCommands @@ FastcgiCommands @@ OtherCommands)[name]

-----------------------------------------------------------------------------
(* Contexts and the variables of the configurators.                        *)

Top(c) == Last(c.stack)
Here(c) == Len(c.stack)
Vars(c) == Top(c).vars
SetVar(c, f, v) == [c EXCEPT !.stack[Here(c)].vars[f] = v]
SetTop(c, f, v) == [c EXCEPT !.stack[Here(c)][f] = v]

\* what the configurators set before the global level is entered
DefaultVars ==
    [push |-> TRUE, cross |-> FALSE, casper |-> FALSE, errors |-> TRUE, logs |-> <<>>,
     min |-> 0, gz |-> FALSE, br |-> FALSE, expires |-> Nil, docs |-> <<>>, headers |-> Nil,
     reproxy |-> FALSE, throttle |-> FALSE, timing |-> FALSE,
     index |-> "html", etag |-> TRUE, sendc |-> FALSE, gunzip |-> FALSE, listing |-> FALSE,
     io |-> 30, conn |-> 30, keep |-> 2, pp |-> FALSE, preserve |-> FALSE, ssl |-> "verify",
     h2ratio |-> -1, h3ratio |-> 0, cleartext |-> FALSE, pheaders |-> Nil, fcgi |-> 30, root |-> ""]

AddRef(lists, id) == IF id = Nil THEN lists ELSE [lists EXCEPT ![id].refs = @ + 1]
Release(lists, id) == IF id = Nil THEN lists ELSE [lists EXCEPT ![id].refs = @ - 1]
ReleaseMime(c, m) == [c EXCEPT !.mimes[m].refs = @ - 1]

\* enter of every configurator: the variables are copied, the lists are shared, proxy.timeout.* is unset
OnEnter(c) ==
    [c EXCEPT !.lists = AddRef(AddRef(@, Vars(c).headers), Vars(c).pheaders), !.connSet = FALSE]
\* create_context: a copy of the parent; `slot` says whose MIME map it uses
CreateContext(c, level, host, path, slot) ==
    [level |-> level, host |-> host, path |-> path, slot |-> slot, env |-> IF Here(c) = 0 THEN Nil ELSE Top(c).env,
     vars |-> IF Here(c) = 0 THEN DefaultVars ELSE Vars(c), given |-> <<>>, semi |-> <<>>, deferred |-> <<>>, phase |-> "read"]
Push(c, ctx) == OnEnter([c EXCEPT !.stack = Append(@, ctx)])
\* destroy_context: the environment is handed to the path
DestroyContext(c) ==
    LET d == IF Top(c).path = Nil THEN c ELSE [c EXCEPT !.paths[Top(c).path].env = Top(c).env]
    IN  [d EXCEPT !.stack = Front(@)]

-----------------------------------------------------------------------------
(* Hosts and paths.                                                        *)

InitPathconf(host, path, mime, kind) ==
    [host |-> host, path |-> path, kind |-> kind, mime |-> mime, env |-> Nil, errors |-> TRUE, handlers |-> <<>>,
     filters |-> <<>>, loggers |-> <<>>, chain |-> <<>>, done |-> FALSE]
NewPath(c, host, path, mime, kind) ==
    [c EXCEPT !.paths = Append(@, InitPathconf(host, path, mime, kind)), !.mimes[mime].refs = @ + 1]
\* h2o_config_register_path: longer paths first, then in the order of memcmp; a path is <<length, rank>>
Before(p, q) == p[1] > q[1] \/ (p[1] = q[1] /\ p[2] < q[2])
SlotOf(c, h, path) ==
    Cardinality({i \in DOMAIN c.hosts[h].paths : \A j \in 1..i : ~Before(path, c.paths[c.hosts[h].paths[j]].path)})
InsertPath(c, h, at, id) == [c EXCEPT !.hosts[h].paths = SubSeq(@, 1, at) \o <<id>> \o SubSeq(@, at + 1, Len(@))]
RegisterPath(c, h, path) == InsertPath(NewPath(c, h, path, c.hosts[h].mime, "path"), h, SlotOf(c, h, path), Len(c.paths) + 1)

\* create_hostconf: the fallback path and the host take the map of the global level
CreateHostconf(c, name) ==
    [c EXCEPT !.hosts = Append(@, [name |-> name, mime |-> c.mime, strict |-> FALSE, push |-> TRUE, cross |-> FALSE,
                                   casper |-> FALSE, paths |-> <<>>, fallback |-> Len(c.paths)]),
              !.mimes[c.mime].refs = @ + 1]
\* h2o_config_register_host
RegisterHost(c, name) ==
    IF \E h \in DOMAIN c.hosts : c.hosts[h].name = name THEN Refuse(c)
    ELSE CreateHostconf(NewPath(c, Len(c.hosts) + 1, Nil, c.mime, "fallback"), name)

MimeOf(c, slot) == CASE slot[1] = "global" -> c.mime [] slot[1] = "host" -> c.hosts[slot[2]].mime [] OTHER -> c.paths[slot[2]].mime
SetMime(c, slot, m) ==
    CASE slot[1] = "global" -> [c EXCEPT !.mime = m]
      [] slot[1] = "host" -> [c EXCEPT !.hosts[slot[2]].mime = m]
      [] OTHER -> [c EXCEPT !.paths[slot[2]].mime = m]

-----------------------------------------------------------------------------
(* Environments.                                                           *)

\* inherit_env_if_necessary and h2o_config_create_envconf
ParentEnv(c) == IF Here(c) = 1 THEN Nil ELSE c.stack[Here(c) - 1].env
InheritEnv(c) ==
    IF Top(c).env # ParentEnv(c) THEN c
    ELSE SetTop([c EXCEPT !.envs = Append(@, [parent |-> Top(c).env, sets |-> {}, unsets |-> {}])], "env", Len(c.envs) + 1)
\* h2o_config_setenv and h2o_config_unsetenv; a set variable is <<name, value>>
Setenv(e, name, v) == [e EXCEPT !.unsets = @ \ {name}, !.sets = {s \in @ : s[1] # name} \cup {<<name, v>>}]
Unsetenv(e, name) == [e EXCEPT !.unsets = @ \cup {name}]
OnConfigSetenv(c, k) == [c EXCEPT !.envs[Top(c).env] = Setenv(@, k.val[1], k.val[2])]
OnConfigUnsetenv(c, k) == [c EXCEPT !.envs[Top(c).env] = Unsetenv(@, k.val)]
\* apply_env of lib/core/request.c: the parent first, at each level what is unset before what is set
ApplyOne(env, e) == [n \in Names |-> IF \E s \in e.sets : s[1] = n THEN (CHOOSE s \in e.sets : s[1] = n)[2]
                                     ELSE IF n \in e.unsets THEN Nil ELSE env[n]]
RECURSIVE ApplyEnv(_, _)
ApplyEnv(c, id) == IF id = Nil THEN [n \in Names |-> Nil] ELSE ApplyOne(ApplyEnv(c, c.envs[id].parent), c.envs[id])

-----------------------------------------------------------------------------
(* MIME types.  The type of a custom handler is "dynamic".                 *)

MimeCreate == [types |-> [e \in Exts |-> NoType], default |-> "octet", refs |-> 1]
\* h2o_mimemap_define_mimetype, set_type, set_default_type, h2o_mimemap_remove_type
SetType(m, ext, type) == IF ext = Default THEN [m EXCEPT !.default = type] ELSE [m EXCEPT !.types[ext] = type]
RemoveType(m, ext) == [m EXCEPT !.types[ext] = NoType]
TypeByExtension(m, ext) == IF m.types[ext] # NoType THEN m.types[ext] ELSE m.default
CurrentMime(c) == MimeOf(c, Top(c).slot)
ParentMime(c) == MimeOf(c, c.stack[Here(c) - 1].slot)
ReplaceMime(c, m) == SetMime([ReleaseMime(c, CurrentMime(c)) EXCEPT !.mimes = Append(@, m)], Top(c).slot, Len(c.mimes) + 1)
\* clone_mimemap_if_clean: a map that is the parent's own is copied before it is changed
CloneAlways(c) == ReplaceMime(c, [c.mimes[CurrentMime(c)] EXCEPT !.refs = 1])
CloneNever(c) == c
CloneIfClean(c) == IF Here(c) = 1 \/ CurrentMime(c) # ParentMime(c) THEN c ELSE CloneAlways(c)
ChangeMime(c, k) ==
    [c EXCEPT !.mimes[CurrentMime(c)] =
        CASE k.name = "addtypes" -> SetType(@, k.val[1], k.val[2])
          [] k.name = "removetypes" -> RemoveType(@, k.val)
          [] OTHER -> SetType(@, Default, k.val)]
\* on_config_mime_settypes: a new map with the default type and the given types only
Settypes(c, k) ==
    ReplaceMime(c, SetType([MimeCreate EXCEPT !.default = c.mimes[CurrentMime(c)].default], k.val[1], k.val[2]))
OnConfigMime(c, k) == IF k.name = "settypes" THEN Settypes(c, k) ELSE ChangeMime(CloneIfClean(c), k)

-----------------------------------------------------------------------------
(* Header commands: h2o_headers_append_command makes a new list, empties   *)
(* the old one and gives its reference up.                                 *)

EmptyOld(lists, id) == IF id = Nil THEN lists ELSE [lists EXCEPT ![id].cmds = <<>>]
CmdsOf(lists, id) == IF id = Nil THEN <<>> ELSE lists[id].cmds
AppendCommand(lists, id, v) == Append(Release(EmptyOld(lists, id), id), [cmds |-> Append(CmdsOf(lists, id), v), refs |-> 1])
\* add_cmd behind on_config_header_2arg and on_config_unset_core
OnConfigHeader(c, f, k) == SetVar([c EXCEPT !.lists = AppendCommand(@, Vars(c)[f], k.val)], f, Len(c.lists) + 1)

-----------------------------------------------------------------------------
(* Handlers, filters and loggers of a path.                                *)

\* a handler keeps the variables of the moment it is registered
Handler(c, kind) == [kind |-> kind, vars |-> Vars(c), mime |-> IF kind = "file" THEN CurrentMime(c) ELSE Nil]
CreateHandler(c, kind) == [c EXCEPT !.paths[Top(c).path].handlers = Append(@, Handler(c, kind))]
\* h2o_create_filter puts the new filter first
CreateFilter(c, kind, arg) == [c EXCEPT !.paths[Top(c).path].filters = <<<<kind, arg>>>> \o @]
OnConfigDir(c) == CreateHandler([c EXCEPT !.mimes[CurrentMime(c)].refs = @ + 1], "file")
OnConfigFile(c) == CreateHandler(c, "file_file")
\* on_config_reverse_url: the checks of consistency, then the pool and the handler
ProxyInconsistent(v) ==
    (v.keep # 0 /\ v.pp) \/ v.h2ratio + v.h3ratio > 100 \/ (v.cleartext /\ v.h2ratio # 100)
OnConfigReverseUrl(c) ==
    IF ProxyInconsistent(Vars(c)) THEN Refuse(c)
    ELSE CreateHandler([c EXCEPT !.lists = AddRef(@, Vars(c).pheaders)], "proxy")
\* config_connect_core and the handlers of the other files
OnConfigConnectProxy(c) == CreateHandler(c, "proxy_connect")
OnConfigConnect(c) == CreateHandler(c, "fastcgi_connect")
OnConfigSpawn(c) == CreateHandler(c, "fastcgi_spawn")
OnConfigRedirect(c) == CreateHandler(c, "redirect")
OnConfigStatus(c, k) == IF k.val = FALSE THEN c ELSE CreateHandler(c, "status")
OnConfigMruby(c) == CreateHandler(c, "mruby")
OnConfigHandler(c, k) ==
    CASE k.name = "file_dir" -> OnConfigDir(c)
      [] k.name = "file_file" -> OnConfigFile(c)
      [] k.name = "proxy_url" -> OnConfigReverseUrl(c)
      [] k.name = "proxy_connect" -> OnConfigConnectProxy(c)
      [] k.name = "fastcgi_connect" -> OnConfigConnect(c)
      [] k.name = "fastcgi_spawn" -> OnConfigSpawn(c)
      [] k.name = "redirect" -> OnConfigRedirect(c)
      [] k.name = "status" -> OnConfigStatus(c, k)
      [] OTHER -> OnConfigMruby(c)
Handlers == {"file_dir", "file_file", "proxy_url", "proxy_connect", "fastcgi_connect", "fastcgi_spawn", "redirect", "status", "mruby"}

-----------------------------------------------------------------------------
(* The commands that set a variable of the current level.                  *)

CoreVars == [push_preload |-> "push", cross_push |-> "cross", casper |-> "casper"]
ErrorVars == [emit_errors |-> "errors"]
ReproxyVars == [reproxy |-> "reproxy"]
ThrottleVars == [throttle |-> "throttle"]
TimingVars == [server_timing |-> "timing"]
FileVars == [file_index |-> "index", file_etag |-> "etag"]
ListingVars == [dirlisting |-> "listing"]
ProxyVars == [proxy_keepalive |-> "keep", proxy_protocol |-> "pp", preserve_host |-> "preserve"]
VerifyVars == [verify_peer |-> "ssl"]
RatioVars == [http2_ratio |-> "h2ratio", http3_ratio |-> "h3ratio", force_cleartext |-> "cleartext"]
FastcgiVars == [fastcgi_io |-> "fcgi", document_root |-> "root"]
CompressVars == [compress_min |-> "min"]
ExpiresVars == [expires |-> "expires"]
VarOf == CoreVars @@ ErrorVars @@ ReproxyVars @@ ThrottleVars @@ TimingVars @@ FileVars @@ ListingVars @@ ProxyVars @@ VerifyVars
         @@ RatioVars @@ FastcgiVars @@ CompressVars @@ ExpiresVars
\* on_config_compress and on_config_gzip start from all_off; ON is all_on
OnConfigCompress(c, k) ==
    SetVar(SetVar(SetVar(c, "gz", "gz" \in k.val), "br", "br" \in k.val), "min", IF k.name = "compress" /\ k.type = "scalar" /\ k.val # {} THEN 100 ELSE 0)
\* on_config_send_compressed: OFF, ON or gunzip
OnConfigSendCompressed(c, k) ==
    SetVar(SetVar(c, "sendc", k.val # "OFF"), "gunzip", Vars(c).gunzip \/ k.val = "gunzip")
\* on_config_timeout_io and on_config_timeout_connect of the proxy
OnConfigTimeoutIo(c, k) == IF c.connSet THEN SetVar(c, "io", k.val) ELSE SetVar(SetVar(c, "io", k.val), "conn", k.val)
OnConfigTimeoutConnect(c, k) == SetVar([c EXCEPT !.connSet = TRUE], "conn", k.val)
OnConfigLog(c, k) == SetVar(c, "logs", Append(Vars(c).logs, k.val))
OnConfigErrordoc(c, k) == SetVar(c, "docs", Append(Vars(c).docs, k.val))
\* on_config_send_server_name: OFF and preserve clear the name
OnConfigServer(c, k) ==
    CASE k.name = "server_name" -> [c EXCEPT !.server = k.val]
      [] k.name = "send_server" -> IF k.val = "ON" THEN c ELSE [c EXCEPT !.server = ""]
      [] k.name = "strict_match" -> [c EXCEPT !.hosts[Top(c).host].strict = k.val]
      [] OTHER -> [c EXCEPT !.global = @ \cup {k.name}]
Http1Settings == {"limit_body"}
Http2Settings == {"http2_window"}
Http3Settings == {"http3_window"}
ProxySettings == {"via_header"}
ServerCommands == {"server_name", "send_server", "strict_match", "informational", "duration_stats", "stash"}
                  \cup Http1Settings \cup Http2Settings \cup Http3Settings \cup ProxySettings

\* cmd->cb; hosts, paths and custom-handler open mappings of their own
RunCommand(c, k) ==
    CASE ~k.ok -> Refuse(c)
      [] k.name \in {"hosts", "paths", "custom_handler"} -> SetTop(c, "phase", k.name)
      [] k.name \in ServerCommands -> OnConfigServer(c, k)
      [] k.name \in DOMAIN VarOf -> SetVar(c, VarOf[k.name], k.val)
      [] k.name \in {"compress", "gzip"} -> OnConfigCompress(c, k)
      [] k.name = "send_compressed" -> OnConfigSendCompressed(c, k)
      [] k.name = "proxy_io" -> OnConfigTimeoutIo(c, k)
      [] k.name = "proxy_conn" -> OnConfigTimeoutConnect(c, k)
      [] k.name = "access_log" -> OnConfigLog(c, k)
      [] k.name = "error_doc" -> OnConfigErrordoc(c, k)
      [] k.name = "header" -> OnConfigHeader(c, "headers", k)
      [] k.name = "proxy_header" -> OnConfigHeader(c, "pheaders", k)
      [] k.name = "setenv" -> OnConfigSetenv(InheritEnv(c), k)
      [] k.name = "unsetenv" -> OnConfigUnsetenv(InheritEnv(c), k)
      [] k.name \in Handlers -> OnConfigHandler(c, k)
      [] OTHER -> OnConfigMime(c, k)

-----------------------------------------------------------------------------
(* exit of every configurator, in the order they are registered.           *)

AtPath(c) == Top(c).path # Nil /\ c.paths[Top(c).path].kind # "ext"
CoreExit(c) ==
    CASE Top(c).path # Nil -> [c EXCEPT !.paths[Top(c).path].errors = Vars(c).errors]
      [] Top(c).level = "host" -> [c EXCEPT !.hosts[Top(c).host].push = Vars(c).push, !.hosts[Top(c).host].cross = Vars(c).cross,
                                            !.hosts[Top(c).host].casper = Vars(c).casper]
      [] OTHER -> c
LogExit(c) == IF AtPath(c) THEN [c EXCEPT !.paths[Top(c).path].loggers = Vars(c).logs] ELSE c
FilterExit(c, kind, on, arg) == IF AtPath(c) /\ on THEN CreateFilter(c, kind, arg) ELSE c
CompressExit(c) == FilterExit(c, "compress", Vars(c).gz \/ Vars(c).br, <<Vars(c).gz, Vars(c).br>>)
ExpiresExit(c) == FilterExit(c, "expires", Vars(c).expires # Nil, Vars(c).expires)
ErrordocExit(c) == FilterExit(c, "errordoc", Vars(c).docs # <<>>, Vars(c).docs)
ThrottleExit(c) == FilterExit(c, "throttle", Vars(c).throttle, Nil)
\* h2o_headers_register takes a reference of its own
HeadersExit(c) ==
    LET id == Vars(c).headers
        d  == IF AtPath(c) /\ id # Nil THEN CreateFilter([c EXCEPT !.lists = AddRef(@, id)], "headers", id) ELSE c
    IN  [d EXCEPT !.lists = Release(@, id)]
ProxyExit(c) == [c EXCEPT !.lists = Release(@, Vars(c).pheaders), !.proxyIo = IF Here(c) = 1 THEN Vars(c).io ELSE @]
ReproxyExit(c) == FilterExit(c, "reproxy", Vars(c).reproxy, Nil)
TimingExit(c) == FilterExit(c, "timing", Vars(c).timing, Nil)
OnExit(c) == TimingExit(ReproxyExit(ProxyExit(HeadersExit(ThrottleExit(ErrordocExit(ExpiresExit(CompressExit(LogExit(CoreExit(c))))))))))

\* everything that was written in the mappings around this one, the outermost first
Chain(c) == [i \in DOMAIN c.stack |-> c.stack[i].given]
NoteDone(c) == IF Top(c).path = Nil THEN c ELSE [c EXCEPT !.paths[Top(c).path].chain = Chain(c), !.paths[Top(c).path].done = TRUE]
\* after apply_commands: a host must have `paths`, an extension exactly one handler, the file `hosts`
Missing(c) ==
    CASE Top(c).level = "host" -> \A i \in DOMAIN Top(c).given : Top(c).given[i].name # "paths"
      [] Top(c).level = "ext" -> Len(c.paths[Top(c).path].handlers) # 1
      [] Top(c).level = "global" -> c.hosts = <<>>
      [] OTHER -> FALSE
Leave(c) == IF Missing(c) THEN Refuse(c) ELSE DestroyContext(OnExit(NoteDone(c)))
CloseContext(c) == IF Here(c) = 1 /\ ~Missing(c) THEN [Leave(c) EXCEPT !.status = "done"] ELSE Leave(c)

-----------------------------------------------------------------------------
(* Reading the file.                                                       *)

Menu == cf.scene.menu[Top(cf).level]
NumGiven == Cardinality({i \in DOMAIN Top(cf).given : Top(cf).given[i].name \notin {"hosts", "paths"}})
NotGiven(k) == \A i \in DOMAIN Top(cf).given : Top(cf).given[i].name # k.name
\* one element of the loop of h2o_configurator_apply_commands
Accept(c, k, cmd) ==
    CASE Top(c).level \notin cmd.levels \/ k.type \notin cmd.types -> Refuse(c)
      [] cmd.when = "semi" -> SetTop(c, "semi", Append(Top(c).semi, k))
      [] cmd.when = "deferred" -> SetTop(c, "deferred", Append(Top(c).deferred, k))
      [] OTHER -> RunCommand(c, k)
ReadCommand == \E k \in Menu :
    /\ Top(cf).phase = "read" /\ NotGiven(k)
    /\ k.name \in {"hosts", "paths"} \/ NumGiven < MaxCommands
    /\ cf' = Accept(SetTop(cf, "given", Append(Top(cf).given, k)), k, GetCommand(k.name))
\* the end of the mapping: the semi-deferred commands, then the deferred ones
EndMapping == Top(cf).phase = "read" /\ cf' = SetTop(cf, "phase", "apply")
NextDeferred ==
    /\ Top(cf).phase = "apply"
    /\ cf' = CASE Top(cf).semi # <<>> -> RunCommand(SetTop(cf, "semi", Tail(Top(cf).semi)), Head(Top(cf).semi))
               [] Top(cf).deferred # <<>> -> RunCommand(SetTop(cf, "deferred", Tail(Top(cf).deferred)), Head(Top(cf).deferred))
               [] OTHER -> CloseContext(cf)

Opened(c, level, h, p, slot) == IF c.status = "refused" THEN c ELSE Push(c, CreateContext(c, level, h, p, slot))
\* on_config_hosts: one mapping for each host
OpenHost == \E name \in cf.scene.hosts :
    /\ Top(cf).phase = "hosts" /\ Len(cf.hosts) < Cardinality(cf.scene.hosts)
    /\ cf' = Opened(RegisterHost(cf, name), "host", Len(cf.hosts) + 1, Nil, <<"host", Len(cf.hosts) + 1>>)
EndHosts == Top(cf).phase = "hosts" /\ cf' = IF cf.hosts = <<>> THEN Refuse(cf) ELSE SetTop(cf, "phase", "apply")
\* on_config_paths: one mapping for each path, then the fallback path without commands
OpenPath == \E path \in cf.scene.paths :
    /\ Top(cf).phase = "paths" /\ Len(cf.hosts[Top(cf).host].paths) < cf.scene.most
    /\ cf' = Opened(RegisterPath(cf, Top(cf).host, path), "path", Top(cf).host, Len(cf.paths) + 1, <<"path", Len(cf.paths) + 1>>)
FallbackContext(c, p) == [CreateContext(c, "path", Top(c).host, p, <<"path", p>>) EXCEPT !.phase = "apply"]
EndPaths ==
    /\ Top(cf).phase = "paths"
    /\ cf' = Push(SetTop(cf, "phase", "apply"), FallbackContext(cf, cf.hosts[Top(cf).host].fallback))
\* on_config_custom_handler: the type is defined before its commands are read
DefineDynamic(c, ext, m) == [NewPath(c, Top(c).host, Nil, m, "ext") EXCEPT !.mimes[m] = SetType(@, ext, "dynamic")]
OpenExt(c, id) == Push(c, CreateContext(c, "ext", Top(c).host, id, <<"none", 0>>))
DefineIn(c, ext) == DefineDynamic(c, ext, CurrentMime(c))
OpenCustomHandler == \E ext \in Exts :
    /\ Top(cf).phase = "custom_handler"
    /\ cf' = OpenExt(DefineIn(CloneIfClean(SetTop(cf, "phase", "apply")), ext), Len(cf.paths) + 1)

Start(s) ==
    [stack |-> <<>>, lists |-> <<>>, envs |-> <<>>, mimes |-> <<MimeCreate>>, mime |-> 1, hosts |-> <<>>, paths |-> <<>>,
     server |-> "h2o", global |-> {}, proxyIo |-> 30, connSet |-> FALSE, status |-> "reading", scene |-> s, failed |-> {}]
Init == \E s \in Scenes : cf = Push(Start(s), CreateContext(Start(s), "global", Nil, Nil, <<"global", 0>>))
Step == ReadCommand \/ EndMapping \/ NextDeferred \/ OpenHost \/ EndHosts \/ OpenPath \/ EndPaths \/ OpenCustomHandler
Next == cf.status = "reading" /\ Step

-----------------------------------------------------------------------------
(* What a file means: the commands of the mappings around a path, the      *)
(* innermost and the last one deciding.                                    *)

Flat(p) == FlattenSeq(cf.paths[p].chain)
Given(p, names) == SelectSeq(Flat(p), LAMBDA k : k.name \in names)
Decides(p, names, default) == IF Given(p, names) = <<>> THEN default ELSE Last(Given(p, names)).val
Values(p, name) == [i \in DOMAIN Given(p, {name}) |-> Given(p, {name})[i].val]
Done == {p \in DOMAIN cf.paths : cf.paths[p].done}
Served == {p \in Done : cf.paths[p].kind # "ext"}
Has(p, kind, arg) == \E i \in DOMAIN cf.paths[p].filters : cf.paths[p].filters[i] = <<kind, arg>>
HasAny(p, kind) == \E i \in DOMAIN cf.paths[p].filters : cf.paths[p].filters[i][1] = kind

\* what a handler, a filter or a logger of a path does is decided by the mappings around the path, wherever in its mapping a command stands and whatever the other hosts and paths say
FiltersFollow(p) ==
    /\ Decides(p, {"compress", "gzip"}, {}) = {} <=> ~HasAny(p, "compress")
    /\ Has(p, "compress", <<TRUE, FALSE>>) => Decides(p, {"compress", "gzip"}, {}) = {"gz"}
    /\ Decides(p, {"expires"}, Nil) # Nil <=> Has(p, "expires", Decides(p, {"expires"}, Nil))
    /\ Values(p, "error_doc") # <<>> <=> Has(p, "errordoc", Values(p, "error_doc"))
    /\ Decides(p, {"reproxy"}, FALSE) <=> HasAny(p, "reproxy")
    /\ Decides(p, {"throttle"}, FALSE) <=> HasAny(p, "throttle")
    /\ Decides(p, {"server_timing"}, FALSE) <=> HasAny(p, "timing")
    /\ cf.paths[p].loggers = Values(p, "access_log")
HandlerFollows(p, h) ==
    /\ h.vars.index = Decides(p, {"file_index"}, "html")
    /\ h.vars.etag = Decides(p, {"file_etag"}, TRUE)
    /\ h.vars.sendc = (Decides(p, {"send_compressed"}, "OFF") # "OFF")
    /\ h.vars.io = Decides(p, {"proxy_io"}, 30)
    /\ h.vars.keep = Decides(p, {"proxy_keepalive"}, 2)
    /\ h.vars.fcgi = Decides(p, {"fastcgi_io"}, 30)
    /\ h.vars.ssl = Decides(p, {"verify_peer"}, "verify")
\* What a path and its handlers and filters were made with is what the
\* innermost level that says anything decided.
SettingsFollowTheTree ==
    /\ \A p \in Done : /\ cf.paths[p].errors = Decides(p, {"emit_errors"}, TRUE)
                       /\ \A i \in DOMAIN cf.paths[p].handlers : HandlerFollows(p, cf.paths[p].handlers[i])
    /\ \A p \in Served : FiltersFollow(p)

\* the environment of a path is that of the outer levels, at each level what is unset before what is set
LevelEnv(env, given) ==
    [n \in Names |->
        LET sets == SelectSeq(given, LAMBDA k : k.name = "setenv" /\ k.val[1] = n)
        IN  IF sets # <<>> THEN Last(sets).val[2]
            ELSE IF \E i \in DOMAIN given : given[i].name = "unsetenv" /\ given[i].val = n THEN Nil ELSE env[n]]
RECURSIVE TreeEnv(_)
TreeEnv(chain) == IF chain = <<>> THEN [n \in Names |-> Nil] ELSE LevelEnv(TreeEnv(Front(chain)), Last(chain))
\* The environment of a path is made by the setenv and unsetenv of its levels,
\* the inner ones last (h2o_config_... envconf).
EnvFollowsTheTree == \A p \in Done : ApplyEnv(cf, cf.paths[p].env) = TreeEnv(cf.paths[p].chain)

\* the types a path serves files with are those of the mappings around it
TreeType(p, ext) ==
    LET about == SelectSeq(Flat(p), LAMBDA k : k.name = "settypes" \/ (k.name = "addtypes" /\ k.val[1] = ext) \/ (k.name = "removetypes" /\ k.val = ext))
    IN  IF about = <<>> \/ Last(about).name = "removetypes" \/ Last(about).val[1] # ext THEN Decides(p, {"setdefaulttype"}, "octet")
        ELSE Last(about).val[2]
\* The MIME type of an extension is the one of the last command about it on the
\* way to the path, whoever shares the map.
TypesFollowTheTree ==
    \A p \in {q \in Done : cf.paths[q].kind = "path" /\ Given(q, {"custom_handler"}) = <<>>} : \A e \in Exts :
        TypeByExtension(cf.mimes[cf.paths[p].mime], e) = TreeType(p, e)

\* a shared list of header commands and a MIME map have as many references as holders, so that none is freed too early or kept
ListHolders(id) ==
    Cardinality({<<i, f>> \in (DOMAIN cf.stack) \X {"headers", "pheaders"} : cf.stack[i].vars[f] = id})
    + Cardinality({p \in DOMAIN cf.paths : Has(p, "headers", id)})
    + Cardinality({p \in DOMAIN cf.paths : \E i \in DOMAIN cf.paths[p].handlers :
                                             cf.paths[p].handlers[i].kind = "proxy" /\ cf.paths[p].handlers[i].vars.pheaders = id})
MimeHolders(m) ==
    (IF cf.mime = m THEN 1 ELSE 0) + Cardinality({h \in DOMAIN cf.hosts : cf.hosts[h].mime = m})
    + Cardinality({p \in DOMAIN cf.paths : cf.paths[p].mime = m})
    + Cardinality({<<p, i>> \in (DOMAIN cf.paths) \X (1..MaxCommands) :
                     i \in DOMAIN cf.paths[p].handlers /\ cf.paths[p].handlers[i].mime = m})
\* A MIME map counts the levels, paths and handlers that share it
\* (h2o_mem_addref_shared).
ReferencesAreExact == cf.status # "refused" =>
    /\ \A id \in DOMAIN cf.lists : cf.lists[id].refs = ListHolders(id)
    /\ \A m \in DOMAIN cf.mimes : cf.mimes[m].refs = MimeHolders(m)

\* a request finds the longest path that matches it first
PathsAreSorted == \A h \in DOMAIN cf.hosts : \A i, j \in DOMAIN cf.hosts[h].paths :
    i < j => ~Before(cf.paths[cf.hosts[h].paths[j]].path, cf.paths[cf.hosts[h].paths[i]].path)
\* send-server-name: OFF wins over server-name wherever it stands
ServerNameIsHidden == cf.status = "done" =>
    \A p \in Served : Decides(p, {"send_server"}, "ON") # "ON" => cf.server = ""

\* the header commands of a path are those of the mappings around it (a path-level command must not change another path)
HeadersFollowTheTree == cf.status = "done" =>
    \A p \in Served : \A i \in DOMAIN cf.paths[p].filters :
        cf.paths[p].filters[i][1] = "headers" => cf.lists[cf.paths[p].filters[i][2]].cmds = Values(p, "header")
\* http2-allow-cross-origin-push may be given at the path level
CrossPushFollows == \A p \in Served : cf.paths[p].kind = "path" /\ cf.status = "done" =>
    cf.hosts[cf.paths[p].host].cross = Decides(p, {"cross_push"}, FALSE)
=============================================================================
