------------------------------- MODULE Commands -------------------------------
(***************************************************************************)
(* The data commands of the core modules: the query each one issues, the   *)
(* helper that fills the query in, the parameters it takes beside its key, *)
(* what CommandHandler::Execute checks of them first and the group that    *)
(* may use it.  One definition per source file, or per part of a long one. *)
(***************************************************************************)
EXTENDS TLC

Cmd(query, helper, takes, checks, group) ==
  [query |-> query, helper |-> helper, takes |-> takes, checks |-> checks,
   group |-> group]

ListCommands1 ==
  [ LRESIZE  |-> Cmd("lresize", "Simple", {"pos"}, {"key"}, "l"),
    LGET     |-> Cmd("lget", "RetroLimits", {"page"}, {"key"}, "l"),
    LKEYS    |-> Cmd("lkeys", "RetroLimits", {"page", "pattern"}, {}, "l"),
    LPOS     |-> Cmd("lpos", "SimpleRetro", {"pos"}, {"key"}, "l"),
    LREPEATS |-> Cmd("lrepeats", "SimpleRetro",
                    {"value"}, {"value", "key"}, "l"),
    LRPOP    |-> Cmd("lrop", "Retro", {}, {"key"}, "l"),
    LFPOP    |-> Cmd("lrop", "Retro", {}, {"key"}, "l"),
    LPUSH    |-> Cmd("lpush", "Simple", {"value"}, {"value", "key"}, "l"),
    LEXISTS  |-> Cmd("lexist", "Simple", {"value"}, {"value", "key"}, "l"),
    LCOUNT   |-> Cmd("lcount", "Retro", {}, {"key"}, "l") ]

ListCommands2 ==
  [ LBACK   |-> Cmd("lback", "Retro", {}, {"key"}, "l"),
    LFRONT  |-> Cmd("lfront", "Retro", {}, {"key"}, "l"),
    LPUSHNX |-> Cmd("lpushnx", "Simple", {"value"}, {"value", "key"}, "v"),
    LAVG    |-> Cmd("lavg", "Retro", {}, {"key"}, "v"),
    LHIGH   |-> Cmd("lhigh", "Retro", {}, {"key"}, "v"),
    LLOW    |-> Cmd("llow", "Retro", {}, {"key"}, "v") ]

ListRemovals ==
  [ LPOPBACK  |-> Cmd("lpop_back", "Retro", {}, {"key"}, "l"),
    LPOPFRONT |-> Cmd("lpop_front", "Retro", {}, {"key"}, "l"),
    LPOPALL   |-> Cmd("lpopall", "Simple", {"value"}, {"value", "key"}, "l"),
    LREVERSE  |-> Cmd("lreverse", "Retro", {}, {"key"}, "l"),
    LSORT     |-> Cmd("lsort", "Retro", {}, {"key"}, "l"),
    LDEL      |-> Cmd("ldel", "Simple", {"value"}, {"value", "key"}, "l") ]

VectorEnds ==
  [ VBACK  |-> Cmd("vback", "Retro", {}, {"key"}, "l"),
    VFRONT |-> Cmd("vfront", "Retro", {}, {"key"}, "l") ]

VectorCommands1 ==
  [ VEXISTS  |-> Cmd("vexist", "Simple", {"value"}, {"value", "key"}, "v"),
    VPOS     |-> Cmd("vpos", "SimpleRetro", {"pos"}, {"key"}, "v"),
    VGET     |-> Cmd("vget", "RetroLimits", {"page"}, {"key"}, "v"),
    VCOUNT   |-> Cmd("vcount", "Retro", {}, {"key"}, "v"),
    VRESIZE  |-> Cmd("vresize", "Simple", {"pos"}, {"key"}, "v"),
    VKEYS    |-> Cmd("vkeys", "RetroLimits", {"page", "pattern"}, {}, "v"),
    VDEL     |-> Cmd("vdel", "Simple", {"value"}, {"value", "key"}, "v"),
    VREVERSE |-> Cmd("vreverse", "Retro", {}, {"key"}, "v"),
    VREPEATS |-> Cmd("vrepeats", "Simple", {"value"}, {"value", "key"}, "v"),
    VSORT    |-> Cmd("vsort", "Retro", {}, {"key"}, "v") ]

VectorCommands2 ==
  [ VPUSH     |-> Cmd("vpush", "Simple", {"value"}, {"value", "key"}, "v"),
    VPOPFRONT |-> Cmd("vpop_front", "Retro", {}, {"key"}, "v"),
    VPOPBACK  |-> Cmd("vpop_back", "Retro", {}, {"value", "key"}, "v"),
    VAVG      |-> Cmd("vavg", "Retro", {}, {"key"}, "v"),
    VHIGH     |-> Cmd("vhigh", "Retro", {}, {"key"}, "v"),
    VLOW      |-> Cmd("vlow", "Retro", {}, {"key"}, "v"),
    VSUM      |-> Cmd("vsum", "Retro", {}, {"key"}, "v"),
    VPUSHNX   |-> Cmd("vpushnx", "Simple", {"value"}, {"value", "key"}, "v"),
    VFIND     |-> Cmd("vdel", "RetroLimits",
                     {"value"}, {"value", "key"}, "l") ]

MapCommands ==
  [ HGET    |-> Cmd("hget", "HeshRetro", {"hash"}, {"key", "hash"}, "m"),
    HCOUNT  |-> Cmd("hlist", "Retro", {}, {"key"}, "m"),
    HEXISTS |-> Cmd("hexists", "HeshRetro", {"hash"}, {"key", "hash"}, "m"),
    HSTRLEN |-> Cmd("hstrlen", "HeshRetro", {"hash"}, {"key", "hash"}, "m"),
    HVALS   |-> Cmd("hvals", "RetroLimits", {"page"}, {"key"}, "m"),
    HGETALL |-> Cmd("hgetall", "RetroLimits", {"page"}, {"key"}, "m"),
    HDEL    |-> Cmd("hdel", "HeshRetro", {"hash"}, {"key", "hash"}, "m"),
    HSET    |-> Cmd("hset", "SimpleHesh",
                   {"value", "hash"}, {"value", "key", "hash"}, "m"),
    HSETNX  |-> Cmd("hsetnx", "SimpleHesh",
                   {"value", "hash"}, {"value", "key", "hash"}, "m") ]

MapListings ==
  [ HKEYS |-> Cmd("hfind", "RetroLimits", {"page", "pattern"}, {}, "m"),
    HLIST |-> Cmd("hlist", "RetroLimits", {"page"}, {"key"}, "m") ]

MultiMapCommands ==
  [ MGET     |-> Cmd("mget", "RetroLimits", {"page"}, {"key"}, "x"),
    MCOUNT   |-> Cmd("mget", "Retro", {}, {"key"}, "x"),
    MPUSH    |-> Cmd("mset", "SimpleHesh",
                    {"value", "hash"}, {"value", "key", "hash"}, "x"),
    MPUSHNX  |-> Cmd("msetnx", "SimpleHesh",
                    {"value", "hash"}, {"value", "key", "hash"}, "v"),
    MKEYS    |-> Cmd("mkeys", "RetroLimits", {"page", "pattern"}, {}, "x"),
    MDEL     |-> Cmd("mdel", "Simple", {"hash"}, {"key", "hash"}, "x"),
    MREPEATS |-> Cmd("mrepeats", "Simple", {"hash"}, {"key", "hash"}, "x"),
    MVALS    |-> Cmd("mvals", "RetroLimits", {"page"}, {"key"}, "x"),
    MGETALL  |-> Cmd("mgetall", "RetroLimits", {"page"}, {"key"}, "x"),
    MITER    |-> Cmd("miter", "RetroLimits",
                    {"hash", "page"}, {"key", "hash"}, "x") ]

GeoCommands1 ==
  [ GAPUB    |-> Cmd("geoadd_pub", "AddPub", {"place"}, {"key"}, "g"),
    GEOADD   |-> Cmd("geoadd", "HeshVal", {"place"}, {"key"}, "g"),
    GEOADDNX |-> Cmd("geoaddnx", "HeshVal", {"place"}, {"key"}, "g"),
    GEOGET   |-> Cmd("geoget", "Retro", {}, {"key"}, "g"),
    GKEYS    |-> Cmd("gkeys", "RetroLimits",
                    {"page", "pattern"}, {"key"}, "g"),
    GCALC    |-> Cmd("geocalc", "Simple", {"other"}, {}, "g") ]

GeoCommands2 ==
  [ GDIST  |-> Cmd("geodistance", "RetroLimits",
                  {"page", "number"}, {"key"}, "g"),
    GREM   |-> Cmd("georem", "SimpleRetro", {"number"}, {}, "g"),
    GLOGET |-> Cmd("geoget_custom", "SimpleType", {}, {"key"}, "g"),
    GLAGET |-> Cmd("geoget_custom", "SimpleType", {}, {"key"}, "g") ]

OperationCommands ==
  [ INCR   |-> Cmd("op", "Operation", {}, {"key"}, "k"),
    INCRBY |-> Cmd("op", "Operation", {"number"}, {"key", "num"}, "k"),
    AVG    |-> Cmd("op", "Operation", {"number"}, {"key", "num"}, "k"),
    DECR   |-> Cmd("op", "Operation", {}, {"key"}, "k"),
    DECRBY |-> Cmd("op", "Operation", {"number"}, {"key", "num"}, "k"),
    DIV    |-> Cmd("op", "Operation", {"number"}, {"key", "num"}, "k"),
    MULT   |-> Cmd("op", "Operation", {"number"}, {"key", "num"}, "k"),
    SQRT   |-> Cmd("op", "Operation", {}, {"key"}, "k") ]

KeyListings ==
  [ KEYS   |-> Cmd("keys", "RetroLimits", {"page", "pattern"}, {}, "k"),
    SEARCH |-> Cmd("search", "RetroLimits", {"page", "pattern"}, {}, "k"),
    RKEY   |-> Cmd("random", "Quick", {}, {}, "k") ]

KeyCommands1 ==
  [ CHAR   |-> Cmd("char", "Simple", {"pos"}, {"key"}, "k"),
    SET    |-> Cmd("set", "Simple", {"value"}, {"value", "key"}, "k"),
    SETNX  |-> Cmd("setnx", "Simple", {"value"}, {"value", "key"}, "k"),
    SETTX  |-> Cmd("settx", "Simple", {"value"}, {"value", "key"}, "k"),
    GETSET |-> Cmd("getset", "Simple", {"value"}, {"value", "key"}, "k"),
    APPEND |-> Cmd("append", "Simple", {"value"}, {"value", "key"}, "k"),
    COUNT  |-> Cmd("count", "Retro", {"pattern"}, {}, "k"),
    OCCURS |-> Cmd("get_occurs", "Simple", {"value"}, {"value", "key"}, "k"),
    GET    |-> Cmd("get", "Retro", {}, {"key"}, "k") ]

KeyCommands2 ==
  [ STRLEN     |-> Cmd("strlen", "Retro", {}, {"key"}, "k"),
    GETDEL     |-> Cmd("getdel", "Retro", {}, {"key"}, "k"),
    SUBSTR     |-> Cmd("get_substr", "RetroLimits", {"page"}, {"key"}, "k"),
    GETEXP     |-> Cmd("getexp", "IDRetro", {"number"}, {"key"}, "e"),
    ISALPHA    |-> Cmd("alpha", "Retro", {}, {"key"}, "k"),
    ISNUM      |-> Cmd("isnum", "Retro", {}, {"key"}, "k"),
    GETPERSIST |-> Cmd("getpersist", "Retro", {}, {"key"}, "k"),
    WDEL       |-> Cmd("wdel", "Retro", {"pattern"}, {}, "k"),
    ISBOOL     |-> Cmd("isbool", "Retro", {}, {"key"}, "k"),
    ASBOOL     |-> Cmd("asbool", "Retro", {}, {"key"}, "k") ]

KeyCommands3 ==
  [ ISMATCH |-> Cmd("ismatch", "Simple", {"value"}, {"value", "key"}, "k"),
    INSERT  |-> Cmd("insert", "Simple",
                   {"value", "pos"}, {"value", "key"}, "k"),
    TOLOWER |-> Cmd("modify", "RetroFunc", {}, {"key"}, "k"),
    TOUPPER |-> Cmd("modify", "RetroFunc", {}, {"key"}, "k"),
    TOCAP   |-> Cmd("modify", "RetroFunc", {}, {"key"}, "k") ]

HintCommands1 ==
  [ TRANSFER |-> Cmd("transfer", "Transfer", {"other"}, {"key"}, "h"),
    RENAME   |-> Cmd("rename", "SimpleRetro",
                    {"other"}, {"key", "hash"}, "h"),
    RENAMENX |-> Cmd("renamenx", "SimpleRetro",
                    {"other"}, {"key", "hash"}, "h"),
    DEL      |-> Cmd("del", "Retro", {}, {"key"}, ""),
    COPY     |-> Cmd("copy", "SimpleRetro", {"other"}, {"key", "hash"}, "h"),
    EXISTS   |-> Cmd("exists", "Retro", {}, {"key"}, "h"),
    MOVE     |-> Cmd("move", "Simple", {"other"}, {"key"}, "h"),
    TYPE     |-> Cmd("type", "SimpleType", {}, {"key"}, "h"),
    TOUCH    |-> Cmd("touch", "Simple", {"other"}, {}, "h") ]

HintCommands2 ==
  [ NTOUCH |-> Cmd("ntouch", "Simple", {"other"}, {}, "h"),
    CLONE  |-> Cmd("clone", "SimpleRetro", {"other"}, {"key"}, "h"),
    DIFF   |-> Cmd("diff", "RetroLimits", {"page", "other"}, {"key"}, "h") ]

TotalCommands ==
  [ GLS   |-> Cmd("glist", "GList", {}, {}, "w"),
    LS    |-> Cmd("list", "List", {}, {}, "w"),
    TOTAL |-> Cmd("total", "Total", {}, {}, "w") ]

(* The OP_TYPE the commands on numbers give to op_query.                   *)
Operations ==
  [INCR |-> "INCR", INCRBY |-> "ADD", AVG |-> "AVG", DECR |-> "DECR",
   DECRBY |-> "MIN", DIV |-> "DIV", MULT |-> "MULT", SQRT |-> "SQRT"]

Commands ==
  ListCommands1 @@ ListCommands2 @@ ListRemovals
    @@ VectorEnds @@ VectorCommands1 @@ VectorCommands2
    @@ MapCommands @@ MapListings @@ MultiMapCommands
    @@ GeoCommands1 @@ GeoCommands2 @@ OperationCommands
    @@ KeyListings @@ KeyCommands1 @@ KeyCommands2
    @@ KeyCommands3 @@ HintCommands1 @@ HintCommands2
    @@ TotalCommands

=============================================================================
