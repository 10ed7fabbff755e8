------------------------------ MODULE QueryTable ------------------------------
(***************************************************************************)
(* The query classes (query.h): the QUERY_TYPE by which Prepare admits a   *)
(* query and the type of key it is for (base_request).  The chunks follow  *)
(* the order of the file.                                                  *)
(***************************************************************************)
EXTENDS TLC

Q(type, base) == [type |-> type, base |-> base]

Queries1 ==
  [ sort     |-> Q("SORT", "none"),
    rename   |-> Q("RENAME", "none"),
    renamenx |-> Q("RENAMENX", "none"),
    diff     |-> Q("DIFF", "none"),
    del      |-> Q("DELETE", "none") ]

Queries2 ==
  [ transfer |-> Q("TRANSFER", "none"),
    move     |-> Q("MOVE", "none"),
    clone    |-> Q("CLONE", "none"),
    copy     |-> Q("COPY", "none"),
    exists   |-> Q("EXISTS", "none"),
    hstrlen  |-> Q("READ", "MAP") ]

Queries3 ==
  [ type       |-> Q("TYPE", "none"),
    total      |-> Q("SKIP", "none"),
    glist      |-> Q("SKIP", "none"),
    list       |-> Q("SKIP", "none"),
    test_dump  |-> Q("SKIP", "none"),
    getpersist |-> Q("READ", "KEY"),
    getdel     |-> Q("READ", "KEY"),
    insert     |-> Q("READ", "KEY"),
    char       |-> Q("READ", "KEY"),
    getset     |-> Q("READ", "KEY") ]

Queries4 ==
  [ touch    |-> Q("SKIP", "none"),
    ntouch   |-> Q("SKIP", "none"),
    count    |-> Q("SKIP", "KEY"),
    sflush   |-> Q("SKIP", "none"),
    mrepeats |-> Q("READ", "MMAP"),
    msetnx   |-> Q("WRITE", "MMAP"),
    mset     |-> Q("WRITE", "MMAP"),
    hsetnx   |-> Q("READ_ALLOW", "MAP"),
    hset     |-> Q("WRITE", "MAP"),
    georem   |-> Q("SKIP", "GEO") ]

Queries5 ==
  [ geocalc       |-> Q("SKIP", "GEO"),
    geoadd_pub    |-> Q("WRITE", "GEO"),
    geoadd        |-> Q("WRITE", "GEO"),
    geoaddnx      |-> Q("WRITE", "GEO"),
    alpha         |-> Q("READ", "KEY"),
    geoget_custom |-> Q("READ", "GEO"),
    geoget        |-> Q("READ", "GEO"),
    lpush         |-> Q("WRITE", "LIST"),
    vpush         |-> Q("WRITE", "VECTOR") ]

Queries6 ==
  [ vsum    |-> Q("READ", "VECTOR"),
    llow    |-> Q("READ", "LIST"),
    lhigh   |-> Q("READ", "LIST"),
    vlow    |-> Q("READ", "VECTOR"),
    vhigh   |-> Q("READ", "VECTOR"),
    lpushnx |-> Q("WRITE", "LIST"),
    vpushnx |-> Q("WRITE", "VECTOR"),
    vget    |-> Q("READ", "VECTOR"),
    vresize |-> Q("READ", "VECTOR"),
    lexist  |-> Q("READ", "LIST") ]

Queries7 ==
  [ vexist   |-> Q("READ", "VECTOR"),
    vrepeats |-> Q("READ", "VECTOR"),
    lrepeats |-> Q("READ", "LIST"),
    lresize  |-> Q("READ", "LIST"),
    vcount   |-> Q("READ", "VECTOR"),
    lcount   |-> Q("READ", "LIST"),
    lrop     |-> Q("READ", "LIST"),
    lrfront  |-> Q("READ", "LIST"),
    lfront   |-> Q("READ", "LIST") ]

Queries8 ==
  [ lback      |-> Q("READ", "LIST"),
    lget       |-> Q("READ", "LIST"),
    vfront     |-> Q("READ", "VECTOR"),
    vback      |-> Q("READ", "VECTOR"),
    setnx      |-> Q("WRITE", "KEY"),
    settx      |-> Q("WRITE", "KEY"),
    set        |-> Q("WRITE", "KEY"),
    lpop_front |-> Q("READ", "LIST"),
    lpop_back  |-> Q("READ", "LIST"),
    vpop_front |-> Q("READ", "VECTOR") ]

Queries9 ==
  [ vpop_back |-> Q("READ", "VECTOR"),
    vsort     |-> Q("READ", "VECTOR"),
    lsort     |-> Q("READ", "LIST"),
    random    |-> Q("SKIP", "KEY"),
    vpos      |-> Q("READ", "VECTOR"),
    lpos      |-> Q("READ", "LIST"),
    lavg      |-> Q("READ", "LIST"),
    vavg      |-> Q("READ", "VECTOR"),
    vreverse  |-> Q("READ", "VECTOR"),
    lreverse  |-> Q("READ", "LIST") ]

Queries10 ==
  [ vkeys   |-> Q("SKIP", "LIST"),
    lkeys   |-> Q("SKIP", "LIST"),
    vfind   |-> Q("ITER", "VECTOR"),
    lpopall |-> Q("ITER", "LIST"),
    mdel    |-> Q("DELETE", "MMAP"),
    ldel    |-> Q("DELETE", "LIST"),
    vdel    |-> Q("DELETE", "VECTOR"),
    modify  |-> Q("READ", "KEY"),
    hdel    |-> Q("DELETE", "MAP") ]

Queries11 ==
  [ mget       |-> Q("READ", "MMAP"),
    op         |-> Q("WRITE", "KEY"),
    hget       |-> Q("READ", "MAP"),
    get        |-> Q("READ", "KEY"),
    getexp     |-> Q("READ", "KEY"),
    get_occurs |-> Q("READ", "KEY"),
    get_substr |-> Q("WRITE", "KEY"),
    strlen     |-> Q("READ", "KEY"),
    append     |-> Q("WRITE", "KEY"),
    hexists    |-> Q("EXISTS", "MAP") ]

Queries12 ==
  [ geodistance |-> Q("SKIP", "GEO"),
    future_list |-> Q("SKIP", "none"),
    expire_list |-> Q("SKIP", "none"),
    setex       |-> Q("WRITE", "KEY"),
    future_del  |-> Q("FUTURE", "KEY"),
    future      |-> Q("FUTURE", "KEY"),
    dbreset     |-> Q("SKIP", "none"),
    expire      |-> Q("EXPIRE", "KEY"),
    expireat    |-> Q("READ", "KEY"),
    future_exec |-> Q("FUTURE_RUN", "KEY") ]

Queries13 ==
  [ expire_del |-> Q("READ", "KEY"),
    mvals      |-> Q("READ", "MMAP"),
    hvals      |-> Q("READ", "MAP"),
    mgetall    |-> Q("READ", "MMAP"),
    miter      |-> Q("READ", "MMAP"),
    hgetall    |-> Q("READ", "MAP"),
    hlist      |-> Q("READ", "MAP"),
    mexists    |-> Q("ITER", "MMAP"),
    mkeys      |-> Q("SKIP", "MMAP"),
    hwdel      |-> Q("ITER", "MAP") ]

Queries14 ==
  [ wdel    |-> Q("SKIP", "KEY"),
    search  |-> Q("SKIP", "KEY"),
    gkeys   |-> Q("SKIP", "GEO"),
    hfind   |-> Q("SKIP", "MAP"),
    keys    |-> Q("SKIP", "KEY"),
    dbsize  |-> Q("SKIP", "none"),
    isnum   |-> Q("READ", "KEY"),
    isbool  |-> Q("READ", "KEY"),
    asbool  |-> Q("READ", "KEY"),
    ismatch |-> Q("READ", "KEY") ]

Queries ==
  Queries1 @@ Queries2 @@ Queries3 @@ Queries4 @@ Queries5 @@ Queries6 @@ Queries7
    @@ Queries8 @@ Queries9 @@ Queries10 @@ Queries11 @@ Queries12 @@ Queries13 @@ Queries14

=============================================================================
