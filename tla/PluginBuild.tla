---------------------------- MODULE PluginBuild ----------------------------
(***************************************************************************)
(* The installation of BytePS from its source tree (src/setup.py): ps-lite *)
(* and the server library are built first, then one extension for each of  *)
(* TensorFlow, PyTorch and MXNet.  A plugin that cannot be built is        *)
(* skipped unless the user asked for it.  The plugins share one dictionary *)
(* of compiler options that each of them extends, and a second             *)
(* installation in the same tree finds the ps-lite archive that an earlier *)
(* one left.                                                               *)
(*                                                                         *)
(* What the compilers and the make processes do is a choice between        *)
(* success and failure.  Of the options, the model keeps the C++ ABI       *)
(* (_GLIBCXX_USE_CXX11_ABI) and the macros HAVE_CUDA and MXNET_USE_MKLDNN. *)
(***************************************************************************)
EXTENDS Integers, Sequences, SequencesExt

CONSTANTS
  Machines,         \* what may be installed: the compiler, CUDA, MPI and the frameworks
  Environments(_),  \* the BYTEPS_* variables a user may choose on a machine
  Attempts          \* bound: the installations run in one tree

NoAbi == 2         \* no _GLIBCXX_USE_CXX11_ABI flag is known
DefaultAbi == 1    \* what the compiler does without the flag
Plugin == {"tensorflow", "torch", "mxnet"}

VARIABLES
  machine,   \* the machine, fixed
  env,       \* BYTEPS_WITH_*, BYTEPS_WITHOUT_*, BYTEPS_USE_MPI, the CUDA and UCX paths,
             \* MXNET_USE_MKLDNN, and whether the RDMA headers are installed
  pc,        \* where build_extensions is
  attempt,   \* the number of this installation
  abi,       \* has_cxx_flag and glibcxx_flag: the ABI of options['COMPILE_FLAGS']
  quote,     \* make_option holds an opening quote only
  libps,     \* what 3rdparty/ps-lite/build/libps.a was made with and when, {} without the file
  deps,      \* 3rdparty/ps-lite/deps/lib exists
  ucx,       \* build_ucx has installed UCX
  macro,     \* options['MACROS'] has HAVE_CUDA
  built,     \* built_plugins, as the plugins with TRUE and those with FALSE
  ext,       \* what the extensions of this installation were compiled with
  stub,      \* libcuda.so.1 is in the stubs directory
  outcome    \* how the installation ended

vars == <<machine, env, pc, attempt, abi, quote, libps, deps, ucx, macro, built, ext, stub, outcome>>

Excluded(p) == p \in env.without
Ended == pc = "ended"

\* A new run of setup.py: only the files survive from the one before.
Started ==
  /\ pc' = "detect"
  /\ abi' = NoAbi /\ quote' = FALSE /\ macro' = FALSE
  /\ built' = [yes |-> {}, no |-> {}]
  /\ ext' = <<>>
  /\ outcome' = "none"

Init ==
  /\ machine \in Machines /\ env \in Environments(machine)
  /\ pc = "detect" /\ attempt = 1
  /\ abi = NoAbi /\ quote = FALSE /\ macro = FALSE
  /\ libps = {} /\ deps = FALSE /\ ucx = FALSE /\ stub = FALSE
  /\ built = [yes |-> {}, no |-> {}]
  /\ ext = <<>>
  /\ outcome = "none"

Raise ==
  /\ pc' = "ended"
  /\ outcome' = "failed"

-----------------------------------------------------------------------------
(* ps-lite and the server library *)

\* Mutant: TensorFlow is asked for its flags when it is excluded, too.
FlagOfExcluded ==
  LET tf == machine.tensorflow IN IF ~tf.installed \/ ~tf.flags THEN NoAbi ELSE tf.abi

\* TensorFlow's ABI flag; one without get_compile_flags leaves make_option half written.
FlagOfTensorFlow ==
  LET tf == machine.tensorflow IN
    IF Excluded("tensorflow") \/ ~tf.installed \/ ~tf.flags THEN NoAbi ELSE tf.abi

\* PyTorch's flag counts when TensorFlow has none; the error raised when the two
\* differ is caught by the except clause around it.
FlagOfTorch(flag) ==
  IF Excluded("torch") \/ ~machine.torch.installed \/ flag # NoAbi
    THEN flag ELSE machine.torch.abi

Detect ==
  /\ pc = "detect"
  /\ abi' = FlagOfTorch(FlagOfTensorFlow)
  /\ quote' = /\ ~Excluded("tensorflow")
              /\ machine.tensorflow.installed /\ ~machine.tensorflow.flags
  /\ pc' = "make"
  /\ UNCHANGED <<machine, env, attempt, libps, deps, ucx, macro, built, ext, stub, outcome>>

Compiled == IF abi = NoAbi THEN DefaultAbi ELSE abi

\* UCX is built here unless a prebuilt one is named.
ShouldBuildUcx == env.ucx = "build"
UseUcx == env.ucx # "no"

HasRdmaHeader == env.rdma

\* build_ucx installs UCX, or raises before it has.
BuildUcx(ok) == ucx \/ (ShouldBuildUcx /\ ok)

\* The archive that make makes now; one that is there may be up to date for it.
Archive == [abi |-> Compiled, ucx |-> UseUcx, rdma |-> HasRdmaHeader, attempt |-> attempt]
Archives == IF libps = {} THEN {{Archive}} ELSE {{Archive}, libps}

\* UCX and the archive with its libraries are made unless both are there.  When build_ucx
\* or make fails, it may have got to any of its files.
MakePsLite ==
  /\ pc = "make"
  /\ \/ libps # {} /\ deps /\ pc' = "options" /\ UNCHANGED <<libps, deps, ucx, outcome>>
     \/ /\ (libps = {} \/ ~deps) /\ ~quote
        /\ ucx' = BuildUcx(TRUE)
        /\ libps' \in Archives /\ deps' = TRUE
        /\ pc' = "options" /\ UNCHANGED outcome
     \/ /\ libps = {} \/ ~deps
        /\ ucx' \in {BuildUcx(ok) : ok \in BOOLEAN}
        /\ libps' \in {libps} \cup Archives /\ deps' \in {deps, TRUE}
        /\ Raise
  /\ UNCHANGED <<machine, env, attempt, abi, quote, macro, built, ext, stub>>

\* The place in a list of flags of the first that compiles, links and loads, 0 if none.
FirstThatWorks(flags, works) == SelectInSeq(flags, LAMBDA f : f \in works)

GetCppFlags  == FirstThatWorks(<<"default", "libc++">>, machine.cpp)
GetLinkFlags == FirstThatWorks(<<"ld", "libtool">>, machine.link)
GetMpiFlags  == env.mpi => machine.mpi

\* get_common_options: what it raises is not caught.
CommonOptions ==
  /\ pc = "options"
  /\ IF GetCppFlags # 0 /\ GetLinkFlags # 0 /\ GetMpiFlags
       THEN pc' = "server" /\ UNCHANGED outcome
       ELSE Raise
  /\ UNCHANGED <<machine, env, attempt, abi, quote, libps, deps, ucx, macro, built, ext, stub>>

\* The UCX libraries are linked from where build_ucx puts them or the prebuilt ones are.
BuildServer ==
  /\ pc = "server"
  /\ \/ (ShouldBuildUcx => ucx) /\ pc' = "tensorflow" /\ UNCHANGED outcome
     \/ Raise
  /\ UNCHANGED <<machine, env, attempt, abi, quote, libps, deps, ucx, macro, built, ext, stub>>

-----------------------------------------------------------------------------
(* The plugins *)

\* PyTorch has CUDA if a program with its CUDA header compiles.
IsTorchCuda == machine.torch.cuda /\ machine.torch.header

\* What MXNet was built with: MXNet tells, or else readelf, from the libraries it needs.
Seen(feature) ==
  LET mx == machine.mxnet IN
    \/ mx.tells = "runtime" /\ mx[feature]
    \/ mx.tells = "readelf" /\ feature \in mx.needed

IsMxCuda   == Seen("cuda")
IsMxMkldnn == IF machine.mxnet.tells = "nothing" THEN env.mkldnn ELSE Seen("mkldnn")

Succeed(p, next, cuda, flag) ==
  /\ built' = [built EXCEPT !.yes = @ \cup {p}]
  /\ ext' = Append(ext, [plugin |-> p, cuda |-> cuda, abi |-> flag, mkldnn |-> p = "mxnet" /\ IsMxMkldnn])
  /\ pc' = next
  /\ UNCHANGED outcome

\* The except clause around a plugin: skipped, or raised again if it was asked for.
Fail(p, next) ==
  /\ IF p \in env.with
       THEN Raise /\ UNCHANGED built
       ELSE pc' = next /\ UNCHANGED outcome
            /\ built' = [built EXCEPT !.no = @ \cup {p}]
  /\ UNCHANGED ext

\* get_cuda_dirs compiles a program with CUDA where the variables say, or the default.
CudaFound == machine.cuda = IF env.cuda = "unset" THEN "/usr/local/cuda" ELSE env.cuda

\* A framework without CUDA cannot share options that name CUDA (check_macro).
CudaRefused(cuda) == ~cuda /\ macro

CheckTfVersion    == machine.tensorflow.installed /\ machine.tensorflow.recent
CheckTorchVersion == machine.torch.installed /\ machine.torch.recent /\ machine.torch.parsed
CheckMxVersion    == machine.mxnet.installed /\ machine.mxnet.recent

\* The fallback for a TensorFlow that cannot tell its flags: the libraries and the ABI
\* a small extension can be loaded with.
GetTfLibs == FirstThatWorks(<<"tensorflow_framework", "none">>, machine.tensorflow.libs)
GetTfAbi  == FirstThatWorks(<<0, 1>>, {machine.tensorflow.abi}) - 1
GetTfFlags ==
  IF machine.tensorflow.flags
    THEN {machine.tensorflow.abi}
    ELSE IF GetTfLibs # 0 /\ GetTfAbi # -1 THEN {GetTfAbi} ELSE {}

\* TensorFlow's flags follow those of the options.
TensorFlowAbi(flag) == IF flag = NoAbi THEN Compiled ELSE flag

\* build_tf_extension up to the compilation: "We assume we have CUDA".
TensorFlowReady == CheckTfVersion /\ GetTfFlags # {} /\ CudaFound

BuildTensorFlow ==
  /\ pc = "tensorflow"
  /\ \/ /\ Excluded("tensorflow") /\ pc' = "torch"
        /\ UNCHANGED <<macro, built, ext, outcome>>
     \/ /\ ~Excluded("tensorflow") /\ TensorFlowReady
        /\ macro' = TRUE
        /\ \/ \E flag \in GetTfFlags :
               Succeed("tensorflow", "torch", TRUE, TensorFlowAbi(flag))
           \/ Fail("tensorflow", "torch")         \* with the options already extended
     \/ /\ ~Excluded("tensorflow") /\ ~TensorFlowReady
        /\ Fail("tensorflow", "torch") /\ UNCHANGED macro
  /\ UNCHANGED <<machine, env, attempt, abi, quote, libps, deps, ucx, stub>>

\* The ABI macro is PyTorch's own, but a flag among the options comes after it.
TorchAbi == IF abi # NoAbi THEN abi ELSE machine.torch.abi

\* build_torch_extension copies the macros, so the options stay as they are.
TorchReady == CheckTorchVersion /\ ~CudaRefused(IsTorchCuda)

BuildTorch ==
  /\ pc = "torch"
  /\ \/ /\ Excluded("torch") /\ pc' = "link" /\ UNCHANGED <<built, ext, outcome>>
     \/ /\ ~Excluded("torch") /\ TorchReady
        /\ Succeed("torch", "link", IsTorchCuda, TorchAbi)
     \/ /\ ~Excluded("torch") /\ Fail("torch", "link")
  /\ UNCHANGED <<machine, env, attempt, abi, quote, libps, deps, ucx, macro, stub>>

LinkStub ==
  /\ pc = "link"
  /\ \/ Excluded("mxnet") /\ pc' = "finish" /\ UNCHANGED stub
     \/ ~Excluded("mxnet") /\ pc' = "mxnet" /\ stub' = TRUE
  /\ UNCHANGED <<machine, env, attempt, abi, quote, libps, deps, ucx, macro, built, ext, outcome>>

\* The finally clause removes the link however the build ended.
Unlinked(ok) == FALSE

GetMxLibs == IF machine.mxnet.located THEN FirstThatWorks(<<"mxnet", "none">>, machine.mxnet.libs) ELSE 0

\* get_cuda_dirs is called when MXNet has CUDA and TensorFlow did not add the macro.
MXNetReady ==
  /\ CheckMxVersion /\ GetMxLibs # 0
  /\ ~CudaRefused(IsMxCuda)
  /\ IsMxCuda /\ ~macro => CudaFound

BuildMXNet ==
  /\ pc = "mxnet"
  /\ \/ /\ MXNetReady
        /\ macro' = (macro \/ IsMxCuda)
        /\ Succeed("mxnet", "finish", macro', Compiled)
        /\ stub' = Unlinked(TRUE)
     \/ /\ Fail("mxnet", "finish") /\ stub' = Unlinked(FALSE)
        /\ macro' \in {macro, macro \/ (MXNetReady /\ IsMxCuda)}
  /\ UNCHANGED <<machine, env, attempt, abi, quote, libps, deps, ucx>>

\* Nothing to build but the server is fine; nothing built of what was tried is not.
Finish ==
  /\ pc = "finish"
  /\ IF built.yes = {} /\ built.no # {}
       THEN Raise
       ELSE pc' = "ended" /\ outcome' = "installed"
  /\ UNCHANGED <<machine, env, attempt, abi, quote, libps, deps, ucx, macro, built, ext, stub>>

\* The user runs setup.py again in the same tree, perhaps with other variables.
Again ==
  /\ Ended /\ attempt < Attempts
  /\ attempt' = attempt + 1
  /\ env' \in Environments(machine)
  /\ Started
  /\ UNCHANGED <<machine, libps, deps, ucx, stub>>

Terminated == Ended /\ attempt = Attempts /\ UNCHANGED vars

Build ==
  \/ Detect \/ MakePsLite \/ CommonOptions \/ BuildServer
  \/ BuildTensorFlow \/ BuildTorch \/ LinkStub \/ BuildMXNet \/ Finish

Next == Build \/ Again \/ Terminated

Spec == Init /\ [][Next]_vars

-----------------------------------------------------------------------------
\* An installation that reports success has built every plugin that the user asked
\* for and did not exclude, no plugin that was excluded, and at least one plugin
\* unless all are excluded (the except clauses and lines 1062-1068).
InstalledAsAsked ==
  outcome = "installed" =>
    /\ env.with \ env.without \subseteq built.yes
    /\ built.yes \cap env.without = {}
    /\ built.yes # {} \/ Plugin \subseteq env.without

\* setup.py can tell what PyTorch or MXNet was built with.
Told(p) ==
  IF p = "torch" THEN machine.torch.header
  ELSE \/ machine.mxnet.tells = "runtime"
       \/ /\ machine.mxnet.tells = "readelf"
          /\ machine.mxnet.needed = {f \in {"cuda", "mkldnn"} : machine.mxnet[f]}

\* The PyTorch and MXNet extensions use CUDA, and MXNet's the layout of MKLDNN, exactly if
\* their framework does and setup.py can tell (lines 612-630, 694-719, 820-832), whatever
\* a plugin built or skipped before them did to the options the plugins share.  Where it
\* cannot tell, an extension may lack CUDA, but never uses it without its framework.
FeaturesOfFramework ==
  \A i \in DOMAIN ext : LET p == ext[i].plugin IN
    p # "tensorflow" =>
      /\ ext[i].cuda => machine[p].cuda
      /\ Told(p) => ext[i].cuda = machine[p].cuda /\ (p = "mxnet" => ext[i].mkldnn = machine.mxnet.mkldnn)

\* PyTorch's ABI is found to differ from TensorFlow's.
AbisDiffer ==
  LET tf == machine.tensorflow
  IN  ~Excluded("tensorflow") /\ tf.installed /\ tf.flags /\ tf.abi # NoAbi /\ tf.abi # machine.torch.abi

\* An extension is compiled with the ABI of the framework that loads it, but for one case:
\* the error of line 956, that the ABIs of TensorFlow and PyTorch differ, is swallowed by
\* the except clause around it, and PyTorch's extension gets TensorFlow's ABI.
AbiOfFramework ==
  \A i \in DOMAIN ext : LET p == ext[i].plugin IN
    machine[p].abi # NoAbi =>
      ext[i].abi = IF p = "torch" /\ AbisDiffer THEN machine.tensorflow.abi ELSE machine[p].abi

\* The server is linked with a ps-lite of its own ABI and transport, unless an earlier
\* installation, with other variables, has left an archive (lines 968-969): that is the
\* only way to another one, however the earlier installations ended.
ArchiveOfInstallation ==
  pc \notin {"detect", "make"} /\ outcome # "failed" =>
    \E l \in libps : l.attempt = attempt => l.abi = Compiled /\ l.ucx = UseUcx /\ l.rdma = HasRdmaHeader
=============================================================================
