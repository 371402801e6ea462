---------------------------- MODULE ManifestLoad -----------------------------
(***************************************************************************)
(* clib_package_new_from_slug() of hw-16: a package's manifest is read     *)
(* from the manifest cache or downloaded, as clib.json or else as          *)
(* package.json, with three attempts each.  The line numbers are those of  *)
(* hw-16/1 (clib-package-patch1.c).                                        *)
(*                                                                         *)
(* A slug is [repo, version], a manifest [name, version, deps, install]:   *)
(* its name need not be that of the repository.                            *)
(***************************************************************************)
EXTENDS Integers, Sequences

CONSTANTS
  Slugs,
  Names,       \* of packages
  Versions,
  Master,      \* DEFAULT_REPO_VERSION
  NoVersion    \* a manifest without "version"

ManifestNames == <<"clib.json", "package.json">>
Retries == 3

Manifests == [name: Names, version: Versions \cup {NoVersion}, deps: Seq(Slugs),
              dev: Seq(Slugs), install: BOOLEAN]

VARIABLES
  server,      \* [Slugs -> the manifest in the repository]
  jsons,       \* the manifest cache: key -> manifest
  skip_cache,  \* opts.skip_cache
  mutex,       \* lock.mutex is held
  lpc,         \* where the load is
  slug,        \* what is loaded
  file,        \* index into manifest_names
  retries,
  res,         \* the response: none, or one that is live, freed, freed twice
  manifest     \* what has been read

loadVars == <<jsons, mutex, lpc, slug, file, retries, res, manifest>>
fixed == <<server, skip_cache>>

\* The key that is looked up, of the slug, and the key it is saved under, of the
\* package: the name is the manifest's, and so is the version unless the slug
\* asks for another one than master.
LookupKey(s) == <<s.repo, s.version>>
SaveKey(s, m) ==
  <<m.name, IF s.version = Master /\ m.version # NoVersion THEN m.version ELSE s.version>>

Keys == {LookupKey(s) : s \in Slugs} \cup (Names \X Versions)

-----------------------------------------------------------------------------

LoadInit(s) ==
  /\ jsons = << >> /\ mutex = FALSE
  /\ lpc = "idle" /\ slug = s /\ file = 1 /\ retries = Retries
  /\ res = "none" /\ manifest = server[s]

Goto(from, to) == lpc = from /\ lpc' = to

Load(s) ==
  /\ Goto("idle", "begin")
  /\ slug' = s /\ file' = 1
  /\ UNCHANGED <<jsons, mutex, retries, res, manifest>>

\* The slug is taken apart, the URL is built, ...
Begin ==
  /\ Goto("begin", "lock")
  /\ retries' = Retries /\ res' = "none"
  /\ UNCHANGED <<jsons, mutex, slug, file, manifest>>

\* ... unless memory runs out.
BeginFails ==
  /\ Goto("begin", "error")
  /\ retries' = Retries /\ res' = "none"
  /\ UNCHANGED <<jsons, mutex, slug, file, manifest>>

LockCache ==
  /\ Goto("lock", "cache")
  /\ ~mutex /\ mutex' = TRUE
  /\ UNCHANGED <<jsons, slug, file, retries, res, manifest>>

Cached == LookupKey(slug) \in DOMAIN jsons

CacheHit ==
  /\ Goto("cache", "build") /\ Cached /\ ~skip_cache
  /\ manifest' = jsons[LookupKey(slug)]
  /\ mutex' = FALSE
  /\ UNCHANGED <<jsons, slug, file, retries, res>>

CacheDelete ==
  /\ Goto("cache", "download") /\ Cached /\ skip_cache
  /\ jsons' = [k \in DOMAIN jsons \ {LookupKey(slug)} |-> jsons[k]]
  /\ UNCHANGED <<mutex, slug, file, retries, res, manifest>>

CacheMiss ==   \* no such file, or one that cannot be read
  /\ Goto("cache", "download") /\ (Cached => ~skip_cache)
  /\ UNCHANGED <<jsons, mutex, slug, file, retries, res, manifest>>

\* (faulty form of Download: one attempt too many)
DownloadOnceMore ==
  /\ lpc = "download"
  /\ lpc' = IF retries < 0 THEN "error" ELSE "get"
  /\ mutex' = FALSE /\ retries' = retries - 1
  /\ UNCHANGED <<jsons, slug, file, res, manifest>>

\* The label download: the lock is released, also on a retry, when it is free.
Download ==
  /\ lpc = "download"
  /\ lpc' = IF retries <= 0 THEN "error" ELSE "get"
  /\ mutex' = FALSE /\ retries' = retries - 1
  /\ UNCHANGED <<jsons, slug, file, res, manifest>>

GetOk ==
  /\ Goto("get", "build")
  /\ res' = "live" /\ manifest' = server[slug]
  /\ UNCHANGED <<jsons, mutex, slug, file, retries>>

\* (faulty form of GetFails, that of hw-16/2: the response is freed before the
\* retry, and, when it was the last one, once more by Error)
GetFailsFreed ==
  /\ Goto("get", "download")
  /\ res' = "freed"
  /\ UNCHANGED <<jsons, mutex, slug, file, retries, manifest>>

\* The response of an attempt that failed is lost when the next one comes in.
GetFails ==
  /\ Goto("get", "download")
  /\ res' = "live"
  /\ UNCHANGED <<jsons, mutex, slug, file, retries, manifest>>

\* res->data is read before res is looked at.
GetNull ==
  /\ Goto("get", "crashed")
  /\ UNCHANGED <<jsons, mutex, slug, file, retries, res, manifest>>

FreeRes == CASE res = "none" -> "none" [] res = "live" -> "freed" [] OTHER -> "freed_twice"

BuildFails ==
  /\ Goto("build", "error")
  /\ UNCHANGED <<jsons, mutex, slug, file, retries, res, manifest>>

\* The package is built and its manifest saved, if that works.
Build ==
  /\ Goto("build", "loaded")
  /\ ~mutex
  /\ LET key == SaveKey(slug, manifest)
     IN  jsons' \in {jsons, [k \in DOMAIN jsons \cup {key} |-> IF k = key THEN manifest ELSE jsons[k]]}
  /\ res' = FreeRes
  /\ UNCHANGED <<mutex, slug, file, retries, manifest>>

\* (faulty form of Error: the same manifest name is tried again)
ErrorSameName ==
  /\ lpc = "error"
  /\ res' = FreeRes
  /\ lpc' = IF file < Len(ManifestNames) THEN "begin" ELSE "null"
  /\ UNCHANGED <<jsons, mutex, slug, file, retries, manifest>>

\* What there is is freed, and the next manifest name is tried.
Error ==
  /\ lpc = "error"
  /\ res' = FreeRes
  /\ IF file < Len(ManifestNames) THEN lpc' = "begin" /\ file' = file + 1
                                  ELSE lpc' = "null" /\ UNCHANGED file
  /\ UNCHANGED <<jsons, mutex, slug, retries, manifest>>

\* The caller takes the package, or NULL.
Taken(as) == Goto(as, "idle") /\ UNCHANGED <<jsons, mutex, slug, file, retries, res, manifest>>

Loading ==
  \/ Begin \/ BeginFails \/ LockCache \/ CacheHit \/ CacheDelete \/ CacheMiss
  \/ Download \/ GetOk \/ GetFails \/ GetNull \/ Build \/ BuildFails \/ Error
=============================================================================
