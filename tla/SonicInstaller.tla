-------------------------- MODULE SonicInstaller --------------------------
(* sonic-installer: the images on the flash, what each boot loader keeps   *)
(* of them, the certificates of Secure Boot and the docker images of the   *)
(* services.  A command is a list of steps, each of which writes one file  *)
(* or one boot variable: power may be lost between two, and a step may     *)
(* fail, which ends the command where it is.                               *)
EXTENDS Naturals, Sequences, FiniteSets, SequencesExt

CONSTANTS
  OsImages,            \* images of the operating system
  NoImage,             \* an empty slot, or a selector that is not set
  FirstImage,          \* the image that runs first
  Loaders,             \* the boot loaders: some of "grub", "uboot", "bmc", "aboot"
  Certs,               \* certificates of the UEFI db
  FirstDbs,            \* what the UEFI db may hold at first
  Shim,                \* the boot loader's own binary
  Signers,             \* [OsImages \cup {Shim} -> SUBSET Certs]
  AuthFiles,           \* the .auth files in their order: a sequence of sets of certificates
  MaxJobs,             \* bound on the commands given
  MaxFailures          \* bound on failing steps

ASSUME InstallerAssumption ==
  /\ Loaders \subseteq {"grub", "uboot", "bmc", "aboot"}
  /\ FirstImage \in OsImages /\ NoImage \notin OsImages /\ Shim \notin OsImages
  /\ Signers \in [OsImages \cup {Shim} -> SUBSET Certs]
  /\ AuthFiles \in Seq(SUBSET Certs)
  /\ \A db \in FirstDbs, b \in {FirstImage, Shim} : Signers[b] \cap db # {}

VARIABLES
  flash,    \* boot loader, running image, directories, entries and selectors
  efi,      \* the UEFI db, whether Secure Boot is on, whether an update failed
  job,      \* the steps the command still has to do, and its image
  docker,   \* images of one service: latest, tags, warm restart flag and state
  given,    \* commands so far
  failures  \* steps failed so far
installerVars == <<flash, efi, job, docker, given, failures>>

NoJob == [steps |-> <<>>, image |-> NoImage]

(* The selectors default and once are positions in menu (grub counts from  *)
(* 0, this model from 1) or slots, on aboot SWI_DEFAULT and SWI.           *)
InstallerInit ==
  /\ \E k \in Loaders :
       flash = [kind |-> k, current |-> FirstImage, dirs |-> {FirstImage},
                menu |-> IF k \in {"uboot", "bmc"} THEN <<FirstImage, NoImage>> ELSE <<FirstImage>>,
                default |-> IF k = "aboot" THEN FirstImage ELSE 1,
                once |-> IF k = "aboot" THEN FirstImage ELSE NoImage,
                fips |-> {}, environment |-> {}, packages |-> {}, swap |-> FALSE, torn |-> FALSE]
  /\ \E db \in FirstDbs, secure \in BOOLEAN :
       efi = [db |-> db, secure |-> secure /\ flash.kind = "grub", updateFailed |-> FALSE]
  /\ job = NoJob
  /\ docker = [latest |-> "old", tags |-> {"old"}, loaded |-> "old", running |-> "old",
               warm |-> FALSE, state |-> "", result |-> ""]
  /\ given = 0 /\ failures = 0

---------------------------------------------------------------------------
(* What the boot loaders report                                            *)
Position(f, i) == SelectInSeq(f.menu, LAMBDA j : j = i)

get_installed_images(f) ==
  IF f.kind = "aboot" THEN f.dirs ELSE Range(f.menu) \ {NoImage}

Entry(f, k) == IF k \in DOMAIN f.menu THEN f.menu[k] ELSE NoImage

grub_get_next_image(f) == Entry(f, IF f.once # NoImage THEN f.once ELSE f.default)

uboot_get_next_image(f) == Entry(f, f.default)

bmc_get_next_image(f) == Entry(f, IF f.once # NoImage THEN f.once ELSE f.default)

aboot_get_next_image(f) == f.once

get_next_image(f) ==
  CASE f.kind = "grub" -> grub_get_next_image(f)
    [] f.kind = "uboot" -> uboot_get_next_image(f)
    [] f.kind = "bmc" -> bmc_get_next_image(f)
    [] f.kind = "aboot" -> aboot_get_next_image(f)

(* What the loader really starts: the one-time selector first. *)
Booted(f) ==
  IF f.kind = "aboot" THEN f.once ELSE Entry(f, IF f.once # NoImage THEN f.once ELSE f.default)

---------------------------------------------------------------------------
(* The steps of the loaders' operations                                    *)
set_default_image(f, i) ==
  CASE f.kind \in {"grub", "uboot"} -> << <<"default", Position(f, i)>> >>
    [] f.kind = "bmc" -> << <<"default", Position(f, i)>>, <<"once", NoImage>> >>
    [] f.kind = "aboot" -> << <<"boot_config", i>> >>

set_next_image(f, i) ==
  << <<"once", IF f.kind = "aboot" THEN i ELSE Position(f, i)>> >>

loader_install_image(f, i) ==
  << <<"installer", i>> >> \o
  CASE f.kind = "grub" -> << <<"default", 1>> >>
    [] f.kind = "bmc" -> << <<"once", NoImage>> >>
    [] OTHER -> <<>>

grub_remove_image(f, i) == << <<"unlist", i>>, <<"rmdir", i>>, <<"default", 1>> >>

uboot_remove_image(f, i) ==
  << <<"default", 3 - Position(f, i)>>, <<"unlist", i>>, <<"rmdir", i>> >>

(* A bug: the one-time selector is not looked at. *)
bmc_remove_image_keeps_once(f, i) ==
  LET slot == Position(f, i)
  IN IF f.menu[3 - slot] = NoImage THEN << <<"exit", i>> >>
     ELSE (IF f.default = slot THEN << <<"default", 3 - slot>> >> ELSE <<>>) \o
          << <<"unlist", i>>, <<"rmdir", i>> >>

bmc_remove_image(f, i) ==
  LET slot == Position(f, i)
  IN IF f.menu[3 - slot] = NoImage THEN << <<"exit", i>> >>
     ELSE (IF f.once = slot THEN << <<"once", NoImage>> >> ELSE <<>>) \o
          (IF f.default = slot THEN << <<"default", 3 - slot>> >> ELSE <<>>) \o
          << <<"unlist", i>>, <<"rmdir", i>> >>

aboot_remove_image(f, i) ==
  (IF i = f.once THEN << <<"boot_config", f.current>> >> ELSE <<>>) \o << <<"rmdir", i>> >>

remove_image(f, i) ==
  CASE f.kind = "grub" -> grub_remove_image(f, i)
    [] f.kind = "uboot" -> uboot_remove_image(f, i)
    [] f.kind = "bmc" -> bmc_remove_image(f, i)
    [] f.kind = "aboot" -> aboot_remove_image(f, i)

(* FIPS is a kernel argument of the image; on U-Boot all images share it. *)
loader_set_fips(f, i, enable) ==
  LET of == IF f.kind = "uboot" THEN OsImages ELSE {i}
  IN [f EXCEPT !.fips = IF enable THEN @ \cup of ELSE @ \ of]

(* The menu with the images of K only, in the order they have now. *)
MenuOf(f, K) ==
  {m \in SetToSeqs(Range(f.menu) \cap K) :
     \A j, k \in DOMAIN m : j < k => Position(f, m[j]) < Position(f, m[k])}

(* The installer in the image: it keeps the running image, and on grub and *)
(* aboot may keep others; the new image becomes the first and the default. *)
InstallerEffects(f, i) ==
  CASE f.kind = "grub" ->
         UNION {{[f EXCEPT !.menu = <<i>> \o m, !.dirs = keep \cup {i}] : m \in MenuOf(f, keep)} :
                  keep \in {K \in SUBSET f.dirs : f.current \in K}}
    [] f.kind \in {"uboot", "bmc"} ->
         {[f EXCEPT !.menu = <<i, f.current>>, !.default = 1, !.dirs = {i, f.current}]}
    [] f.kind = "aboot" ->
         {[f EXCEPT !.dirs = @ \cup {i}, !.default = i, !.once = i]}

Unlisted(f, i) ==
  IF f.kind = "grub" THEN MenuOf(f, Range(f.menu) \ {i})
  ELSE {[k \in DOMAIN f.menu |-> IF f.menu[k] = i THEN NoImage ELSE f.menu[k]]}

---------------------------------------------------------------------------
(* Secure Boot: the plan that trims the UEFI db                            *)
build_auth_map(c) ==
  LET having == {a \in DOMAIN AuthFiles : c \in AuthFiles[a]}
  IN IF having = {} THEN {} ELSE {CHOOSE a \in having : \A b \in having : a <= b}

(* A bug: a binary is safe as soon as some certificate of db signs it. *)
check_boot_chain_signed(records, reinstall) ==
  {b \in DOMAIN records : records[b] = {}}

check_boot_chain(records, reinstall) ==
  {b \in DOMAIN records : records[b] \cap reinstall = {}}

analyze(db, images) ==
  LET records == [b \in images \cup {Shim} |-> Signers[b] \cap db]
      used == UNION {records[b] : b \in DOMAIN records}
      selected == UNION {build_auth_map(c) : c \in used}
      reinstall == UNION {AuthFiles[a] : a \in selected}
  IN [used |-> used, selected |-> selected,
      missing |-> {c \in used : build_auth_map(c) = {}},
      drop |-> db \ (used \cup reinstall),
      at_risk |-> check_boot_chain(records, reinstall)]

(* Every installed image must have its kernel. *)
collect_targets(f) == get_installed_images(f) \subseteq f.dirs

(* The updates of the db a prune makes: none if the plan is not safe, has  *)
(* nothing stale (auto), or an image has no kernel.                        *)
apply_plan(plan) ==
  << <<"remove_all", NoImage>> >> \o
  [k \in 1..Cardinality(plan.selected) |-> <<"append", SetToSeq(plan.selected)[k]>>]

prune_db_certificates(auto) ==
  LET plan == analyze(efi.db, get_installed_images(flash))
      unsafe == \/ Len(AuthFiles) = 0 \/ efi.db = {}
                \/ ~collect_targets(flash)
                \/ plan.used = {} \/ plan.at_risk # {}
                \/ auto /\ (plan.missing # {} \/ plan.drop = {})
  IN IF unsafe THEN <<>>
     ELSE apply_plan(plan)

---------------------------------------------------------------------------
(* Commands                                                                *)
Give(i, steps) ==
  /\ job = NoJob /\ given < MaxJobs
  /\ given' = given + 1
  /\ job' = [steps |-> steps, image |-> i]
  /\ UNCHANGED <<flash, efi, docker, failures>>

(* checks: the file, the disk space, the kind and the platform of the      *)
(* image; on grub its certificate is enrolled and its signature verified.  *)
sonic_installer_install(i, checks, swap, backup, migrate_packages) ==
  LET signed == << <<"enroll", i>>, <<"verify", i>> >>
  IN IF i \in get_installed_images(flash) THEN Give(i, set_default_image(flash, i))
     ELSE /\ checks
          /\ Give(i, (IF flash.kind = "grub" /\ efi.secure THEN signed ELSE <<>>) \o
                     (IF swap THEN << <<"swapon", i>> >> ELSE <<>>) \o
                     loader_install_image(flash, i) \o << <<"swapoff", i>> >> \o
                     (IF backup THEN << <<"backup", i>> >> ELSE <<>>) \o
                     << <<"environment", i>> >> \o
                     (IF migrate_packages THEN << <<"packages", i>> >> ELSE <<>>))

set_default(i) ==
  i \in get_installed_images(flash) /\ Give(i, set_default_image(flash, i))

set_next_boot(i) ==
  i \in get_installed_images(flash) /\ Give(i, set_next_image(flash, i))

set_fips(i, enable) ==
  LET image == IF i = NoImage THEN get_next_image(flash) ELSE i
  IN /\ image \in get_installed_images(flash)
     /\ Give(image, << <<IF enable THEN "fips" ELSE "nofips", image>> >>)

prune_stale_db_certs == IF efi.secure THEN << <<"prune", TRUE>> >> ELSE <<>>

sonic_installer_remove(i) ==
  /\ i \in get_installed_images(flash) \ {flash.current}
  /\ Give(i, << <<"remove_image", i>> >> \o prune_stale_db_certs)

(* The next image is read once, before the first removal. *)
cleanup ==
  LET gone == get_installed_images(flash) \ {flash.current, get_next_image(flash)}
  IN /\ flash.kind = "grub" => get_next_image(flash) # NoImage
     /\ gone # {}
     /\ \E order \in SetToSeqs(gone) :
          Give(NoImage, [k \in DOMAIN order |-> <<"remove_image", order[k]>>] \o
                        prune_stale_db_certs)

(* secure_boot_db as a command of its own *)
prune_command(auto) == flash.kind = "grub" /\ Give(NoImage, << <<"prune", auto>> >>)

(* The new docker image of swss: it is loaded before orchagent is asked    *)
(* whether it can restart; a refusal undoes the flag and the load.         *)
upgrade_docker(id, warm, cleanup_image) ==
  LET set == ~docker.warm /\ warm
  IN /\ id \notin docker.tags
     /\ Give(NoImage,
          (IF set THEN << <<"warm", TRUE>> >> ELSE <<>>) \o << <<"load", id>> >> \o
          (IF docker.warm \/ warm THEN << <<"restart_check", set>>, <<"forget", id>> >> ELSE <<>>) \o
          << <<"kill", id>>, <<"tag", id>>, <<"start", id>> >> \o
          (IF cleanup_image THEN << <<"rmi", docker.latest>> >> ELSE <<>>) \o
          (IF docker.warm \/ warm THEN << <<"wait", id>> >> ELSE <<>>) \o
          (IF set THEN << <<"warm", FALSE>> >> ELSE <<>>))

rollback_docker ==
  /\ Cardinality(docker.tags) = 2
  /\ Give(NoImage, << <<"retag", CHOOSE t \in docker.tags : t # docker.latest>> >>)

---------------------------------------------------------------------------
(* Steps                                                                   *)
(* Swap is set up when memory is short and the disk has room. *)
SWAPAllocator(f) == {f, [f EXCEPT !.swap = TRUE]}
remove_swapmem(f) == [f EXCEPT !.swap = FALSE]

(* Without a template in the image, or if rendering fails, no file is left. *)
update_sonic_environment(f, i) ==
  {[f EXCEPT !.environment = @ \ {i}], [f EXCEPT !.environment = @ \cup {i}]}

(* Without docker files or docker.sh in the image nothing is migrated. *)
migrate_sonic_packages(f, i) == {f, [f EXCEPT !.packages = @ \cup {i}]}

FlashEffects(f, verb, x) ==
  CASE verb = "default" -> {[f EXCEPT !.default = x]}
    [] verb = "once" -> {[f EXCEPT !.once = x]}
    [] verb = "boot_config" -> {[f EXCEPT !.default = x, !.once = x]}
    [] verb = "unlist" -> {[f EXCEPT !.menu = m] : m \in Unlisted(f, x)}
    [] verb = "rmdir" -> {[f EXCEPT !.dirs = @ \ {x}, !.environment = @ \ {x},
                                    !.packages = @ \ {x}]}
    [] verb = "installer" -> InstallerEffects(f, x)
    [] verb = "swapon" -> SWAPAllocator(f)
    [] verb = "swapoff" -> {remove_swapmem(f)}
    [] verb = "backup" -> {f}
    [] verb = "environment" -> update_sonic_environment(f, x)
    [] verb = "packages" -> migrate_sonic_packages(f, x)
    [] verb = "fips" -> {loader_set_fips(f, x, TRUE)}
    [] verb = "nofips" -> {loader_set_fips(f, x, FALSE)}
    [] OTHER -> {}

DbEffects(e, verb, x) ==
  CASE verb = "enroll" -> {e} \cup {[e EXCEPT !.db = @ \cup {c}] : c \in Signers[x]}
    [] verb = "remove_all" -> {[e EXCEPT !.db = {}]}
    [] verb = "append" -> {[e EXCEPT !.db = @ \cup AuthFiles[x]]}
    [] OTHER -> {}

DockerEffects(d, verb, x) ==
  CASE verb = "warm" -> {[d EXCEPT !.warm = x]}
    [] verb = "load" -> {[d EXCEPT !.loaded = x, !.latest = x]}
    [] verb = "forget" -> {[d EXCEPT !.state = ""]}
    [] verb = "kill" -> {[d EXCEPT !.running = ""]}
    [] verb = "tag" -> {[d EXCEPT !.tags = @ \cup {x}]}
    [] verb = "start" -> {[d EXCEPT !.running = d.latest]}
    [] verb = "rmi" -> {[d EXCEPT !.tags = @ \ {x}]}
    [] verb = "wait" -> {[d EXCEPT !.state = s, !.result = s] : s \in {"", "reconciled"}}
    [] verb = "retag" -> {[d EXCEPT !.latest = x, !.loaded = x]}
    [] OTHER -> {}

verb == Head(job.steps)[1]
arg == Head(job.steps)[2]
Continue(steps) == job' = IF steps = <<>> THEN NoJob ELSE [job EXCEPT !.steps = steps]
Working == job # NoJob /\ UNCHANGED given

FlashStep ==
  /\ Working
  /\ \E f \in FlashEffects(flash, verb, arg) : flash' = f
  /\ Continue(Tail(job.steps))
  /\ UNCHANGED <<efi, docker, failures>>

DbStep ==
  /\ Working
  /\ \E e \in DbEffects(efi, verb, arg) : efi' = e
  /\ Continue(Tail(job.steps))
  /\ UNCHANGED <<flash, docker, failures>>

DockerStep ==
  /\ Working
  /\ \E d \in DockerEffects(docker, verb, arg) : docker' = d
  /\ Continue(Tail(job.steps))
  /\ UNCHANGED <<flash, efi, failures>>

(* A step that is carried out by steps of its own, chosen when it is reached *)
Expand ==
  /\ Working
  /\ \/ /\ verb = "remove_image"
        /\ Continue(remove_image(flash, arg) \o Tail(job.steps))
     \/ /\ verb = "prune"
        /\ Continue(prune_db_certificates(arg))
     \/ /\ verb = "verify"
        /\ Continue(IF Signers[arg] \cap efi.db # {} THEN Tail(job.steps) ELSE <<>>)
     \/ /\ verb = "exit" /\ Continue(<<>>)
  /\ UNCHANGED <<flash, efi, docker, failures>>

(* orchagent_restart_check: on a refusal the command undoes what it did. *)
RestartCheck ==
  /\ Working /\ verb = "restart_check"
  /\ \/ docker' = docker /\ Continue(Tail(job.steps))
     \/ /\ docker' = [docker EXCEPT !.warm = IF arg THEN FALSE ELSE @,
                                    !.latest = docker.running, !.loaded = docker.running]
        /\ Continue(<<>>)
  /\ UNCHANGED <<flash, efi, failures>>

(* A failing command ends the job; in install_image the directory of the   *)
(* image is deleted, whatever the installer has entered in the loader; a   *)
(* failing append does not stop the ones after it.                         *)
InInstaller == \E k \in DOMAIN job.steps : job.steps[k][1] = "swapoff"
StepFailed ==
  /\ Working /\ failures < MaxFailures /\ failures' = failures + 1
  /\ verb \in {"installer", "default", "once", "unlist", "backup", "packages", "remove_all",
               "append", "load", "start"}
  /\ flash' = IF InInstaller /\ verb \in {"installer", "default", "once"}
              THEN [flash EXCEPT !.dirs = @ \ {job.image}, !.swap = FALSE,
                                 !.torn = @ \/ verb # "installer"]
              ELSE flash
  /\ efi' = [efi EXCEPT !.updateFailed = @ \/ verb \in {"remove_all", "append"}]
  /\ Continue(IF verb = "append" THEN Tail(job.steps) ELSE <<>>)
  /\ UNCHANGED docker

(* A signal ends the command; while the db is rewritten it is deferred. *)
InWindow == \E k \in DOMAIN job.steps : job.steps[k][1] = "append"
defer_cancellation ==
  /\ Working /\ ~InWindow
  /\ job' = NoJob
  /\ UNCHANGED <<flash, efi, docker, failures>>

(* Power is lost, or the switch is rebooted; a switch whose loader selects *)
(* no installed image does not come up.                                    *)
Reboot ==
  /\ Booted(flash) \in flash.dirs
  /\ flash' = [flash EXCEPT !.current = Booted(flash),
                            !.once = IF flash.kind = "aboot" THEN flash.default ELSE NoImage]
  /\ efi' = [efi EXCEPT !.updateFailed =
               @ \/ InWindow]
  /\ docker' = [docker EXCEPT !.warm = FALSE, !.state = "", !.running = docker.latest]
  /\ job' = NoJob
  /\ UNCHANGED <<given, failures>>

ImageCommand ==
  \/ \E i \in OsImages :
       \/ \E b \in [1..4 -> BOOLEAN] : sonic_installer_install(i, b[1], b[2], b[3], b[4])
       \/ set_default(i)
       \/ set_next_boot(i)
       \/ sonic_installer_remove(i)
  \/ \E i \in {NoImage, FirstImage}, b \in BOOLEAN : set_fips(i, b)
  \/ cleanup
  \/ \E b \in BOOLEAN : prune_command(b)

DockerCommand ==
  \/ \E w, c \in BOOLEAN : upgrade_docker("new", w, c)
  \/ rollback_docker

ImagesNext ==
  ImageCommand \/ FlashStep \/ DbStep \/ Expand \/ StepFailed \/ defer_cancellation \/ Reboot

ImagesSpec == InstallerInit /\ [][ImagesNext]_installerVars

DockersNext ==
  DockerCommand \/ DockerStep \/ RestartCheck \/ StepFailed \/ Reboot

---------------------------------------------------------------------------
(* Hazard: power lost inside remove or set-default.  Whenever a BMC is     *)
(* switched off, also between two writes of the boot variables, U-Boot     *)
(* starts a slot whose image has its directory: remove_image moves both    *)
(* selectors away before it erases the slot and the files.  (A failing     *)
(* write after the installer, which deletes the new image, is excepted.)   *)
BootsInstalledImage ==
  flash.kind = "bmc" /\ ~flash.torn => Booted(flash) \in flash.dirs

(* Hazard: the UEFI db is emptied and filled again from the .auth files.   *)
(* With Secure Boot on, and unless an update of the db failed or was cut   *)
(* off, every image of the menu and the boot loader have a signer in db    *)
(* before and after each prune, whichever certificates the images share    *)
(* and whichever .auth files there are.                                    *)
BootChainTrusted ==
  flash.kind = "grub" /\ efi.secure /\ ~efi.updateFailed /\ ~InWindow =>
    \A b \in Range(flash.menu) \cup {Shim} : Signers[b] \cap efi.db # {}
===========================================================================
